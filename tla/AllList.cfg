SPECIFICATION Spec
CONSTANTS
  Thread = {main, t1, t2, t3}
  initial_thread = main
  NoThread = NoThread
  Null = Null
  all_list = all_list
INVARIANT
  ForeachReachesAll
CHECK_DEADLOCK FALSE
