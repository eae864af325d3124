SPECIFICATION FairSpec
CONSTANTS
  Thread = {t1, t2, t3, t4}
  NoThread = NoThread
INVARIANTS IndInv
PROPERTIES
  LockProgress SignalledWakes ImplementsMonitor
CHECK_DEADLOCK FALSE
