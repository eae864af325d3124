SPECIFICATION FairSpec
CONSTANTS
  Thread = {main, idle, t1, t2}
  initial_thread = main
  Idle = idle
  NoThread = NoThread
  Sema = {idle_started, tid_lock, s1}
  idle_started = idle_started
  tid_lock = tid_lock
  NoSema = NoSema
  TIME_SLICE = 2
  MaxTicks = 3
  MaxSleep = 2
  MaxTid = 5
  MaxValue = 2
INVARIANTS IndInv NoLostWakeup NoOverdueSleeper
PROPERTIES NeverWokenEarly ReadyRuns SleeperRuns
