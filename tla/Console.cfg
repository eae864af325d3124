SPECIFICATION Spec
CONSTANTS
  Threads = {m, u}
  Main = m
  Idle = idle
  None = none
  MsgLen = 2
  TIME_SLICE = 1
  MaxLevel = 3
INVARIANTS ConsoleInv MessagesWhole
PROPERTIES ConsoleComesFree PanicStops
CHECK_DEADLOCK FALSE
