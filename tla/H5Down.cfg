SPECIFICATION Spec
CONSTANTS
  SeqMod = 4
  Win = 3
  CtrlWin = 0
  RetransLimit = 1
  MaxDown = 4
  MaxUp = 0
  MaxUnrel = 1
  WireCap = 2
  MaxHandlers = 1
  BaudAnswer = 0
  NotPassed = {}
INVARIANTS
  TypeOK
  AckSafe
  QueuesHoldRest
  Watched
PROPERTIES
  DownRefines
CHECK_DEADLOCK FALSE
