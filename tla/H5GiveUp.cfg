SPECIFICATION GSpec
CONSTANTS
  SeqMod = 2
  Win = 1
  CtrlWin = 0
  RetransLimit = 2
  MaxDown = 2
  MaxUp = 0
  MaxUnrel = 0
  WireCap = 2
  MaxHandlers = 1
  BaudAnswer = 0
  NotPassed = {}
INVARIANTS
  GiveUpAfterLimit
CHECK_DEADLOCK FALSE
