SPECIFICATION FairSpec
CONSTANTS
  SeqMod = 2
  Win = 1
  CtrlWin = 1
  RetransLimit = 1
  MaxDown = 1
  MaxUp = 3
  MaxUnrel = 0
  WireCap = 1
  MaxHandlers = 1
  BaudAnswer = 2
  NotPassed = {1}
INVARIANTS AckNotForgotten WindowsConsistent PassedUp
PROPERTIES UpRefines InFlightResolved
CHECK_DEADLOCK FALSE
