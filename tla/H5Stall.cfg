SPECIFICATION FairSpec
CONSTANTS
  SeqMod = 2
  Win = 1
  CtrlWin = 0
  RetransLimit = 2
  MaxDown = 2
  MaxUp = 0
  MaxUnrel = 0
  WireCap = 1
  MaxHandlers = 1
  BaudAnswer = 0
  NotPassed = {}
PROPERTIES
  AllDelivered
CHECK_DEADLOCK FALSE
