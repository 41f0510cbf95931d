SPECIFICATION FairSpec
CONSTANTS
  Callers = {c1}
  CountLimit = 2
  Punctual = FALSE
  MaxCoex = 1
  MaxTicks = 1
  MaxOpens = 2
INVARIANTS TypeOK ServerInv ServiceSerial
PROPERTIES ServesInOrder CommandsSent SilenceNoticed CloseEnds
CHECK_DEADLOCK FALSE
