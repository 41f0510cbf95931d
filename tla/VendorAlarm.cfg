SPECIFICATION Spec
CONSTANTS
  Callers = {c1}
  CountLimit = 3
  Punctual = TRUE
  MaxCoex = 2
  MaxTicks = 4
  MaxOpens = 2
INVARIANT NoFalseAlarm
CHECK_DEADLOCK FALSE
