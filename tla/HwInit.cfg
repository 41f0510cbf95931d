SPECIFICATION FairSpec
CONSTANTS
  FragMax = 252
  IndexMod = 127
  CountMod = 256
  MaxPatch = 40960
  PatchSizes = {253}
  Codes = {"none"}
  AutoRestart = FALSE
  MaxStarts = 1
PROPERTIES InitReported
CHECK_DEADLOCK FALSE
