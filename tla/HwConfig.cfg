SPECIFICATION FairSpec
CONSTANTS
  FragMax = 252
  IndexMod = 127
  CountMod = 256
  MaxPatch = 40960
  PatchSizes = {1, 252, 253, 32256, 40960, 40961, 64600}
  Codes = {"none", "0x00006004", "0x052A8002", "0x06B58001", "0x00007001", "0x0252C014", "0x12345678"}
  AutoRestart = TRUE
  MaxStarts = 2
INVARIANTS TypeOK DownloadExact BaudAgree BuffersKept ReportedOnce
PROPERTIES CallbackReports
CHECK_DEADLOCK FALSE
