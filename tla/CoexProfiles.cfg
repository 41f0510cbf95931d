SPECIFICATION FairSpec
CONSTANTS
  Handles = {1, 2}
  HostCids = {1, 2}
  RemoteCids = {1, 2}
  Psms = {"a2dp", "pan"}
  PanLimit = 1
  MaxLate = 2
  MaxBegins = 3
  MaxPackets = 2
INVARIANTS TypeOK MapsMatchCounts CountsMatchList
PROPERTY BusyEnds
CHECK_DEADLOCK FALSE
