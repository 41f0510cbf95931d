SPECIFICATION FairSpec
CONSTANTS
  SyncLimit = 1
  ConfLimit = 1
  MaxRestarts = 1
  WireCap = 1
INVARIANTS TypeOK OkOncePerLink FailAfterLimit HandshakeWatched
PROPERTIES InitAnswered RepetitionEnds
CHECK_DEADLOCK FALSE
