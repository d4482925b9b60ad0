SPECIFICATION Spec
CONSTANTS
  MaxWal = 7
  MaxFlight = 1
  MaxOplog = 4
  MaxRepeats = 0
  MaxCrashes = 1
  MaxRanges = 2
  Readers = {"poll", "wire", "watch"}
  Checkpoints = {TRUE, FALSE}
INVARIANTS
  TypeOK
  WireAtLeastOnce
  AtMostOnce
  WatchedWasReplayed
PROPERTIES
  CancelEndsLoop
CHECK_DEADLOCK FALSE
