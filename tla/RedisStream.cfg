SPECIFICATION Spec
CONSTANTS
  Authenticate = TRUE
  Sent = {"step", "long"}
  MaxCommands = 2
  MaxLoops = 3
  MaxHandshakes = 2
  MaxWaits = 1
  Checkpoints = {0, 1}
INVARIANTS
  TypeOK
  InSync
  StreamConserved
  PositionCountsStream
  OneEventAfterCancel
PROPERTIES
  CancelEndsLoop
  WatchersExit
CHECK_DEADLOCK FALSE
