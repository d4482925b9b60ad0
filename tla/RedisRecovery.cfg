SPECIFICATION Spec
CONSTANTS
  Authenticate = FALSE
  Sent = {"step"}
  MaxCommands = 2
  MaxLoops = 1
  MaxHandshakes = 1
  MaxWaits = 0
  MaxCrashes = 1
  MaxRanges = 1
PROPERTY
  SkippedWereReplayed
CHECK_DEADLOCK FALSE
