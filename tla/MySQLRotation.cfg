\* A worker that restarts, and a server that goes on to a second file.
SPECIFICATION Spec
CONSTANTS
  DsnFiles = {1}
  DsnPositions = {1}
  MaxLog = 6
  MaxFiles = 2
  MaxReconnects = 0
  MaxCrashes = 1
  MaxRanges = 1
INVARIANT
  NoStepLost
