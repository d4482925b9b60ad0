\* DSNs with and without a file and a position; two files.
SPECIFICATION Spec
CONSTANTS
  DsnFiles = {0, 1}
  DsnPositions = {0, 1}
  MaxLog = 5
  MaxFiles = 2
  MaxReconnects = 1
  MaxCrashes = 1
  MaxRanges = 1
INVARIANTS
  TypeOK
  NoStepLostInFile
  RepeatsNeedCrashes
PROPERTY
  CancelEndsLoop
