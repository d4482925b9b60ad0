SPECIFICATION FairSpec
CONSTANTS
  MaxLog = 3
  MaxCrashes = 0
  MaxRanges = 2
INVARIANTS
  PositionNamesRecord
