SPECIFICATION FairSpec
CONSTANTS
  MaxLog = 3
  MaxCrashes = 2
  MaxRanges = 2
INVARIANTS
  TypeOK
  NoStepLost
  RepeatsNeedCrashes
  OnlyStepsApplied
PROPERTIES
  ImplementsStream
  EveryStepApplied
