SPECIFICATION FairSpec
CONSTANTS
  t1 = t1
  t2 = t2
  Tables = {t1, t2}
  Layout = "single"
  MaxLog = 5
  MaxCrashes = 1
  MaxRanges = 3
INVARIANTS
  TypeOK
  NoStepLost
  RepeatsNeedCrashes
PROPERTIES
  ImplementsStream
  EveryStepApplied
