SPECIFICATION FairSpec
CONSTANTS
  t1 = t1
  Tables = {t1}
  Layout = "split"
  MaxLog = 6
  MaxCrashes = 1
  MaxRanges = 1
INVARIANT
  NoStepLost
