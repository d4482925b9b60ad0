\* Windows of two writes over three keys, each product and setting.
SPECIFICATION Spec
CONSTANTS
  Keys = {k1, k2, k3}
  Values = {null, v}
  Null = null
  Skipped = skipped
  MaxRows = 2
  Elements = {a, b}
  MaxList = 3
  Width = 2
  Drivers = {"mysql", "postgres", "mongo", "redis"}
  MaxWrites = 2
  MaxCrashes = 1
INVARIANTS
  TypeOK
  MatchesHistory
  RefusedForCause
\* A rollback that is done or refused stops.
CHECK_DEADLOCK FALSE
