SPECIFICATION Spec
CONSTANTS
  MaxGen = 3
  MaxFailures = 2
  MaxCrashes = 1
  MaxClock = 2
  Direct = TRUE
  UndoMayFail = FALSE
INVARIANTS
  TypeOK
  FailedWriteKeepsPrevious
  NoTornPair
  CommittedBundleIsWhole
  StaleIndexOnlyWithinASecond
CHECK_DEADLOCK FALSE
PROPERTY KeepsPromise
