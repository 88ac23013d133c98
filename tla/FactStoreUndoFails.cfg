SPECIFICATION Spec
CONSTANTS
  MaxGen = 3
  MaxFailures = 2
  MaxCrashes = 1
  MaxClock = 2
  Direct = FALSE
  UndoMayFail = TRUE
INVARIANT PreviousPairIntact
CHECK_DEADLOCK FALSE
