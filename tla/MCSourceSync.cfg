SPECIFICATION Spec
CONSTANTS
  Syncers = {w, s}
  Worker = w
  Trades = {1, 2}
  DateOf <- MCDateOf
  Actual = {1}
  Backdated = FALSE
  Ties = FALSE
  MaxEdits = 1
  MaxErrors = 1
  MaxCrashes = 0
INVARIANTS TypeOK HealthyHasFees
PROPERTIES MirrorsSource SuccessIsCurrent BlockedOnlyIfMovedTwice
