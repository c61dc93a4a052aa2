SPECIFICATION FairSpec
CONSTANTS
  Syncers = {w, s}
  Worker = w
  Trades = {1, 2}
  DateOf <- MCDateOf
  Actual = {1}
  Backdated = FALSE
  Ties = TRUE
  MaxEdits = 0
  MaxErrors = 1
  MaxCrashes = 1
PROPERTIES SyncRecovers
