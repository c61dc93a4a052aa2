SPECIFICATION FairSpec
CONSTANTS
  Syncers = {w, s}
  Worker = w
  Trades = {1, 2}
  DateOf <- MCDateOf
  Actual = {1}
  Backdated = TRUE
  Ties = TRUE
  MaxEdits = 0
  MaxErrors = 0
  MaxCrashes = 0
PROPERTIES SyncRecovers
