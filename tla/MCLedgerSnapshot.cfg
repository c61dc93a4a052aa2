SPECIFICATION Spec
CONSTANTS
  Callers = {p}
  Codes = {"a", "b"}
  Dates = {1, 2, 3, 4}
  Openings <- MCOpenings
  Statements <- MCDayTrades
  CostAnchors <- MCAnchors
  Balances <- MCBalances
  FirstId = 8
  MaxOps = 2
  MaxClock = 0
CHECK_DEADLOCK FALSE
INVARIANT SnapshotIsReplay
