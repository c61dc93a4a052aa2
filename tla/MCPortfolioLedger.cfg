SPECIFICATION Spec
CONSTANTS
  Callers = {p, q}
  Codes = {"a", "b"}
  Dates = {1, 2, 3, 4}
  Openings <- MCOpenings
  Statements <- MCStatements
  CostAnchors <- MCAnchors
  Balances <- MCBalances
  FirstId = 8
  MaxOps = 4
  MaxClock = 1
SYMMETRY Symmetry
CHECK_DEADLOCK FALSE
INVARIANTS TypeOK EveryDayReplays OnlyMisfitsBlock BooksBalance CyclesAgree BaselineSplits
PROPERTIES StatementShowsCash OlderHistoryLeavesPositions PastStaysKnown
