SPECIFICATION Spec
CONSTANTS
  h1 = h1
  h2 = h2
  h3 = h3
  t1 = t1
  t2 = t2
  a = a
  b = b
  c = c
  dash = dash
  cli = cli
  c1 = c1
  c2 = c2
  shell = shell
  daemon = daemon
  Handlers = {h1, h2, h3}
  ProcessOf <- MCProcessOf
  FeeRequests = {f1, f2}
  Times = {1, 2}
  ReviewRequests = {r1, r2}
  Target <- MCTarget
  Decisions = {d1}
  Notes = {n1, n2}
  MaxSends = 0
  MaxDeaths = 1
  None = None
  Resolvers = {t1, t2}
  Runs = {a, b, c}
  Connected = {a, b}
  Requirements = {"r", "s", "u"}
  Hindsight = {"u"}
  Wanted <- MCWanted
  LocalCovers <- MCLocalCovers
  MaxRequests = 3
  MaxConcurrency = 1
  Attempts = 2
  MaxCalls = 0
  MaxFaults = 1
  Unresolved = Unresolved
  Reporters = {dash}
  LastDay = 3
  Held <- MCHeld
  Portfolio = "portfolio"
  Periods <- MCPeriods
  Window <- MCWindow
  MaxTrades = 1
  MaxRuns = 3
  MaxInterruptions = 1
  Callers = {c1, c2}
  MaxCommands = 0
  MaxCycles = 4
  Reviewers = {shell, daemon}
  MaxChanges = 0
  MaxAttempts = 0
  MaxMishaps = 0
  MaxFetches = 0
  LastSecond = 0
  Nil = Nil
INVARIANTS MissingAreGenerated
CHECK_DEADLOCK FALSE
