SPECIFICATION Spec
CONSTANTS
  h1 = h1
  h2 = h2
  h3 = h3
  t1 = t1
  t2 = t2
  a = a
  b = b
  c = c
  dash = dash
  cli = cli
  c1 = c1
  c2 = c2
  shell = shell
  daemon = daemon
  Handlers = {h1, h2, h3}
  ProcessOf <- MCProcessOf
  FeeRequests = {f1, f2}
  Times = {1, 2}
  ReviewRequests = {r1, r2}
  Target <- MCTarget
  Decisions = {d1}
  Notes = {n1, n2}
  MaxSends = 3
  MaxDeaths = 1
  None = None
  Resolvers = {t1, t2}
  Runs = {a, b, c}
  Connected = {a, b}
  Requirements = {"r", "s", "u"}
  Hindsight = {"u"}
  Wanted <- MCWanted
  LocalCovers <- MCLocalCovers
  MaxRequests = 3
  MaxConcurrency = 1
  Attempts = 2
  MaxCalls = 2
  MaxFaults = 2
  Unresolved = Unresolved
  Reporters = {dash, cli}
  LastDay = 3
  Held <- MCHeld
  Portfolio = "portfolio"
  Periods <- MCPeriods
  Window <- MCWindow
  MaxTrades = 1
  MaxRuns = 2
  MaxInterruptions = 1
  Callers = {c1, c2}
  MaxCommands = 4
  MaxCycles = 4
  Reviewers = {shell, daemon}
  MaxChanges = 1
  MaxAttempts = 2
  MaxMishaps = 1
  MaxFetches = 1
  LastSecond = 1
  Nil = Nil
INVARIANTS
  ServiceTypes EffectiveFeeIsLast AnswersStayTrue OneProcessKeepsChain
  CapHolds NothingLeaks AskedOnce ToldIsFrozen NamesItsSource NoConflict
  NoDaySkipped OneVersionPerRun
  NothingOverslept
  CompletedIsOfItsKey CompletedIsNotRerun 
SYMMETRY Symmetry
CHECK_DEADLOCK FALSE
