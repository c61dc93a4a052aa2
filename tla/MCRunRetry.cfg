SPECIFICATION RunSpec
CONSTANTS
  Reviewers = {worker}
  MaxChanges = 1
  MaxAttempts = 2
  MaxMishaps = 1
  MaxFetches = 0
  LastSecond = 1
  Nil = Nil
INVARIANT RetryReusesReceipt
CHECK_DEADLOCK FALSE
