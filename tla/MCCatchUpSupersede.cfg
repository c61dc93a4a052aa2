SPECIFICATION FairSpec
CONSTANTS
  Consumers = {c1}
  Producers = {p1}
  Markets = {m1}
  NumScopes = 2
  ScopeResults = {"succeeded", "failed"}
  StartVersions = {1}
  MaxSource = 2
  MaxDecisions = 0
  MaxFaults = 0
  MaxFlips = 0
  NoOne = NoOne
PROPERTIES ClosedInputsAreSuperseded
