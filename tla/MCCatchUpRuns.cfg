SPECIFICATION HalfSpec
CONSTANTS
  Consumers = {c1, c2}
  Producers = {p1}
  Markets = {m1, m2}
  NumScopes = 2
  ScopeResults = {"succeeded", "failed"}
  StartVersions = {1}
  MaxSource = 2
  MaxDecisions = 2
  MaxFaults = 1
  MaxFlips = 1
  NoOne = NoOne
INVARIANTS TypeOK OneCycleAtATime NoMixedCutoff StalePendingClosed AttemptsInOrder
PROPERTIES OnlyLeaselessEnqueueReopens LeasedEnqueuesAreReviewed StableInputSettles
  DriftBlockIsObsolete
ACTION_CONSTRAINT EmptyStaysEmpty
