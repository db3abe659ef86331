SPECIFICATION Spec
CONSTANTS
  Customer = {c1}
  Manual = {}
  p1 = p1
  p2 = p2
  w1 = w1
  w2 = w2
  Managers = {p1}
  Workers = {w1}
  NULL = NULL
  InitialDelay = 0
  ActiveDelay = 0
  InactivityReset = 1
  ClaimTtl = 1
  RetryDelay = 1
  RetryLimit = 1
  MaxNow = 0
  MaxTokens = 1
  MaxClaims = 1
  MaxRouting = 1
  Faults = {"providerFailure"}
INVARIANTS ProviderFailureMarked
CHECK_DEADLOCK FALSE
