SPECIFICATION FairSpec
CONSTANTS
  Customer = {c1}
  Manual = {}
  p1 = p1
  p2 = p2
  w1 = w1
  w2 = w2
  Managers = {p1}
  Workers = {w1, w2}
  NULL = NULL
  InitialDelay = 0
  ActiveDelay = 0
  InactivityReset = 1
  ClaimTtl = 1
  RetryDelay = 1
  RetryLimit = 1
  MaxNow = 1
  MaxTokens = 2
  MaxClaims = 2
  MaxRouting = 1
  Faults = {"silent", "managerCrash", "publishFailure", "workerCrash", "expire", "providerFailure"}
PROPERTIES PendingResolves ReplySettles
CHECK_DEADLOCK FALSE
