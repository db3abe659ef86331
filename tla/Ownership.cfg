SPECIFICATION Spec
CONSTANTS
  Customer = {c1}
  Manual = {b1}
  p1 = p1
  p2 = p2
  w1 = w1
  w2 = w2
  Managers = {p1, p2}
  Workers = {w1}
  NULL = NULL
  InitialDelay = 0
  ActiveDelay = 0
  InactivityReset = 1
  ClaimTtl = 0
  RetryDelay = 1
  RetryLimit = 1
  MaxNow = 0
  MaxTokens = 3
  MaxClaims = 1
  MaxRouting = 1
  Faults = {"managerCrash", "lostLock", "close", "suspend", "agent", "rejected", "unknown"}
INVARIANTS AtMostOneSend SendingBelongsToLastOwner
PROPERTIES OnlyOwnerCloses ImplementsDelivery
SYMMETRY ManagerSymmetry
