SPECIFICATION Spec
CONSTANTS
  p1 = p1
  p2 = p2
  t1 = t1
  t2 = t2
  t3 = t3
  k1 = k1
  k2 = k2
  NULL = NULL
  Managers = {p1, p2}
  Commands = {c1}
  Tokens = {t1, t2}
  Claims = {k1, k2}
  Disturbances = {"crash", "lostLock", "slow", "suspend"}
  MaxFaults = 2
INVARIANTS OneSocket
PROPERTIES CredentialsKept ConnectedByOwner AcknowledgedByOwner
SYMMETRY LinkingSymmetry
CHECK_DEADLOCK FALSE
