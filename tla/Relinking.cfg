SPECIFICATION FairSpec
CONSTANTS
  p1 = p1
  p2 = p2
  t1 = t1
  t2 = t2
  t3 = t3
  k1 = k1
  k2 = k2
  NULL = NULL
  Managers = {p1}
  Commands = {c1}
  Tokens = {t1, t2, t3}
  Claims = {k1, k2}
  Disturbances = {"crash", "connectFailure", "close", "logout", "corrupt", "stop"}
  MaxFaults = 2
PROPERTIES RequestIsAnswered LinkResumes SessionResumes
CHECK_DEADLOCK FALSE
