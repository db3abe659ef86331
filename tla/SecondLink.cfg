SPECIFICATION Spec
CONSTANTS
  p1 = p1
  p2 = p2
  t1 = t1
  t2 = t2
  t3 = t3
  k1 = k1
  k2 = k2
  NULL = NULL
  Managers = {p1}
  Commands = {c1, c2}
  Tokens = {t1, t2, t3}
  Claims = {k1, k2}
  Disturbances = {"close"}
  MaxFaults = 1
PROPERTIES LinkedNeverRelinks
CHECK_DEADLOCK FALSE
