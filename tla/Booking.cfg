SPECIFICATION Spec
CONSTANTS
  Ids = {a1, a2}
  Services = {s1}
  Resources = {r1, r2}
  Closures = {c1}
  Durations <- ServiceDurations
  Hours <- DayHours
  ClosedSpans <- DayClosures
  Notes = {n1, n2}
  Requests = {q1, q2, q3}
  NULL = null
  MaxTime = 2
SYMMETRY RequestSymmetry
CHECK_DEADLOCK FALSE
INVARIANTS NoDoubleBooking FutureIsHonoured SavedAsAgreed
PROPERTY FinalIsFrozen
