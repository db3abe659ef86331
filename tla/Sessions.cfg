SPECIFICATION AccessSpec
CONSTANTS
  Modes = {"admin", "services", "resources", "calendar", "profile", "agent", "whatsapp"}
  Tenants = {a}
  j1 = j1
  j2 = j2
  j3 = j3
  Jobs = {j1, j2}
  MaxLogins = 2
  MaxWrites = 1
  MaxLoads = 2
  MaxLogouts = 1
  MaxFaults = 2
  NULL = NULL
  Requests = {q1, q2, q3}
  Registrations = {r1, r2}
  Emails = {e1}
  NOBODY = NOBODY
  Accounts = {a1, a2, a3, a4, a5, a6}
  Global = 2
  PerAccount = 2
  Minute = 2
  Horizon = 4
  Batch = 1
  MaxInstant = 6
INVARIANTS ServicesOfOwner WritesWhereRead NobodyWaitsInVain NothingOutlivesDeletion RegistrationsHold TableIsBounded
PROPERTIES NothingDisappears
SYMMETRY JobSymmetry
CHECK_DEADLOCK FALSE
