SPECIFICATION ScreenSpec
CONSTANTS
  Keys = {k1, k2}
  Targets = {t1}
  Create = create
  Servers = {s1, s2}
  NULL = null
  SENT = sent
  MaxFaults = 2
  Tabs = {k1, k2}
  Phones = {n1}
  Names = {s1, s2}
  None = none
  Searches = {none}
  MaxClients = 2
  MaxWrites = 2
  MaxLosses = 1
SYMMETRY KeySymmetry
CHECK_DEADLOCK FALSE
INVARIANTS OnceByKey ReleasedIsSettled OneUndecidedPerTarget EditsWhatItSaved DoubtIsKept
PROPERTIES SavedStays
