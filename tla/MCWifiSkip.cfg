SPECIFICATION WifiSpec
CONSTANTS
  Applies = {p1}
  Contents = {c1, c2}
  Absent = Absent
  MaxRequests = 4
  MaxFaults = 2
SYMMETRY Interchangeable
INVARIANTS
  SkippedIsInstalled
CHECK_DEADLOCK FALSE
