SPECIFICATION NetworkSpec
CONSTANTS
  Addrs = {a1, a2}
  Names = {n1, n2}
  None = None
  MaxCmds = 4
  MaxCuts = 3
  Applies = {p1, p2}
  Contents = {c1, c2}
  Absent = Absent
  MaxRequests = 4
  MaxFaults = 2
SYMMETRY Interchangeable
INVARIANTS
  SomeConfig
  AsAsked
  DnsRecoverable
  KeyTrue
  UpMatchesFiles
CHECK_DEADLOCK FALSE
