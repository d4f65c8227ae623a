SPECIFICATION Spec
CONSTANTS
  Addrs = {a1, a2}
  Names = {n1, n2}
  None = None
  MaxCmds = 2
  MaxCuts = 1
SYMMETRY Interchangeable
INVARIANTS
  WorkingConfig
CHECK_DEADLOCK FALSE
