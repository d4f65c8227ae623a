SPECIFICATION Spec
CONSTANTS
  N = 3
  Files <- TwoFiles
  None = none
  MaxPayload = 2
  MaxOps = 3
  MaxFaults = 2
INVARIANTS
  BrickGuard
  OneGeneration
  LinkHealed
  FallbackKept
CHECK_DEADLOCK FALSE
