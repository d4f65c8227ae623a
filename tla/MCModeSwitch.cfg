SPECIFICATION LiveSpec
CONSTANTS
  Admins = {adm}
  Apps = {"led", "rx"}
  Bare = {"websdr", "web888d", "pl", "led"}
  None = None
  MaxCmds = 2
  MaxFaults = 2
INVARIANTS
  PlIntact
  OneStack
  RunsTheSelection
  RefusedEarly
  SettledExclusive
PROPERTIES
  OnlyTheStoppedLoseThePl
  CommandReturns
CHECK_DEADLOCK FALSE
