SPECIFICATION LiveSpec
CONSTANTS
  Burst = 2
  NBursts = 3
  Lengths <- OddAndFull
  Limit = 4
  MaxMade = 14
  MaxStarts = 2
  MaxFaults = 1
INVARIANTS
  InOrder
  FreshOnly
  WholeRingSkips
PROPERTIES
  ShortReadDrained
  ImplementsStream
  BlockDelivered
CHECK_DEADLOCK FALSE
