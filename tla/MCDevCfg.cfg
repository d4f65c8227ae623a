SPECIFICATION LiveSpec
CONSTANTS
  p1 = p1  p2 = p2
  Procs <- TwoProcs
  Word = 2
  Header = 1
  Size = 6
  Chunks <- SomeChunks
  MaxFaults = 1
  None = none
INVARIANTS
  StreamExact
  BufferHeld
  Isolation
PROPERTIES
  CallsReturn
CHECK_DEADLOCK FALSE
