SPECIFICATION IoSpec
CONSTANTS
  t1 = t1  t2 = t2
  Threads <- TwoThreads
  Depth = 2
  MaxEdges = 7
  MaxStarts = 3
  Width = 4
  Least = 3
  Codes <- TwoCodes
INVARIANTS
  WholeSeconds
  SamplesInOrder
  AttenuatorAsAsked
SYMMETRY Symmetry
CHECK_DEADLOCK FALSE
