SPECIFICATION Spec
CONSTANTS
  s1 = s1  s2 = s2  l1 = l1  l2 = l2  d1 = d1  d2 = d2
  Selectors <- TwoSelectors
  Loaders <- TwoLoaders
  Digests <- TwoDigests
  None = none
  MaxOps = 4
  MaxEnv = 4
INVARIANTS
  SnapshotWhenSelected
  ConsentedOnly
PROPERTIES
  LoadedWhatWasSelected
SYMMETRY Symmetry
CHECK_DEADLOCK FALSE
