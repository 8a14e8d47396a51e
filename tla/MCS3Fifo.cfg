SPECIFICATION Spec
CONSTANTS
  t1 = t1
  t2 = t2
  k1 = k1
  k2 = k2
  Threads <- Two
  Keys <- K2
  SmallCapacity = 2
  MainCapacity = 1
  GhostCapacity = 2
SYMMETRY Symmetry
INVARIANTS
  QueuesExact
  EvictableUnlessExplained
  TypeTruthful
