SPECIFICATION Spec
CONSTANTS
  t1 = t1
  t2 = t2
  k1 = k1
  k2 = k2
  Threads <- MCThreads
  Keys <- MCKeys2
  MaxVer = 2
  MaxClock = 1
  IoErrors = TRUE
SYMMETRY Symmetry2
INVARIANTS
  OneSaver
  FlagOwned
PROPERTIES
  PublishedFromWindow
  NeverOlder
  FinalSnapshotExact
