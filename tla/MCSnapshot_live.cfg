SPECIFICATION FairSpec
CONSTANTS
  t1 = t1
  t2 = t2
  k1 = k1
  k2 = k2
  Threads <- MCThreads
  Keys <- MCKeys1
  MaxVer = 1
  MaxClock = 2
  IoErrors = TRUE
INVARIANTS
  LastSaveHonest
PROPERTIES
  ImplementsFuzzy
  BgSaveHonoured
