SPECIFICATION FairSpec
CONSTANTS
  c1 = c1
  c2 = c2
  r1 = r1
  r2 = r2
  k1 = k1
  k2 = k2
  NoOne = NoOne
  Conns <- TwoConns
  Rewriters <- OneJob
  Keys <- K2
  Owns <- Private
  Policy = "everysec"
  MinSize = 1
  Percentage = 100
  Faults <- SyncOnly
  MaxErrors = 1
  MaxCrashes = 0
  MaxWrites = 2
INVARIANTS
  CleanMeansSynced
PROPERTIES
  RestartRestores
  SyncedInTheEnd
