SPECIFICATION Spec
CONSTANTS
  c1 = c1
  c2 = c2
  r1 = r1
  r2 = r2
  k1 = k1
  k2 = k2
  NoOne = NoOne
  Conns <- TwoConns
  Rewriters <- TwoJobs
  Keys <- K2
  Owns <- Private
  Policy = "always"
  MinSize = 1
  Percentage = 100
  Faults <- Anything
  MaxErrors = 1
  MaxCrashes = 1
  MaxWrites = 2
SYMMETRY Jobs
INVARIANTS
  DurableUnlessRewritten
  SizeCovers
PROPERTIES
  LossConfined
  RestartRestores
