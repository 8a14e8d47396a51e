SPECIFICATION Spec
CONSTANTS
  c1 = c1
  c2 = c2
  x = x
  k1 = k1
  k2 = k2
  k3 = k3
  Conns <- Two
  Expirer = x
  Keys <- K1
  Commands <- IncrOnly
  MaxMemory = 20
  U64 = 32
  I64Max = 2
  Evicting = FALSE
  MaxAttempts = 2
  MaxTtl = 1
  MaxClock = 0
INVARIANTS
  IncrementsDistinct
