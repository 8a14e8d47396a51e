SPECIFICATION Spec
CONSTANTS
  c1 = c1
  c2 = c2
  x = x
  k1 = k1
  k2 = k2
  k3 = k3
  Conns <- Two
  Expirer = x
  Keys <- K1
  Commands <- AllCommands
  MaxMemory = 3
  U64 = 4
  I64Max = 1
  Evicting = FALSE
  MaxAttempts = 2
  MaxTtl = 1
  MaxClock = 1
SYMMETRY Symmetry2
INVARIANTS
  TypeOK
  MemoryConserved
PROPERTIES
  NoPrematureExpiry
  ExpiryNotLate
