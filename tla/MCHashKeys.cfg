SPECIFICATION Spec
CONSTANTS
  c1 = c1
  c2 = c2
  c3 = c3
  f1 = f1
  f2 = f2
  o1 = o1
  o2 = o2
  o3 = o3
  Nil = Nil
  Str = Str
  Conns <- MCConns
  Fields <- MCFields
  Objs <- MCObjs
  MaxLen = 1
  MaxCommands = 4
  MaxClock = 1
SYMMETRY Symmetry
INVARIANTS
  NoEmptyHash
  GrowthCounted
PROPERTIES
  HsetReachesStore
CHECK_DEADLOCK FALSE
