SPECIFICATION FairSpec
CONSTANTS
  c1 = c1
  c2 = c2
  Conns <- Two
  MaxConnections = 1
  RateLimit = 1
  BatchSize = 2
  MaxHalves <- Halves
  MaxClock = 2
INVARIANTS
  CountExact
  QuietAtExit
PROPERTIES
  ExecutedAnswered
  NoNewWork
  ShutdownCompletes
  SlotReleased
  AnsweredInTheEnd
CHECK_DEADLOCK FALSE
