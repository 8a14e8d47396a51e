SPECIFICATION Spec
CONSTANTS
  ka = ka
  kb = kb
  Star = Star
  One = One
  Alphabet <- MCAlphabet
  GlobKeys <- MCGlobKeys
  GlobPatterns <- MCGlobPatterns
  CursorBase = 4
  MinCount = 1
  MaxCount = 2
  Stores <- MCStores
  Hints = {0, 1, 2, 9}
  Cursors = {0, 2, 7, 9}
  Commands <- MCCommands
  DigitStrings <- MCDigitStrings
  MaxSent = 2
  MaxArray = 2
  MaxString = 10
  MinBuffer = 4
  MaxBuffer = 19
  I64Max = 127
  Numerals <- MCNumerals
  Requests <- MCRequests
  MaxValue = 1
  MaxTtl = 2
  MaxClock = 2
  MaxLog = 3
  Never = 100
INVARIANTS
  GlobExact
  ScanExact
  FragmentSafe
  TornLogDetected
  ParseExact
  RecoveryFaithful
CHECK_DEADLOCK FALSE
