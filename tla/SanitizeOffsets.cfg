SPECIFICATION Spec
CONSTANTS
  Block <- MCWideBlock
  Claims <- MCClaims
  MaxBlocks = 3
  MaxChars = 12
INVARIANTS
  EveryPageIsRead
CHECK_DEADLOCK FALSE
