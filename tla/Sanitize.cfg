SPECIFICATION Spec
CONSTANTS
  Block <- MCBlock
  Claims <- MCClaims
  MaxBlocks = 4
  MaxChars = 12
INVARIANTS
  OnlyShownRemains
  Isolated
CHECK_DEADLOCK FALSE
