SPECIFICATION Spec
CONSTANTS
  b1 = b1
  b2 = b2
  b3 = b3
  b4 = b4
  b5 = b5
  NULL = NULL
  Blocks <- MCBlocks
  MaxChars = 4
  MaxLines = 2
  MaxFailures = 2
SYMMETRY Addresses
INVARIANTS TokensAreWords HeldTokenLives HeapAccounted
