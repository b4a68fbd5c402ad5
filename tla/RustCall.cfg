SPECIFICATION Spec
CONSTANTS
  b1 = b1
  b2 = b2
  b3 = b3
  b4 = b4
  b5 = b5
  b6 = b6
  b7 = b7
  Buffers <- MCBuffers
  None = None
  MaxArgs = 2
  MaxDepth = 4
  MaxFailures = 1
SYMMETRY Symmetry
INVARIANTS
  BuffersHeldOnce
  DecodedAsWritten
