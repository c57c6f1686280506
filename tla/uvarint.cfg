SPECIFICATION VarIntSpec
CONSTANTS
  Buffers <- mcBuffers
  Radix = 4
  MaxLen = 3
  Place <- mcPlace
  None = None
INVARIANT DecodesExactly
INVARIANT SignedExactly
CHECK_DEADLOCK FALSE
