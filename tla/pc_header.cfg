SPECIFICATION Spec
CONSTANTS
  PtrSizes <- mcPtrSizes
  None = None
INVARIANT HeaderCoversNfunc
CHECK_DEADLOCK FALSE
