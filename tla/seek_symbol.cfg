SPECIFICATION Spec
CONSTANTS
  Files <- mcFiles
  Pcs <- mcPcs
  StackTop <- mcStackTop
  Space = 65536
  None = None
  BufSize = 16
  Garbage <- mcGarbage
INVARIANT AnswersAsMemory
INVARIANT TextRightOrEmpty
PROPERTY ImplementsMemory
