SPECIFICATION FairSpec
CONSTANTS
  Files <- mcFiles
  Entries <- mcEntries
  Targets <- mcTargets
  Quantum = 2
  MaxVarInt = 2
INVARIANT DecodesTable
PROPERTY Answers
