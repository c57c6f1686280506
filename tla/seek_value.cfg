SPECIFICATION FairSpec
CONSTANTS
  Files <- mcFiles
  Entries <- mcEntries
  Targets <- mcTargets
  Quantum = 1
  MaxVarInt = 2
  BufSize = 8
  Garbage <- mcGarbage
INVARIANT WindowShowsFile
INVARIANT CursorIntact
INVARIANT MoveIsSafe
INVARIANT RoomyNeverFails
PROPERTY StepsAsInMemory
PROPERTY Answers
