SPECIFICATION FairTableSpec
CONSTANTS
  Tables <- mcTables
  None = None
INVARIANT SeesTheTable
INVARIANT AnswersLinked
PROPERTY LoopEnds
CHECK_DEADLOCK FALSE
