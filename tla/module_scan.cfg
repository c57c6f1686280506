SPECIFICATION FairSpec
CONSTANTS
  Images <- mcImages
  None = None
INVARIANT NothingMissed
INVARIANT FindsReal
INVARIANT AnswersReal
PROPERTY SearchEnds
CHECK_DEADLOCK FALSE
