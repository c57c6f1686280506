SPECIFICATION FairSpec
CONSTANTS
  Images <- mcImages
  Indices <- mcIndices
  DepthBound = 6
  Count = Count
  None = None
INVARIANT DepthBounded
INVARIANT EndlessNeverReturns
INVARIANT FieldBelowCount
INVARIANT FieldsRight
PROPERTY WalkEnds
