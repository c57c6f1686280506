SPECIFICATION Spec
CONSTANTS
  Sections <- mcSections
  Names <- mcNames
  None = None
INVARIANT KeepsWhatIsSaid
INVARIANT ReplacementsAstray
INVARIANT TextsRight
CHECK_DEADLOCK FALSE
