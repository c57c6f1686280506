SPECIFICATION FairFindSpec
CONSTANTS
  Tables <- mcTables
  Addresses <- mcAddresses
  Names <- mcNames
INVARIANT ProbesInTable
PROPERTY FindsCovering
PROPERTY RefusesUncovered
PROPERTY FindsFirstName
PROPERTY Answers
