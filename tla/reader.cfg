SPECIFICATION Spec
CONSTANTS
  Images <- mcImages
  Versions <- mcVersions
  Texts <- mcTexts
  ParseVersion <- mcParse
  Addresses <- mcAddresses
  Bases <- mcBases
  PageSize = 4096
  Space = 65536
  None = None
INVARIANT CacheCoherent
INVARIANT HistoryFree
INVARIANT SearchesOnce
INVARIANT CompleteTables
