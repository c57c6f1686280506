SPECIFICATION Spec
CONSTANTS
  Files <- mcFiles
  Bases <- mcBases
  HeaderBytes = 128
  Wide = 65536
  Space = 65536
INVARIANT OpensRight
INVARIANT RightOrRefuses
INVARIANT RoomyOpens
