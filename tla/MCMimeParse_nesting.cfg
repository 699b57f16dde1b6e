SPECIFICATION Spec
CONSTANTS
  MaxAlloc = 5
  MaxFed = 8
  MaxLevels = 5
  MaxChildren = 3
  Handles = {1}
  Removable = {}
  Fragments = {1}
  NoBoundary = NoBoundary
  NoDelimiter = NoDelimiter
  Boundary <- MCBoundary
  Delimiter <- MCDelimiter
  Opens <- MCOpens
  Closes <- MCCloses
  Lines <- NestingLines
CHECK_DEADLOCK FALSE
INVARIANTS TypeOK BytesAccounted WellNested LinesFit
PROPERTIES ClosedPartsFrozen ImplementsMessageTree
