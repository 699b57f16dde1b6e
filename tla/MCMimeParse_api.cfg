SPECIFICATION Spec
CONSTANTS
  MaxAlloc = 4
  MaxFed = 6
  MaxLevels = 3
  MaxChildren = 1
  Handles = {1, 2}
  Removable = {2, 3}
  Fragments = {}
  NoBoundary = NoBoundary
  NoDelimiter = NoDelimiter
  Boundary <- MCBoundary
  Delimiter <- MCDelimiter
  Opens <- MCOpens
  Closes <- MCCloses
  Lines <- ApiLines
CHECK_DEADLOCK FALSE
INVARIANTS TreeOK LimitsHold UnderstoodOnly NamesIdentify
PROPERTIES SectionNamesStable
