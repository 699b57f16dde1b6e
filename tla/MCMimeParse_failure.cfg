SPECIFICATION Spec
CONSTANTS
  MaxAlloc = 5
  MaxFed = 7
  MaxLevels = 2
  MaxChildren = 3
  Handles = {1}
  Removable = {}
  Fragments = {}
  NoBoundary = NoBoundary
  NoDelimiter = NoDelimiter
  Boundary <- MCBoundary
  Delimiter <- MCDelimiter
  Opens <- MCOpens
  Closes <- MCCloses
  Lines <- LimitLines
CHECK_DEADLOCK FALSE
PROPERTIES FailureDoesNoWork
