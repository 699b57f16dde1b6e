SPECIFICATION Spec
CONSTANTS
  MaxAlloc = 4
  MaxHeld = 1
  Sourceless = {1}
CHECK_DEADLOCK FALSE
INVARIANTS TypeOK FreedOnce LinksLive RefcountExact ExtractedPartsLive NoUnreachableParts
PROPERTIES HeldPartsSurvive ShutdownFreesAll
