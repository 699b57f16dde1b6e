SPECIFICATION Spec
CONSTANTS
  Word <- MCWord
  Lower <- MCLower
  Headers <- MCHeaders
CHECK_DEADLOCK FALSE
INVARIANTS TypeOK SlotsFilled WordsKept RecombineRestores TextFits EveryTurnAdvances
