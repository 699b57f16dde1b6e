SPECIFICATION Spec
CONSTANTS
  Word <- MCWord
  Lower <- MCLower
  Headers <- MCHeaders
  Base <- MCBase
  Star <- MCStar
  CharsetWord = {"c1", "c2", "c3", "c4"}
  Fields <- MCFields
  Labels <- MCLabels
  Numbers = {"7"}
CHECK_DEADLOCK FALSE
INVARIANTS HeadersNotHidden NamesReleasedOnce JoinedAsWritten EncodedWordsPaired
