SPECIFICATION Spec
CONSTANTS
  MaxAlloc = 2
  MaxHeld = 1
  Sourceless = {1, 2}
CHECK_DEADLOCK FALSE
INVARIANTS RefusedOnlyWhileExtracting
