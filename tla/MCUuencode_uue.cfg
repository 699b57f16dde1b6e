SPECIFICATION Spec
CONSTANTS
  Bodies <- MCBodies
  Behind <- MCBehind
  Bytes <- MCBytes
  MaxIndex = 2
INVARIANTS ExtractsWhatIsListed EveryLineDecodedOnce
CHECK_DEADLOCK FALSE
