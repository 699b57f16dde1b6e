SPECIFICATION Spec
CONSTANTS
  Bodies <- MCBodies
  Behind <- MCBehind
  Bytes <- MCBytes
  MaxIndex = 2
INVARIANT TellsOfEveryFile
CHECK_DEADLOCK FALSE
