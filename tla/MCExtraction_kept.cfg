SPECIFICATION Spec
CONSTANTS
  Width = 72
  Parts = {"root", "leaf"}
  Root = "root"
  StartPos <- MCStartPos
  BodyStart <- MCBodyStart
  PartEncodings <- MCPartEncodings
  Messages <- MCMessages
  BufSize = 3
  MaxDepth = 2
CHECK_DEADLOCK FALSE
INVARIANTS BufferedBytesKept
