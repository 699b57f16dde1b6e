SPECIFICATION Spec
CONSTANTS
  Width = 8
  BufSize = 8
  LongLine = 6
  Requested = {"7bit", "8bit", "base64", "quoted-printable"}
  Sources <- MCSources
  Memory <- MCMemory
INVARIANTS TypeOK RoundTrip FitForMail FromEscaped
