CONSTANTS
  Ports = {0, 8080, 65536}
  MaxArgs = 4
  Unset = Unset
  Answers <- SampleAnswers
  QuerySize = 3
  BufSize = 7
  SizeMod = 16
  MaxPieces = 4
SPECIFICATION AllSpec
CHECK_DEADLOCK FALSE
INVARIANTS ServesAsAsked ClosedAtEnd SentIntact HeadersSeen
PROPERTIES EndsInTime
