CONSTANTS
  Conns = {c1, c2, c3}
  NoConn = NoConn
  FirstFd = 2
  Limit = 4
  MaxReq = 2
  POLL_SIZE = 4
  AllReq = 2
  PollReq = 1
  Senders = {c1, c2}
  Watched = {c1}
SPECIFICATION AllSpec
CHECK_DEADLOCK FALSE
INVARIANTS TypeOK
PROPERTIES OwnAnswersInOrder OnlyLeaversClosed RequestsServed EveryoneAccepted LeaversReleased
