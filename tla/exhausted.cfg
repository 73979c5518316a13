CONSTANTS
  Conns = {c1, c2}
  Workers = {w1}
  BadConn = BadConn
  NoConn = NoConn
  Acceptor = Acceptor
  NoThread = NoThread
  FirstFd = 1
  Limit = 2
  MaxReq = 1
  MaxFail = 2
SPECIFICATION FairSpec
CHECK_DEADLOCK FALSE
PROPERTIES DisconnectedReleased
