CONSTANTS
  Conns = {c1}
  NoConn = NoConn
  FirstFd = 2
  Limit = 4
  MaxReq = 1
  MaxFail = 0
SPECIFICATION Spec
CHECK_DEADLOCK FALSE
PROPERTIES DisconnectedReleased
