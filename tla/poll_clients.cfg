CONSTANTS
  Conns = {c1, c2, c3}
  NoConn = NoConn
  FirstFd = 2
  Limit = 3
  MaxReq = 1
  MaxFail = 3
SPECIFICATION Spec
CHECK_DEADLOCK FALSE
SYMMETRY Symmetric
INVARIANTS TypeOK
PROPERTIES OnlyLeaversClosed
