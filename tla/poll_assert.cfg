CONSTANTS
  Conns = {c1,c2,c3}
  NoConn = NoConn
  FirstFd = 2
  Limit = 5
  MaxReq = 1
  MaxFail = 0
SPECIFICATION Spec
CHECK_DEADLOCK FALSE
SYMMETRY Symmetric
INVARIANTS AssertHolds
