CONSTANTS
  Conns = {c1, c2}
  Workers = {w1, w2}
  BadConn = BadConn
  NoConn = NoConn
  Acceptor = Acceptor
  NoThread = NoThread
  FirstFd = 1
  Limit = 3
  MaxReq = 1
  MaxFail = 0
SPECIFICATION Spec
SYMMETRY Symmetric
CHECK_DEADLOCK FALSE
INVARIANTS DescriptorOwned NoDescriptorLeak OwnEchoOnly TypeOK
