CONSTANTS
  Conns = {c1}
  Workers = {w1, w2}
  BadConn = BadConn
  NoConn = NoConn
  Acceptor = Acceptor
  NoThread = NoThread
  FirstFd = 1
  Limit = 2
  MaxReq = 2
  MaxFail = 0
SPECIFICATION FairSpec
CHECK_DEADLOCK FALSE
INVARIANTS AssertHolds OneWorkerPerConnection EchoedInOrder
PROPERTIES EveryRequestEchoed DisconnectedReleased
