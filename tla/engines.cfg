CONSTANTS
  Conns = {c1, c2, c3}
  NoConn = NoConn
  FirstFd = 2
  Limit = 4
  MaxReq = 2
  MaxFail = 0
  SelectConns = {c1, c2}
  SelectReq = 4
  PollConns = {c1}
  PollReq = 2
  EpollConns = {c1, c2, c3}
  EpollReq = 2
  Senders = {c1, c2}
  Watched = {c1, c3}
SPECIFICATION AllSpec
CHECK_DEADLOCK FALSE
INVARIANTS EnginesTypeOK NoUseAfterDelete
PROPERTIES KeepsPromise RequestsAnswered LeaversReleased
