--------------------------- MODULE MCSmallServers ---------------------------
(***************************************************************************)
(* Instances, for TLC, of the small servers of net/ against the same       *)
(* clients.  A behaviour runs the server that `server' names; the state of *)
(* the others does not change.                                             *)
(***************************************************************************)
EXTENDS Sockets, Functions

CONSTANTS
  POLL_SIZE,
  AllReq,    \* bound: requests of all clients together
  PollReq,   \* the same for the poll() server
  Senders,   \* the clients that send; others connect and leave
  Watched    \* the clients the liveness properties are about

\* The array of the poll() server has room for the listening socket, and the
\* processes may open a socket for a client at all.
ASSUME SmallServersAssumption == POLL_SIZE \in Nat \ {0} /\ FirstFd < Limit

VARIABLES
  server, status,
  selectClients, readset, selectPc, it,
  fds, pollPc, i,
  up, more,
  clients, pc, at,
  input, output, reads,
  accepting, op, taken

S == INSTANCE SimpleSelect WITH clients <- selectClients, pc <- selectPc
P == INSTANCE SimplePoll WITH pc <- pollPc
B == INSTANCE BlockingServers
M == INSTANCE Multiplex
L == INSTANCE LibeventServer
A == INSTANCE AsioServer

selectVars   == <<selectClients, readset, selectPc, it>>
pollVars     == <<fds, pollPc, i>>
blockVars    == <<up, more>>
multiVars    == <<clients, pc, at>>
libeventVars == <<input, output, reads>>
asioVars     == <<accepting, op, taken>>
allVars ==
  <<server, env, fdt, status, blockVars, selectVars, pollVars, multiVars, libeventVars, asioVars>>

AllInit ==
  /\ server \in {"select", "poll", "simple", "prefork", "multiplex", "libevent", "asio"}
  /\ S!Init /\ P!Init /\ B!Init /\ M!Init /\ L!Init /\ A!Init

Blocking == server \in {"simple", "prefork"}

\* Nothing listens yet.
Starting == IF Blocking THEN \A p \in Fds : up[p] = "start" ELSE status = "starting"

\* No process serves any more.
Stopped ==
  ~ Starting /\ IF Blocking THEN \A p \in Fds : up[p] # "up" ELSE status # "running"

\* simple_server is the first process alone.
Processes == IF server = "simple" THEN {FirstFd} ELSE Fds

Client(c) ==
  /\ ~ Starting /\ ~ Stopped
  /\ ClientStep(c)
  /\ c \notin Senders => sent'[c] = 0
  /\ FoldFunction(LAMBDA m, n : m + n, 0, sent') <= IF server = "poll" THEN PollReq ELSE AllReq

SelectFrame   == UNCHANGED <<server, blockVars, pollVars, multiVars, libeventVars, asioVars>>
PollFrame     == UNCHANGED <<server, blockVars, selectVars, multiVars, libeventVars, asioVars>>
BlockingFrame == UNCHANGED <<server, status, selectVars, pollVars, multiVars, libeventVars, asioVars>>
MultiFrame    == UNCHANGED <<server, blockVars, selectVars, pollVars, libeventVars, asioVars>>
LibeventFrame == UNCHANGED <<server, blockVars, selectVars, pollVars, multiVars, asioVars>>
AsioFrame     == UNCHANGED <<server, blockVars, selectVars, pollVars, multiVars, libeventVars>>

ServerStep ==
  \/ server = "select" /\ S!Step /\ SelectFrame
  \/ server = "poll" /\ P!Step /\ PollFrame
  \/ Blocking /\ B!CreateServerSocket(Processes) /\ BlockingFrame
  \/ Blocking /\ (\E p \in Processes : B!Step(p)) /\ BlockingFrame
  \/ server = "multiplex" /\ M!Step /\ MultiFrame
  \/ server = "libevent" /\ L!Step /\ LibeventFrame
  \/ server = "asio" /\ A!Step /\ AsioFrame

AllNext ==
  \/ ServerStep
  \/ (\E c \in Conns : Client(c)) /\ BlockingFrame /\ UNCHANGED blockVars
  \/ Blocking /\ (\E p \in Fds : B!SendMore(p)) /\ BlockingFrame

\* The only thread of a server, or what accepts its clients.
Thread ==
  \/ server \in {"select", "poll", "multiplex"} /\ ServerStep
  \/ server = "libevent" /\ L!Accepts /\ LibeventFrame
  \/ server = "asio" /\ A!Accepts /\ AsioFrame

Process(p) == Blocking /\ p \in Processes /\ B!Step(p) /\ BlockingFrame

Callback(c) ==
  \/ server = "libevent" /\ L!Input(c) /\ LibeventFrame
  \/ server = "asio" /\ A!Handler(c) /\ AsioFrame

\* A thread or process runs whenever it can; the loop of libevent and the
\* threads of asio get round to every client that is ready.
AllSpec ==
  /\ AllInit /\ [][AllNext]_allVars
  /\ WF_allVars(Thread)
  /\ \A p \in Fds : WF_allVars(Process(p))
  /\ \A c \in Conns :
       /\ WF_allVars(Callback(c))
       /\ WF_allVars(server = "libevent" /\ L!Output(c) /\ LibeventFrame)

(***************************************************************************)
(* Properties.                                                             *)
(***************************************************************************)
\* What the servers keep of descriptors and of their clients.
StateTypes ==
  /\ SocketsType
  /\ status \in {"starting", "running", "exited", "crashed", "sigpipe", "overflow", "terminated",
                "ended"}
  /\ up \in [Fds -> {"start", "up", "ended", "crashed", "sigpipe"}]
  /\ selectClients \subseteq Fds /\ readset \subseteq Fds \cup {FirstFd - 1} /\ it \in Nat
  /\ fds \in Seq([fd : Fds \cup {FirstFd - 1}, events : {"R", "W"},
                  revents : {"0", "IN", "OUT", "HUP", "NVAL"}, owed : Seq(Request)])
  /\ i \in 1 .. (POLL_SIZE + 1)
  /\ clients \in Seq(Fds) /\ at \in 1 .. (Len(clients) + 1)
  /\ op \in [Conns -> {"none", "read", "eof", "write"}]

\* What the servers buffer.
BufferTypes ==
  /\ taken \in [Conns -> Seq(Request)]
  /\ input \in [Conns -> Seq(Request)] /\ output \in [Conns -> Seq(Request)]
  /\ reads \in [Conns -> Nat]
  /\ Len(fds) <= POLL_SIZE

\* Where the servers are.
ControlTypes ==
  /\ selectPc \in {"select", "accept", "loop"} /\ pollPc \in {"poll", "loop"}
  /\ pc \in {"accept", "each"}
  /\ accepting \in BOOLEAN /\ more \in [Fds -> BOOLEAN]

\* Every variable of the servers and of the kernel has its type, and the poll()
\* server's slots stay inside its array.
TypeOK == StateTypes /\ BufferTypes /\ ControlTypes

\* The answers c was sent are those to its own requests, in order and once.
Own(c) == replied[c] = [n \in 1 .. Len(replied[c]) |-> <<c, n>>]

\* An answer is sent to the client whose requests it is for, in order and once,
\* also where only one of the lines that came is answered
\* (net/libevent/main.cpp:26).  The exception: a slot that an earlier client of
\* the poll() server left with POLLOUT sends its hello to the client that
\* accept() gave the number to (server_poll.cpp:155), who may not have asked.
OwnAnswersInOrder ==
  [][\A c \in Conns :
       replied'[c] # replied[c] => Own(c)' \/ (server = "poll" /\ P!Twins(c))]_allVars

\* Only a client that left is closed, with three exceptions: the poll() server
\* closes a client whose number a stale slot still watches, because the second
\* read() of its data fails (server_poll.cpp:131); the blocking servers close a
\* silent client, but never one whose request has come (socket.cpp:206), and
\* the one just accepted when setRcvTimeout() ends the process.
OnlyLeaversClosed ==
  [][\A c \in Conns :
       Reachable(c) /\ ~ Reachable(c)' =>
         \/ peer[c] # "open"
         \/ server = "poll" /\ P!Twins(c)
         \/ Blocking /\ inbox[c] = << >> /\ \E p \in Fds : fdt[p] = c /\ ~ more[p]
         \/ Blocking /\ link[c] = "backlog" /\ up' # up]_allVars

\* What a server still has to do for a client.  libevent's callback answers one
\* line a call; the multiplexing server only reads.
Behind(c) ==
  CASE server = "libevent" -> Len(replied[c]) < reads[c]
    [] server = "multiplex" -> inbox[c] # << >>
    [] OTHER -> \E n \in 1 .. sent[c] : \A k \in DOMAIN replied[c] : replied[c][k] # <<c, n>>

\* Every accepted client is served, unless it resets the connection, the server
\* stops, the server closed the connection (the exceptions of OnlyLeaversClosed),
\* or a client of libevent's server leaves before its answer is written out
\* (net/libevent/main.cpp:46 frees the output buffer).
RequestsServed ==
  \A c \in Watched \cap Senders :
    link[c] = "accepted" /\ Behind(c) ~>
      \/ ~ Behind(c) \/ peer[c] = "rst" \/ Stopped
      \/ (server = "poll" \/ Blocking) /\ ~ Reachable(c)
      \/ server = "libevent" /\ peer[c] # "open"

\* Every process of a blocking server that still runs has a client that sends
\* again and again before its timeout: client_work() does not return
\* (simple_server.cpp:8, prefork.cpp:8).
HeldForEver == Blocking /\ \A p \in Fds : []<>(more[p] \/ up[p] # "up")

\* Every client in the backlog is accepted: silent clients do not hold the
\* blocking servers (simple_server.cpp:7, prefork.cpp:7), unless clients that
\* never stop sending hold all their processes.  The others accept until
\* descriptors run out, and asio's server never again after that
\* (net/asio/main.cpp:186).
EveryoneAccepted ==
  HeldForEver \/
  \A c \in Watched :
    link[c] = "backlog" ~>
      \/ link[c] # "backlog" \/ Stopped
      \/ ~ Blocking /\ NoFreeFd
      \/ server = "asio" /\ ~ accepting

\* The socket of a client that left is closed, except by the multiplexing server
\* (multiplex.cpp:42) and, after a reset, the poll() server (server_poll.cpp:124).
LeaversReleased ==
  \A c \in Watched :
    link[c] = "accepted" /\ peer[c] # "open" /\ server # "multiplex" ~>
      \/ ~ Reachable(c) \/ Stopped
      \/ server = "poll" /\ peer[c] = "rst"

=============================================================================
