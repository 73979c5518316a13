----------------------------- MODULE MCEngines -----------------------------
(***************************************************************************)
(* Instances, for TLC, of the select(), poll() and epoll servers against   *)
(* the same clients.  A behaviour runs the server that `server' names; the *)
(* state of the others does not change.                                    *)
(***************************************************************************)
EXTENDS PollEngine

CONSTANTS
  SelectConns, SelectReq,   \* clients of the select() server, all their requests
  PollConns, PollReq,
  EpollConns, EpollReq,
  Senders,                  \* the clients that send; others connect and leave
  Watched                   \* a client of each kind, for the liveness properties

VARIABLES
  server,
  sClients, read_fds, spc, si, buf, sGone,
  state, sd, interest, events, epc, eGone, eServed, misused

S == INSTANCE SelectEngine WITH m_Clients <- sClients, gone <- sGone
E == INSTANCE EpollEngine WITH gone <- eGone, served <- eServed

\* The data of the listener's event is no Client.
ASSUME ListenerAssumption == E!Listening \notin Conns

netVars    == <<env, fdt, status>>
selectVars == <<sClients, read_fds, spc, si, buf, sGone>>
pollVars   == <<m_Clients, cap, acc, mgr>>
epollVars  == <<state, sd, interest, events, epc, eGone, eServed, misused>>
allVars    == <<server, netVars, selectVars, pollVars, epollVars>>

AllInit == server \in {"select", "poll", "epoll"} /\ Init /\ S!Init /\ E!Init

\* The clients of this behaviour and how much they send together.
Within(conns, reqs) ==
  /\ \A c \in Conns \ conns : link'[c] = "none"
  /\ \A c \in Conns \ Senders : sent'[c] = 0
  /\ FoldFunction(LAMBDA m, n : m + n, 0, sent') <= reqs

AllNext ==
  /\ UNCHANGED server
  /\ \/ server = "select" /\ S!Next /\ Within(SelectConns, SelectReq)
          /\ UNCHANGED <<pollVars, epollVars>>
     \/ server = "poll" /\ Next /\ Within(PollConns, PollReq)
          /\ UNCHANGED <<selectVars, epollVars>>
     \/ server = "epoll" /\ E!Next /\ Within(EpollConns, EpollReq)
          /\ UNCHANGED <<selectVars, pollVars>>

\* Every thread of a server runs whenever it can.
AllSpec ==
  /\ AllInit /\ [][AllNext]_allVars
  /\ WF_<<netVars, selectVars>>(server = "select" /\ S!Loop)
  /\ WF_<<netVars, pollVars>>(server = "poll" /\ Manager)
  /\ WF_<<netVars, pollVars>>(server = "poll" /\ Acceptor)
  /\ WF_<<netVars, epollVars>>(server = "epoll" /\ E!EventStep)

(***************************************************************************)
(* Properties.                                                             *)
(***************************************************************************)
\* The variables of the select() and epoll servers have their types; the poll()
\* server's are checked with more clients in MCPollEngine.
EnginesTypeOK ==
  /\ server = "select" => S!TypeOK
  /\ server = "epoll" => E!TypeOK

\* No Client of the epoll server is used after its delete, although pointers to
\* it sit in the batch of events (EpollEngine!NoUseAfterDelete).
NoUseAfterDelete == E!NoUseAfterDelete

\* How far a client has come: "open" from connecting until the server closes it.
Phase ==
  [c \in Conns |-> IF link[c] = "none" THEN "none" ELSE IF Reachable(c) THEN "open" ELSE "closed"]

\* What the select() server has read and not yet echoed.
SelectPending ==
  [c \in Conns |-> IF spc = "write" /\ SocketAt(sClients[si]) = c THEN buf ELSE << >>]

\* What the clients of the select() and epoll servers see; the poll() server,
\* which promises less, is left out.
Shown(view, nothing) == [c \in Conns |-> IF server = "poll" THEN nothing ELSE view[c]]

Promise == INSTANCE Session WITH
  up <- server = "poll" \/ status = "running",
  phase <- Shown(Phase, "none"),
  peer <- Shown(peer, "open"),
  inbox <- Shown(inbox, << >>),
  pending <- Shown(IF server = "epoll" THEN eServed ELSE SelectPending, << >>),
  replied <- Shown(replied, << >>)

\* The select() and epoll servers keep their promise: every step of their loops
\* is a step of Session or changes nothing a client can see.  In particular they
\* drop only clients that left, and neither the assertion of select.cpp:88 nor a
\* failed select() ever ends the process.
KeepsPromise == Promise!Spec

\* Every request of an accepted client, and of every client of the select()
\* server, is answered unless the client resets the connection or the server
\* stops, although each accept cuts the loop of the select() server short
\* (select.cpp:54) and the threads of the poll() server race (poll.cpp:50).
RequestsAnswered ==
  \A c \in Watched :
    (server = "select" \/ link[c] = "accepted") /\ Len(replied[c]) < sent[c] ~>
      (Len(replied[c]) = sent[c] \/ peer[c] = "rst" \/ status # "running")

\* A client that closed or reset its connection to the select() or the epoll
\* server is closed by the server too (select.cpp:83-93, epoll.cpp:170-182).
LeaversReleased ==
  \A c \in Watched :
    server # "poll" /\ link[c] = "accepted" /\ peer[c] # "open" ~>
      ((\A f \in Fds : fdt[f] # c) \/ status # "running")

=============================================================================
