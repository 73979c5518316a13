----------------------------- MODULE PollEngine -----------------------------
(***************************************************************************)
(* The poll() server of net/libtpevent (poll.cpp): one thread accepts and  *)
(* appends to m_Clients, the other polls the clients, reads requests and   *)
(* answers them.  The vector they share has no lock ("TODO: need lock").   *)
(***************************************************************************)
EXTENDS Sockets, SequencesExt

CONSTANTS MaxFail   \* bound: accept() calls that fail

ASSUME MaxFailAssumption == MaxFail \in Nat

VARIABLES
  status,     \* "running", or how the process ended
  nfail,      \* number of accept() calls that failed
  m_Clients,  \* the clients: descriptor and WANT_READ "R" or WANT_WRITE "W"
  cap,        \* capacity of that vector
  apc,        \* acceptor: where it is in acceptNewConnections
  newSd,      \* acceptor: cli_sd
  seen,       \* acceptor: the vector that push_back() found
  mpc,        \* manager: where it is in manageConnections
  fds,        \* manager: pollfd array; slots keep their value between rounds
  mi,         \* manager: index of the loop over m_Clients
  mn,         \* manager: nfds of the poll() call in progress
  gone,       \* manager: disconnected_clients
  served      \* ghost, per client: the requests its next answer is for

acc  == <<nfail, apc, newSd, seen>>
mgr  == <<mpc, fds, mi, mn, gone, served>>
vars == <<env, fdt, status, m_Clients, cap, acc, mgr>>

Init ==
  /\ SocketsInit
  /\ status = "running"
  /\ nfail = 0
  /\ m_Clients = << >> /\ cap = 0
  /\ apc = "accept" /\ newSd = -1 /\ seen = << >>
  /\ mpc = "idle" /\ fds = << >> /\ mi = 1 /\ mn = 0 /\ gone = << >>
  /\ served = [c \in Conns |-> << >>]

Client(c) ==
  /\ status = "running"
  /\ ClientStep(c)
  /\ UNCHANGED <<status, m_Clients, cap, acc, mgr>>

(***************************************************************************)
(* acceptNewConnections.  A failed accept() is appended like a client.     *)
(***************************************************************************)
AcceptOk ==
  /\ \E c \in Conns, s \in Fds : AcceptAs(c, s) /\ newSd' = s
  /\ UNCHANGED nfail

AcceptFails ==
  /\ Pending /\ NoFreeFd /\ nfail < MaxFail
  /\ newSd' = -1
  /\ nfail' = nfail + 1
  /\ UNCHANGED <<env, fdt>>

Accept ==
  /\ apc = "accept"
  /\ AcceptOk \/ AcceptFails
  /\ apc' = "push"
  /\ UNCHANGED <<m_Clients, cap, seen>>

\* push_back() finds the vector, copies it if it is full, and later makes the
\* new end (and the copy) visible.
PushBegin ==
  /\ apc = "push"
  /\ seen' = m_Clients
  /\ apc' = "store"
  /\ UNCHANGED <<env, fdt, nfail, newSd, m_Clients, cap>>

\* What the race may leave when the manager wrote to the vector meanwhile: its
\* writes are lost with the old storage, or, in place, one of the two updates
\* of the end is: then the new client is lost, or a moved entry is seen twice.
Raced(new) ==
  IF m_Clients = seen THEN {}
  ELSE IF Len(seen) = cap THEN {Append(seen, new)}
  ELSE IF Len(m_Clients) = Len(seen) THEN {}
  ELSE {m_Clients,
        m_Clients \o [i \in 1 .. (Len(seen) - Len(m_Clients)) |-> Last(seen)] \o <<new>>}

PushEnd ==
  /\ apc = "store"
  /\ LET new == [sd |-> newSd, state |-> "R"] IN
       m_Clients' \in {Append(m_Clients, new)} \cup Raced(new)
  /\ cap' = IF Len(seen) < cap THEN cap ELSE IF cap = 0 THEN 1 ELSE 2 * cap
  /\ apc' = "accept" /\ newSd' = -1 /\ seen' = << >>
  /\ UNCHANGED <<env, fdt, nfail>>

Acceptor ==
  /\ status = "running"
  /\ Accept \/ PushBegin \/ PushEnd
  /\ UNCHANGED <<status, mgr>>

(***************************************************************************)
(* manageConnections.                                                      *)
(***************************************************************************)
\* A slot of fds never written: the pages of a new thread's stack are zero.
Slot(i) == IF i <= Len(fds) THEN fds[i] ELSE [fd |-> 0, events |-> "R", revents |-> "0"]

Fill ==
  /\ mpc = "idle" /\ m_Clients # << >>
  /\ fds' = [i \in 1 .. (IF Len(fds) < Len(m_Clients) THEN Len(m_Clients) ELSE Len(fds)) |->
               IF i <= Len(m_Clients)
               THEN [fd |-> m_Clients[i].sd, events |-> m_Clients[i].state, revents |-> "0"]
               ELSE fds[i]]
  /\ mpc' = "poll"
  /\ UNCHANGED <<env, fdt, status, m_Clients, mi, mn, gone, served>>

\* The size is read again for the call.
PollCall ==
  /\ mpc = "poll"
  /\ mn' = Len(m_Clients)
  /\ mpc' = "wait"
  /\ UNCHANGED <<env, fdt, status, m_Clients, fds, mi, gone, served>>

Revents(s) == PollEvents(s.fd, s.events)

PollReturn ==
  /\ mpc = "wait" /\ mn <= Limit
  /\ fds' = [i \in DOMAIN fds |->
               IF i <= mn THEN [fds[i] EXCEPT !.revents = Revents(fds[i])] ELSE fds[i]]
  /\ mpc' = IF \A i \in DOMAIN fds : i <= mn => Revents(fds[i]) = "0"
            THEN "idle" ELSE "loop"
  /\ mn' = 0
  /\ UNCHANGED <<env, fdt, status, m_Clients, mi, gone, served>>

\* poll() refuses more entries than RLIMIT_NOFILE; nobody catches the exception.
PollError ==
  /\ mpc = "wait" /\ mn > Limit
  /\ status' = "terminated"
  /\ UNCHANGED <<env, fdt, m_Clients, mgr>>

\* One iteration for a slot that reports ev.
Iterates(ev) == mpc = "loop" /\ mi <= Len(m_Clients) /\ Slot(mi).revents = ev

LoopSkip ==
  /\ \/ Iterates("0")
     \/ Iterates("IN") /\ m_Clients[mi].state # "R"
     \/ Iterates("OUT") /\ m_Clients[mi].state # "W"
  /\ mi' = mi + 1
  /\ UNCHANGED <<env, fdt, status, m_Clients, mpc, fds, mn, gone, served>>

\* POLLHUP or POLLNVAL: the client is removed, its descriptor is not closed.
LoopGone ==
  /\ Iterates("HUP") \/ Iterates("NVAL")
  /\ gone' = Append(gone, Slot(mi).fd)
  /\ mi' = mi + 1
  /\ UNCHANGED <<env, fdt, status, m_Clients, mpc, fds, mn, served>>

\* The socket that the descriptor of this slot refers to now.
Target == SocketAt(Slot(mi).fd)

\* Mutant: the state stays WANT_READ.
LoopReadKeepsState ==
  LET o == Target IN
  /\ Iterates("IN") /\ m_Clients[mi].state = "R"
  /\ o # NoConn
  /\ \E k \in 1 .. Len(inbox[o]) :
       Takes(o, k) /\ served' = [served EXCEPT ![o] = @ \o SubSeq(inbox[o], 1, k)]
  /\ mi' = mi + 1
  /\ UNCHANGED <<link, peer, sent, replied, fdt, status, m_Clients, mpc, fds, mn, gone>>

\* read() > 0: answer when the socket is writable.
LoopRead ==
  LET o == Target IN
  /\ Iterates("IN") /\ m_Clients[mi].state = "R"
  /\ o # NoConn
  /\ \E k \in 1 .. Len(inbox[o]) :
       Takes(o, k) /\ served' = [served EXCEPT ![o] = @ \o SubSeq(inbox[o], 1, k)]
  /\ m_Clients' = [m_Clients EXCEPT ![mi].state = "W"]
  /\ mi' = mi + 1
  /\ UNCHANGED <<link, peer, sent, replied, fdt, status, mpc, fds, mn, gone>>

\* read() < 0; the descriptor may be none by now, or a number closed before.
LoopReadFails ==
  /\ Iterates("IN") /\ m_Clients[mi].state = "R"
  /\ Target # NoConn => AtReset(Target)
  /\ mpc' = "closeFailed"
  /\ UNCHANGED <<env, fdt, status, m_Clients, fds, mi, mn, gone, served>>

\* read() = 0.  On an idle open socket read() blocks the manager.
LoopReadEof ==
  /\ Iterates("IN") /\ m_Clients[mi].state = "R"
  /\ Target # NoConn /\ AtEnd(Target)
  /\ mpc' = "close"
  /\ UNCHANGED <<env, fdt, status, m_Clients, fds, mi, mn, gone, served>>

\* The descriptor is closed at once and its entry removed after the loop.
LoopClose ==
  /\ mpc \in {"close", "closeFailed"}
  /\ fdt' = Closed(Slot(mi).fd)
  /\ gone' = Append(gone, Slot(mi).fd)
  /\ mi' = mi + 1 /\ mpc' = "loop"
  /\ UNCHANGED <<env, status, m_Clients, fds, mn, served>>

LoopWrite ==
  LET o == Target IN
  /\ Iterates("OUT") /\ m_Clients[mi].state = "W"
  /\ WriteTo(o, IF o = NoConn THEN << >> ELSE served[o])
  /\ served' = IF o = NoConn THEN served ELSE [served EXCEPT ![o] = << >>]
  /\ m_Clients' = [m_Clients EXCEPT ![mi].state = "R"]
  /\ mi' = mi + 1
  /\ UNCHANGED <<link, peer, sent, inbox, fdt, status, mpc, fds, mn, gone>>

LoopSigpipe ==
  LET o == Target IN
  /\ Iterates("OUT") /\ m_Clients[mi].state = "W"
  /\ o # NoConn /\ peer[o] = "rst"
  /\ status' = "sigpipe"
  /\ UNCHANGED <<env, fdt, m_Clients, mgr>>

\* Mutant: the next loop starts one slot early.
LoopEndFromZero ==
  /\ mpc = "loop" /\ mi > Len(m_Clients)
  /\ mi' = 0 /\ mpc' = "cleanup"
  /\ UNCHANGED <<env, fdt, status, m_Clients, fds, mn, gone, served>>

LoopEnd ==
  /\ mpc = "loop" /\ mi > Len(m_Clients)
  /\ mi' = 1 /\ mpc' = "cleanup"
  /\ UNCHANGED <<env, fdt, status, m_Clients, fds, mn, gone, served>>

\* Mutant: the descriptor is closed here too.
CleanupCloses ==
  /\ mpc = "cleanup" /\ gone # << >>
  /\ \E k \in DOMAIN m_Clients :
       /\ m_Clients[k].sd = Head(gone)
       /\ m_Clients' = RemoveAt(m_Clients, k)
  /\ fdt' = Closed(Head(gone))
  /\ gone' = Tail(gone)
  /\ UNCHANGED <<env, status, mpc, fds, mi, mn, served>>

\* Erase the first entry with the descriptor; there must be one.
Cleanup ==
  /\ mpc = "cleanup" /\ gone # << >>
  /\ \/ \E k \in DOMAIN m_Clients :
          /\ m_Clients[k].sd = Head(gone)
          /\ \A j \in 1 .. (k - 1) : m_Clients[j].sd # Head(gone)
          /\ m_Clients' = RemoveAt(m_Clients, k)
          /\ UNCHANGED status
     \/ /\ \A k \in DOMAIN m_Clients : m_Clients[k].sd # Head(gone)
        /\ status' = "aborted"
        /\ UNCHANGED m_Clients
  /\ gone' = Tail(gone)
  /\ UNCHANGED <<env, fdt, mpc, fds, mi, mn, served>>

CleanupEnd ==
  /\ mpc = "cleanup" /\ gone = << >>
  /\ mpc' = "idle"
  /\ UNCHANGED <<env, fdt, status, m_Clients, fds, mi, mn, gone, served>>

Manager ==
  /\ status = "running"
  /\ \/ Fill \/ PollCall \/ PollReturn \/ PollError
     \/ LoopSkip \/ LoopGone \/ LoopRead \/ LoopReadFails \/ LoopReadEof \/ LoopClose
     \/ LoopWrite \/ LoopSigpipe \/ LoopEnd \/ Cleanup \/ CleanupEnd
  /\ UNCHANGED <<cap, acc>>

\* Undefined behaviour: the manager uses the vector while push_back() moves it.
Crash ==
  /\ status = "running" /\ apc = "store" /\ mpc # "wait"
  /\ status' = "crashed"
  /\ UNCHANGED <<env, fdt, m_Clients, cap, acc, mgr>>

Next == Manager \/ Acceptor \/ Crash \/ \E c \in Conns : Client(c)

\* Both threads run whenever they can.
Spec == Init /\ [][Next]_vars /\ WF_vars(Manager) /\ WF_vars(Acceptor)

(***************************************************************************)
(* Properties.                                                             *)
(***************************************************************************)
\* Every variable has its type (m_Clients and fds hold descriptors or -1).
TypeOK ==
  /\ SocketsType
  /\ status \in {"running", "aborted", "sigpipe", "terminated", "crashed"}
  /\ nfail \in Nat /\ cap \in Nat
  /\ m_Clients \in Seq([sd : Fds \cup {-1}, state : {"R", "W"}])
  /\ seen \in Seq([sd : Fds \cup {-1}, state : {"R", "W"}])
  /\ apc \in {"accept", "push", "store"} /\ newSd \in Fds \cup {-1}
  /\ mpc \in {"idle", "poll", "wait", "loop", "close", "closeFailed", "cleanup"}
  /\ fds \in Seq([fd : Fds \cup {-1}, events : {"R", "W"},
                  revents : {"0", "IN", "OUT", "HUP", "NVAL"}])
  /\ mi \in Nat \ {0} /\ mn \in Nat
  /\ gone \in Seq(Fds \cup {-1})
  /\ served \in [Conns -> Seq(Request)]

\* The assertion of the clean-up (poll.cpp:150) never fails.
AssertHolds == status # "aborted"

\* Only the socket of a client that left is closed, whatever the race on the
\* vector does to its entries and however descriptor numbers are reused, except
\* by the close() after a failed read() (poll.cpp:103): between the two calls
\* accept() may give the number to a new client.
OnlyLeaversClosed ==
  [][\A c \in Conns :
       Reachable(c) /\ ~ Reachable(c)' => peer[c] # "open" \/ mpc = "closeFailed"]_vars

\* A removed client's descriptor is closed (poll.cpp:91 takes the descriptor
\* of a client that hung up to be closed already).
DisconnectedReleased ==
  \A c \in Conns :
    link[c] = "accepted" /\ peer[c] # "open" ~>
      ((\A f \in Fds : fdt[f] # c) \/ status # "running")

=============================================================================
