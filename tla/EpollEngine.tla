---------------------------- MODULE EpollEngine ----------------------------
(***************************************************************************)
(* The epoll server of net/libtpevent (epoll.cpp): one thread, one heap    *)
(* allocated Client per connection whose address epoll hands back with the *)
(* events, level triggered.  The Client made for a socket is named by it.  *)
(***************************************************************************)
EXTENDS Sockets, FiniteSets

VARIABLES
  status,    \* "running", or how the process ended
  state,     \* per Client: WANT_READ "R", WANT_WRITE "W", or not allocated
  sd,        \* per Client: its descriptor
  interest,  \* kernel: the events epoll watches on a descriptor
  events,    \* events of this epoll_wait() still to handle
  epc,       \* where the thread is in eventLoop
  gone,      \* disconnected_clients, still to close and delete
  served,    \* ghost, per Client: the requests its next answer is for
  misused    \* history: a Client was used or deleted after its delete

local == <<state, sd, interest, events, epc, gone, served, misused>>
vars  == <<env, fdt, status, local>>

\* The data of the listener's event.
Listening == "listener"

Init ==
  /\ SocketsInit
  /\ status = "running"
  /\ state = [c \in Conns |-> "none"]
  /\ sd = [c \in Conns |-> -1]
  /\ interest = [f \in Fds |-> "none"]
  /\ events = {} /\ epc = "wait" /\ gone = << >>
  /\ served = [c \in Conns |-> << >>]
  /\ misused = FALSE

Client(c) ==
  /\ status = "running"
  /\ ClientStep(c)
  /\ UNCHANGED <<status, local>>

\* What epoll reports: hang-ups always, readiness for what is watched.
EpollEvents(f) ==
  LET o == fdt[f] IN
  IF o = NoConn \/ interest[f] = "none" THEN "0" ELSE PollEvents(f, interest[f])

\* The pointer registered with a descriptor is that of the Client made for it.
Ready ==
  {[ptr |-> fdt[f], ev |-> EpollEvents(f)] : f \in {g \in Fds : EpollEvents(g) # "0"}}
    \cup (IF Pending THEN {[ptr |-> Listening, ev |-> "IN"]} ELSE {})

Wait ==
  /\ epc = "wait" /\ Ready # {}
  /\ events' = Ready
  /\ epc' = "loop"
  /\ UNCHANGED <<env, fdt, status, state, sd, interest, gone, served, misused>>

(***************************************************************************)
(* One event of the batch, in whatever order the kernel lists them.        *)
(***************************************************************************)
\* accept_action: a new Client that wants to read.
AcceptAction(e) ==
  /\ e.ptr = Listening
  /\ \E c \in Conns, s \in Fds :
       /\ AcceptAs(c, s)
       /\ state' = [state EXCEPT ![c] = "R"]
       /\ sd' = [sd EXCEPT ![c] = s]
       /\ interest' = [interest EXCEPT ![s] = "R"]
  /\ UNCHANGED <<status, gone, served, misused>>

\* Mutant: a failed accept() is put on disconnected_clients.
AcceptFailsDropped(e) ==
  /\ e.ptr = Listening
  /\ Pending /\ NoFreeFd
  /\ gone' = Append(gone, e.ptr)
  /\ UNCHANGED <<env, fdt, status, state, sd, interest, served, misused>>

\* accept() = -1: the Client made for it is lost and epoll_ctl() fails.
AcceptFails(e) ==
  /\ e.ptr = Listening
  /\ Pending /\ NoFreeFd
  /\ UNCHANGED <<env, fdt, status, state, sd, interest, gone, served, misused>>

\* Reading a Client through its pointer.
Use(c) == misused' = (misused \/ state[c] = "none")

\* Only the pointer is copied; the Client is read when it is removed.
HangUp(e) ==
  /\ e.ptr \in Conns /\ e.ev = "HUP"
  /\ gone' = Append(gone, e.ptr)
  /\ UNCHANGED <<env, fdt, status, state, sd, interest, served, misused>>

\* A Client whose state does not match the event is left alone.
Ignored == UNCHANGED <<env, fdt, status, state, sd, interest, gone, served>>

\* Mutant: epoll goes on watching for input.
ReadDataDeaf(c) ==
  LET o == SocketAt(sd[c]) IN
  /\ o # NoConn
  /\ \E k \in 1 .. Len(inbox[o]) :
       Takes(o, k) /\ served' = [served EXCEPT ![c] = SubSeq(inbox[o], 1, k)]
  /\ state' = [state EXCEPT ![c] = "W"]
  /\ UNCHANGED <<link, peer, sent, replied, fdt, status, sd, interest, gone>>

\* read() > 0: answer when the socket is writable.
ReadData(c) ==
  LET o == SocketAt(sd[c]) IN
  /\ o # NoConn
  /\ \E k \in 1 .. Len(inbox[o]) :
       Takes(o, k) /\ served' = [served EXCEPT ![c] = SubSeq(inbox[o], 1, k)]
  /\ state' = [state EXCEPT ![c] = "W"]
  /\ interest' = [interest EXCEPT ![sd[c]] = "W"]
  /\ UNCHANGED <<link, peer, sent, replied, fdt, status, sd, gone>>

\* Mutant: the client is closed and deleted at once and again after the loop.
ReadEndsAtOnce(c) ==
  LET o == SocketAt(sd[c]) IN
  /\ o # NoConn => AtEnd(o)
  /\ fdt' = Closed(sd[c])
  /\ state' = [state EXCEPT ![c] = "none"]
  /\ interest' = [interest EXCEPT ![sd[c]] = "none"]
  /\ gone' = Append(gone, c)
  /\ UNCHANGED <<env, status, sd, served>>

\* Mutant: a short read is taken for the end.
ReadEndsShort(c) ==
  /\ gone' = Append(gone, c)
  /\ UNCHANGED <<env, fdt, status, state, sd, interest, served>>

\* read() = 0 or read() < 0.
ReadEnds(c) ==
  LET o == SocketAt(sd[c]) IN
  /\ o # NoConn => AtEnd(o)
  /\ gone' = Append(gone, c)
  /\ UNCHANGED <<env, fdt, status, state, sd, interest, served>>

\* EPOLLIN: cs->state is read through the pointer of the event, then the socket.
ReadEvent(e) ==
  /\ e.ptr \in Conns /\ e.ev = "IN"
  /\ Use(e.ptr)
  /\ IF state[e.ptr] # "R" THEN Ignored ELSE ReadData(e.ptr) \/ ReadEnds(e.ptr)

\* write(), its result ignored; a reset may have come since epoll_wait().
WriteAnswer(c) ==
  /\ WriteTo(SocketAt(sd[c]), served[c])
  /\ served' = [served EXCEPT ![c] = << >>]
  /\ state' = [state EXCEPT ![c] = "R"]
  /\ interest' = [interest EXCEPT ![sd[c]] = "R"]
  /\ UNCHANGED <<link, peer, sent, inbox, fdt, status, sd, gone>>

WriteSigpipe(c) ==
  LET o == SocketAt(sd[c]) IN
  /\ o # NoConn /\ peer[o] = "rst"
  /\ status' = "sigpipe"
  /\ UNCHANGED <<env, fdt, state, sd, interest, gone, served>>

\* EPOLLOUT: cs->state is read through the pointer, then the answer is sent.
WriteEvent(e) ==
  /\ e.ptr \in Conns /\ e.ev = "OUT"
  /\ Use(e.ptr)
  /\ IF state[e.ptr] # "W" THEN Ignored ELSE WriteAnswer(e.ptr) \/ WriteSigpipe(e.ptr)

Handle ==
  \E e \in events :
    /\ epc = "loop"
    /\ events' = events \ {e}
    /\ AcceptAction(e) \/ AcceptFails(e) \/ HangUp(e) \/ ReadEvent(e) \/ WriteEvent(e)
    /\ UNCHANGED epc

LoopEnd ==
  /\ epc = "loop" /\ events = {}
  /\ epc' = "cleanup"
  /\ UNCHANGED <<env, fdt, status, state, sd, interest, events, gone, served, misused>>

\* Mutant: the Client is deleted, its descriptor is not closed and stays in epoll.
CleanupKeepsOpen ==
  /\ epc = "cleanup" /\ gone # << >>
  /\ LET c == Head(gone) IN
       /\ state' = [state EXCEPT ![c] = "none"]
       /\ served' = [served EXCEPT ![c] = << >>]
       /\ Use(c)
  /\ gone' = Tail(gone)
  /\ UNCHANGED <<env, fdt, status, sd, interest, events, epc>>

\* close() takes the descriptor out of epoll, then the Client is deleted.
Cleanup ==
  /\ epc = "cleanup" /\ gone # << >>
  /\ LET c == Head(gone) IN
       /\ fdt' = Closed(sd[c])
       /\ interest' = [interest EXCEPT ![sd[c]] = "none"]
       /\ state' = [state EXCEPT ![c] = "none"]
       /\ served' = [served EXCEPT ![c] = << >>]
       /\ Use(c)
  /\ gone' = Tail(gone)
  /\ UNCHANGED <<env, status, sd, events, epc>>

CleanupEnd ==
  /\ epc = "cleanup" /\ gone = << >>
  /\ epc' = "wait"
  /\ UNCHANGED <<env, fdt, status, state, sd, interest, events, gone, served, misused>>

EventStep ==
  /\ status = "running"
  /\ Wait \/ Handle \/ LoopEnd \/ Cleanup \/ CleanupEnd

Next == EventStep \/ \E c \in Conns : Client(c)

\* The thread runs whenever it can.
Spec == Init /\ [][Next]_vars /\ WF_vars(EventStep)

(***************************************************************************)
(* Properties.                                                             *)
(***************************************************************************)
\* Every variable has its type.
TypeOK ==
  /\ SocketsType
  /\ status \in {"running", "sigpipe"}
  /\ state \in [Conns -> {"none", "R", "W"}]
  /\ sd \in [Conns -> Fds \cup {-1}]
  /\ interest \in [Fds -> {"none", "R", "W"}]
  /\ events \subseteq [ptr : Conns \cup {Listening}, ev : {"IN", "OUT", "HUP", "NVAL"}]
  /\ epc \in {"wait", "loop", "cleanup"}
  /\ gone \in Seq(Conns)
  /\ served \in [Conns -> Seq(Request)]
  /\ misused \in BOOLEAN

\* No Client is read, written or deleted after its delete, although pointers
\* to it sit in the batch of events and in disconnected_clients
\* (epoll.cpp:109-167, 171-182).
NoUseAfterDelete == ~ misused

=============================================================================
