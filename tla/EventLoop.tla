----------------------------- MODULE EventLoop -----------------------------
(***************************************************************************)
(* The asynchronous poll() server of net/libtpevent (poll_async.cpp): one  *)
(* manager thread that polls the descriptors of m_ClientsWantWork and      *)
(* hands ready events to m_ClientsHaveWork, worker threads that do the     *)
(* read() or write() and run the callback, and the accepting main thread.  *)
(*                                                                         *)
(* A Connection is kept alive by the shared_ptr inside the callbacks of    *)
(* queued events and by the threads that run them.  Its destructor closes  *)
(* the descriptor, whose number the kernel then gives to the next accept.  *)
(* The kernel and the peers are the environment.                           *)
(***************************************************************************)
EXTENDS Sockets, SequencesExt

CONSTANTS
  BadConn,    \* a Connection made from accept() = -1
  Workers,    \* threads in EventLoop::run
  Acceptor,   \* the thread in AsyncPollEngine::run
  NoThread,   \* nobody holds m_WantWorkQueueMutex
  MaxFail     \* bound: accept() calls that fail

ASSUME ThreadsAssumption ==
  Acceptor \notin Workers /\ NoThread \notin Workers \cup {Acceptor}

ASSUME ConnsAssumption == BadConn \notin Conns \cup {NoConn}

ASSUME MaxFailAssumption == MaxFail \in Nat

VARIABLES
  status,     \* "running", or how the process ended
  nfail,      \* number of accept() calls that failed
  m_Sd,       \* Connection::m_Sd
  m_WriteBuf, \* Connection::m_WriteBuf, the requests it echoes
  want,       \* m_ClientsWantWork
  cap,        \* capacity of that vector
  growing,    \* thread that holds m_WantWorkQueueMutex to reallocate it
  have,       \* m_ClientsHaveWork
  mpc,        \* manager: where it is in manageConnections
  fds,        \* manager: pollfd array; slots keep their value between rounds
  mi,         \* manager: index of the dispatch loop
  mn,         \* manager: nfds of the poll() call in progress
  gone,       \* manager: disconnected_clients
  tpc,        \* worker or acceptor: where it is
  hold,       \* worker or acceptor: Connection its event or conn refers to
  op,         \* worker or acceptor: the event it runs, then the one it queues
  readFailed  \* history: some read() returned -1

kern == <<fdt, nfail>>
objs == <<m_Sd, m_WriteBuf>>
wq   == <<want, cap, growing>>
mgr  == <<mpc, fds, mi, mn, gone>>
thr  == <<tpc, hold, op>>
vars == <<status, env, kern, objs, wq, have, mgr, thr, readFailed>>

Threads == Workers \cup {Acceptor}
Ops     == {"R", "W"}                 \* WANT_READ, WANT_WRITE
Event   == [conn : Conns \cup {BadConn}, op : Ops]

(***************************************************************************)
(* Helpers.                                                                *)
(***************************************************************************)
\* The descriptor a Connection was made with.
SdOf(c) == IF c \in Conns THEN m_Sd[c] ELSE -1

\* A shared_ptr to c exists: in a queued event or in a thread.
Holds(q, c) == \E i \in DOMAIN q : q[i].conn = c
Referenced(c) == Holds(want, c) \/ Holds(have, c) \/ \E t \in Threads : hold[t] = c

(***************************************************************************)
(* Initially the process listens, no client has connected.                 *)
(***************************************************************************)
Init ==
  /\ status = "running"
  /\ SocketsInit
  /\ nfail = 0
  /\ m_Sd = [c \in Conns |-> -1]
  /\ m_WriteBuf = [c \in Conns |-> << >>]
  /\ want = << >> /\ cap = 0 /\ growing = NoThread
  /\ have = << >>
  /\ mpc = "off" /\ fds = << >> /\ mi = 1 /\ mn = 0 /\ gone = << >>
  /\ tpc = [t \in Threads |-> IF t = Acceptor THEN "accept" ELSE "start"]
  /\ hold = [t \in Threads |-> NoConn]
  /\ op = [t \in Threads |-> "R"]
  /\ readFailed = FALSE

\* A client connects, sends, closes or resets.
Client(c) ==
  /\ status = "running"
  /\ ClientStep(c)
  /\ UNCHANGED <<status, nfail, objs, wq, have, mgr, thr, readFailed>>

(***************************************************************************)
(* accept_work: the kernel gives the lowest free descriptor.  Without one  *)
(* accept() returns -1, the client stays in the backlog and a Connection   *)
(* is made all the same.                                                   *)
(***************************************************************************)
AcceptOk ==
  \E c \in Conns, s \in Fds :
    /\ AcceptAs(c, s)
    /\ m_Sd' = [m_Sd EXCEPT ![c] = s]
    /\ hold' = [hold EXCEPT ![Acceptor] = c]
    /\ UNCHANGED <<nfail, m_WriteBuf>>

AcceptFails ==
  /\ Pending /\ NoFreeFd /\ nfail < MaxFail
  /\ nfail' = nfail + 1
  /\ hold' = [hold EXCEPT ![Acceptor] = BadConn]
  /\ UNCHANGED <<env, fdt, objs>>

Accept ==
  /\ status = "running" /\ tpc[Acceptor] = "accept"
  /\ AcceptOk \/ AcceptFails
  /\ op' = [op EXCEPT ![Acceptor] = "R"]
  /\ tpc' = [tpc EXCEPT ![Acceptor] = "append"]
  /\ UNCHANGED <<status, wq, have, mgr, readFailed>>

(***************************************************************************)
(* asyncRead and asyncWrite, by the acceptor and from the callbacks of the *)
(* workers: append an event to the vector under its lock.  A full vector   *)
(* is reallocated, which the manager, reading it without the lock, can     *)
(* observe half done.                                                      *)
(***************************************************************************)
Queued(t) == Append(want, [conn |-> hold[t], op |-> op[t]])

AppendInPlace(t) ==
  /\ tpc[t] = "append" /\ growing = NoThread /\ Len(want) < cap
  /\ want' = Queued(t)
  /\ tpc' = [tpc EXCEPT ![t] = "release"]
  /\ UNCHANGED <<cap, growing>>

GrowBegin(t) ==
  /\ tpc[t] = "append" /\ growing = NoThread /\ Len(want) = cap
  /\ growing' = t
  /\ tpc' = [tpc EXCEPT ![t] = "grow"]
  /\ UNCHANGED <<want, cap>>

GrowEnd(t) ==
  /\ tpc[t] = "grow"
  /\ want' = Queued(t)
  /\ cap' = IF cap = 0 THEN 1 ELSE 2 * cap
  /\ growing' = NoThread
  /\ tpc' = [tpc EXCEPT ![t] = "release"]

Async(t) ==
  /\ status = "running"
  /\ AppendInPlace(t) \/ GrowBegin(t) \/ GrowEnd(t)
  /\ UNCHANGED <<status, env, kern, objs, have, mgr, hold, op, readFailed>>

(***************************************************************************)
(* The thread's event (or conn) goes out of scope.  The last reference     *)
(* runs ~Connection, which closes m_Sd.                                    *)
(***************************************************************************)
LastRef(t) ==
  LET c == hold[t] IN
  /\ ~ Holds(want, c) /\ ~ Holds(have, c)
  /\ \A u \in Threads \ {t} : hold[u] # c

Release(t) ==
  /\ status = "running" /\ tpc[t] = "release"
  /\ hold' = [hold EXCEPT ![t] = NoConn]
  /\ op' = [op EXCEPT ![t] = "R"]
  /\ fdt' = IF LastRef(t) THEN Closed(SdOf(hold[t])) ELSE fdt
  /\ tpc' = [tpc EXCEPT ![t] = IF t = Acceptor THEN "accept" ELSE "pop"]
  /\ UNCHANGED <<status, env, nfail, objs, wq, have, mgr, readFailed>>

(***************************************************************************)
(* EventLoop::run, the workers.  The first one starts the manager.         *)
(***************************************************************************)
Start(w) ==
  /\ tpc[w] = "start"
  /\ mpc' = IF mpc = "off" THEN "idle" ELSE mpc
  /\ tpc' = [tpc EXCEPT ![w] = "pop"]
  /\ UNCHANGED <<status, env, kern, objs, wq, have, fds, mi, mn, gone, hold, op, readFailed>>

\* Mutant: the event stays in the queue.
PopKeeps(w) ==
  /\ tpc[w] = "pop" /\ have # << >>
  /\ hold' = [hold EXCEPT ![w] = Head(have).conn]
  /\ op' = [op EXCEPT ![w] = Head(have).op]
  /\ tpc' = [tpc EXCEPT ![w] = "io"]
  /\ UNCHANGED <<status, env, kern, objs, wq, have, mgr, readFailed>>

Pop(w) ==
  /\ tpc[w] = "pop" /\ have # << >>
  /\ hold' = [hold EXCEPT ![w] = Head(have).conn]
  /\ op' = [op EXCEPT ![w] = Head(have).op]
  /\ have' = Tail(have)
  /\ tpc' = [tpc EXCEPT ![w] = "io"]
  /\ UNCHANGED <<status, env, kern, objs, wq, mgr, readFailed>>

\* The socket that the descriptor of w's event refers to when w uses it.
Target(w) == SocketAt(SdOf(hold[w]))

\* read() > 0: readHandler keeps what it will echo in m_WriteBuf.
ReadData(w) ==
  LET c == hold[w]  o == Target(w) IN
  /\ o # NoConn
  /\ \E k \in 1 .. Len(inbox[o]) :
       /\ m_WriteBuf' = [m_WriteBuf EXCEPT ![c] = SubSeq(inbox[o], 1, k)]
       /\ Takes(o, k)
  /\ op' = [op EXCEPT ![w] = "W"]
  /\ tpc' = [tpc EXCEPT ![w] = "append"]
  /\ UNCHANGED <<link, peer, sent, replied, readFailed>>

\* Mutant: the worker closes the descriptor at end of file too.
ReadEofCloses(w) ==
  LET o == Target(w) IN
  /\ o # NoConn /\ AtEnd(o)
  /\ tpc' = [tpc EXCEPT ![w] = "close"]
  /\ UNCHANGED <<env, m_WriteBuf, op, readFailed>>

\* read() = 0: readHandler returns and nothing is queued.
ReadEof(w) ==
  LET o == Target(w) IN
  /\ o # NoConn /\ AtEnd(o)
  /\ tpc' = [tpc EXCEPT ![w] = "release"]
  /\ UNCHANGED <<env, m_WriteBuf, op, readFailed>>

\* read() < 0: a closed descriptor or a reset.  On an idle open socket the
\* read() blocks, and none of these three steps is enabled.
ReadError(w) ==
  LET o == Target(w) IN
  /\ o # NoConn => AtReset(o)
  /\ readFailed' = TRUE
  /\ tpc' = [tpc EXCEPT ![w] = "close"]
  /\ UNCHANGED <<env, m_WriteBuf, op>>

Read(w) ==
  /\ tpc[w] = "io" /\ op[w] = "R"
  /\ ReadData(w) \/ ReadEof(w) \/ ReadError(w)
  /\ UNCHANGED <<status, kern, m_Sd, wq, have, mgr, hold>>

\* After a failed read() the worker sleeps and closes the descriptor itself.
CloseAfterError(w) ==
  /\ tpc[w] = "close"
  /\ fdt' = Closed(SdOf(hold[w]))
  /\ tpc' = [tpc EXCEPT ![w] = "release"]
  /\ UNCHANGED <<status, env, nfail, objs, wq, have, mgr, hold, op, readFailed>>

\* Mutants: writeHandler queues the write again, or nothing.
WriteReturnsRepeats(w) ==
  /\ WriteTo(Target(w), m_WriteBuf[hold[w]])
  /\ tpc' = [tpc EXCEPT ![w] = "append"]
  /\ UNCHANGED <<op, status>>

WriteReturnsDone(w) ==
  /\ WriteTo(Target(w), m_WriteBuf[hold[w]])
  /\ op' = [op EXCEPT ![w] = "R"]
  /\ tpc' = [tpc EXCEPT ![w] = "release"]
  /\ UNCHANGED status

\* write(), its result ignored, then writeHandler queues the next read.
WriteReturns(w) ==
  /\ WriteTo(Target(w), m_WriteBuf[hold[w]])
  /\ op' = [op EXCEPT ![w] = "R"]
  /\ tpc' = [tpc EXCEPT ![w] = "append"]
  /\ UNCHANGED status

\* Nothing handles SIGPIPE: a write() to a reset socket may end the process.
WriteSigpipe(w) ==
  /\ Target(w) # NoConn /\ peer[Target(w)] = "rst"
  /\ status' = "sigpipe"
  /\ UNCHANGED <<replied, op, tpc>>

Write(w) ==
  /\ tpc[w] = "io" /\ op[w] = "W"
  /\ WriteReturns(w) \/ WriteSigpipe(w)
  /\ UNCHANGED <<link, peer, sent, inbox, kern, objs, wq, have, mgr, hold, readFailed>>

Worker(w) ==
  /\ status = "running"
  /\ Start(w) \/ Pop(w) \/ Read(w) \/ CloseAfterError(w) \/ Write(w)

(***************************************************************************)
(* EventLoop::manageConnections.                                           *)
(***************************************************************************)
\* A slot of fds never written: the pages of a new thread's stack are zero.
ZeroSlot == [fd |-> 0, events |-> "R", revents |-> "0"]
Slot(i) == IF i <= Len(fds) THEN fds[i] ELSE ZeroSlot

\* Fill the slots of the events queued now; later slots keep old contents.
Fill ==
  /\ mpc = "idle" /\ want # << >>
  /\ fds' = [i \in 1 .. (IF Len(fds) < Len(want) THEN Len(want) ELSE Len(fds)) |->
               IF i <= Len(want)
               THEN [fd |-> SdOf(want[i].conn), events |-> want[i].op, revents |-> "0"]
               ELSE fds[i]]
  /\ mpc' = "poll"
  /\ UNCHANGED <<status, fdt, want, have, mi, mn, gone>>

\* The size is read again for the call.
PollCall ==
  /\ mpc = "poll"
  /\ mn' = Len(want)
  /\ mpc' = "wait"
  /\ UNCHANGED <<status, fdt, want, have, fds, mi, gone>>

\* What poll() reports for a slot.
Revents(s) == PollEvents(s.fd, s.events)

PollReturn ==
  /\ mpc = "wait" /\ mn <= Limit
  /\ fds' = [i \in DOMAIN fds |->
               IF i <= mn THEN [fds[i] EXCEPT !.revents = Revents(fds[i])] ELSE fds[i]]
  /\ mpc' = IF \A i \in DOMAIN fds : i <= mn => Revents(fds[i]) = "0"
            THEN "idle" ELSE "dispatch"
  /\ mn' = 0
  /\ UNCHANGED <<status, fdt, want, have, mi, gone>>

\* poll() refuses more entries than RLIMIT_NOFILE; the manager returns.
PollError ==
  /\ mpc = "wait" /\ mn > Limit
  /\ mpc' = "exited"
  /\ UNCHANGED <<status, fdt, want, have, fds, mi, mn, gone>>

\* deleteClient: erase the first event with descriptor s, under the lock.
\* Erasing the last reference to a Connection closes its descriptor.
IsFirst(s, k) ==
  /\ k \in DOMAIN want /\ SdOf(want[k].conn) = s
  /\ \A j \in 1 .. (k - 1) : SdOf(want[j].conn) # s

\* Mutants: erasing an event never, or always, closes the descriptor.
EraseKeepsOpen(s) ==
  \E k \in DOMAIN want :
    /\ IsFirst(s, k)
    /\ want' = RemoveAt(want, k)
    /\ UNCHANGED <<fdt, status>>

EraseCloses(s) ==
  \E k \in DOMAIN want :
    /\ IsFirst(s, k)
    /\ want' = RemoveAt(want, k)
    /\ fdt' = Closed(s)
    /\ UNCHANGED status

Erase(s) ==
  \E k \in DOMAIN want :
    /\ IsFirst(s, k)
    /\ want' = RemoveAt(want, k)
    /\ fdt' = LET c == want[k].conn IN
              IF Holds(RemoveAt(want, k), c) \/ Holds(have, c)
                   \/ \E t \in Threads : hold[t] = c
              THEN fdt ELSE Closed(SdOf(c))
    /\ UNCHANGED status

AssertFails(s) ==
  /\ \A k \in DOMAIN want : SdOf(want[k].conn) # s
  /\ status' = "aborted"
  /\ UNCHANGED <<want, fdt>>

deleteClient(s) == growing = NoThread /\ (Erase(s) \/ AssertFails(s))

\* One iteration of the dispatch loop.
Matches(i) ==
  \/ Slot(i).revents = "IN" /\ want[i].op = "R"
  \/ Slot(i).revents = "OUT" /\ want[i].op = "W"

DispatchSkip ==
  /\ mpc = "dispatch" /\ mi <= Len(want)
  /\ Slot(mi).revents \in {"0", "IN", "OUT"} /\ ~ Matches(mi)
  /\ mi' = mi + 1
  /\ UNCHANGED <<status, fdt, want, have, mpc, fds, mn, gone>>

\* Mutant: the client is erased at once and at the end of the round.
DispatchGoneAtOnce ==
  /\ mpc = "dispatch" /\ mi <= Len(want)
  /\ Slot(mi).revents \in {"HUP", "NVAL"}
  /\ deleteClient(Slot(mi).fd)
  /\ gone' = Append(gone, Slot(mi).fd)
  /\ mi' = mi + 1
  /\ UNCHANGED <<have, mpc, fds, mn>>

DispatchGone ==
  /\ mpc = "dispatch" /\ mi <= Len(want)
  /\ Slot(mi).revents \in {"HUP", "NVAL"}
  /\ gone' = Append(gone, Slot(mi).fd)
  /\ mi' = mi + 1
  /\ UNCHANGED <<status, fdt, want, have, mpc, fds, mn>>

DispatchPush ==
  /\ mpc = "dispatch" /\ mi <= Len(want) /\ Matches(mi)
  /\ have' = Append(have, want[mi])
  /\ mpc' = "delete"
  /\ UNCHANGED <<status, fdt, want, fds, mi, mn, gone>>

\* Mutant: the next round's loop starts one slot early.
DispatchEndFromZero ==
  /\ mpc = "dispatch" /\ mi > Len(want)
  /\ mi' = 0
  /\ mpc' = "cleanup"
  /\ UNCHANGED <<status, fdt, want, have, fds, mn, gone>>

DispatchEnd ==
  /\ mpc = "dispatch" /\ mi > Len(want)
  /\ mi' = 1
  /\ mpc' = "cleanup"
  /\ UNCHANGED <<status, fdt, want, have, fds, mn, gone>>

DispatchDelete ==
  /\ mpc = "delete"
  /\ deleteClient(Slot(mi).fd)
  /\ mi' = mi + 1
  /\ mpc' = "dispatch"
  /\ UNCHANGED <<have, fds, mn, gone>>

\* Mutant: disconnected clients are not erased.
CleanupForgets ==
  /\ mpc = "cleanup" /\ gone # << >>
  /\ gone' = Tail(gone)
  /\ UNCHANGED <<status, fdt, want, have, mpc, fds, mi, mn>>

Cleanup ==
  /\ mpc = "cleanup" /\ gone # << >>
  /\ deleteClient(Head(gone))
  /\ gone' = Tail(gone)
  /\ UNCHANGED <<have, mpc, fds, mi, mn>>

CleanupEnd ==
  /\ mpc = "cleanup" /\ gone = << >>
  /\ mpc' = "idle"
  /\ UNCHANGED <<status, fdt, want, have, fds, mi, mn, gone>>

Manager ==
  /\ status = "running"
  /\ \/ Fill \/ PollCall \/ PollReturn \/ PollError
     \/ DispatchSkip \/ DispatchGone \/ DispatchPush \/ DispatchEnd
     \/ DispatchDelete \/ Cleanup \/ CleanupEnd
  /\ UNCHANGED <<env, nfail, objs, cap, growing, thr, readFailed>>

(***************************************************************************)
(* Undefined behaviour.  The manager reads the vector without the lock     *)
(* while another thread reallocates it, or two workers use the buffers of  *)
(* one Connection: the accesses take effect one after the other (the       *)
(* actions above) or the process dies.                                     *)
(***************************************************************************)
VectorRace == growing # NoThread /\ mpc \in {"idle", "poll", "dispatch"}

BufferRace ==
  \E v, w \in Workers :
    /\ v # w /\ hold[v] = hold[w]
    /\ tpc[v] = "io" /\ tpc[w] = "io" /\ "R" \in {op[v], op[w]}

Crash ==
  /\ status = "running"
  /\ VectorRace \/ BufferRace
  /\ status' = "crashed"
  /\ UNCHANGED <<env, kern, objs, wq, have, mgr, thr, readFailed>>

Next ==
  \/ \E c \in Conns : Client(c)
  \/ Accept
  \/ \E t \in Threads : Async(t) \/ Release(t)
  \/ \E w \in Workers : Worker(w)
  \/ Manager
  \/ Crash

Spec == Init /\ [][Next]_vars

(***************************************************************************)
(* Every thread keeps running as long as it can take a step; nothing is    *)
(* assumed of the clients or of undefined behaviour.                       *)
(***************************************************************************)
Fairness ==
  /\ WF_vars(Manager)
  /\ WF_vars(Accept)
  /\ \A t \in Threads : WF_vars(Async(t)) /\ WF_vars(Release(t))
  /\ \A w \in Workers : WF_vars(Worker(w))

FairSpec == Spec /\ Fairness

(***************************************************************************)
(* Properties.                                                             *)
(***************************************************************************)
\* Every variable has its type (fds and gone hold descriptors or -1).
TypeOK ==
  /\ status \in {"running", "aborted", "sigpipe", "crashed"}
  /\ SocketsType
  /\ nfail \in Nat
  /\ m_Sd \in [Conns -> Fds \cup {-1}]
  /\ m_WriteBuf \in [Conns -> Seq(Request)]
  /\ want \in Seq(Event) /\ have \in Seq(Event)
  /\ cap \in Nat /\ growing \in Threads \cup {NoThread}
  /\ mpc \in {"off", "idle", "poll", "wait", "dispatch", "delete", "cleanup", "exited"}
  /\ fds \in Seq([fd : Fds \cup {-1}, events : Ops,
                  revents : {"0", "IN", "OUT", "HUP", "NVAL"}])
  /\ mi \in Nat \ {0} /\ mn \in Nat
  /\ gone \in Seq(Fds \cup {-1})
  /\ tpc \in [Threads -> {"start", "pop", "accept", "io", "close",
                          "append", "grow", "release"}]
  /\ hold \in [Threads -> Conns \cup {BadConn, NoConn}]
  /\ op \in [Threads -> Ops]
  /\ readFailed \in BOOLEAN

\* Until a read() has failed, the descriptor of every Connection that an event
\* or a thread still refers to is open and is that client's own socket: no
\* worker reads, writes or closes a socket whose number was given away
\* (Connection::~Connection, poll_async.cpp:33-36, against accept_work).
DescriptorOwned ==
  readFailed \/ \A c \in Conns : Referenced(c) => SocketAt(m_Sd[c]) = c

\* Every open client descriptor belongs to a Connection that an event or a
\* thread still refers to: a client dropped by the manager or by a worker,
\* for whatever reason, never leaves its descriptor open.
NoDescriptorLeak ==
  \A f \in Fds, c \in Conns : fdt[f] = c => Referenced(c) /\ m_Sd[c] = f

\* Until a read() has failed, a client is only ever sent echoes of what it
\* sent itself, whichever events the manager loses, repeats or misplaces.
OwnEchoOnly ==
  readFailed \/ \A c \in Conns : \A i \in DOMAIN replied[c] : replied[c][i][1] = c

\* deleteClient's assertion (poll_async.cpp:93) never fails.
AssertHolds == status # "aborted"

\* m_ClientsHaveWork holds "clients who has data to read or write"
\* (poll_async.hpp:44): the read() of a queued read event does not block.
HaveWorkIsReady ==
  \A i \in DOMAIN have :
    have[i].op = "R" =>
      LET o == SocketAt(SdOf(have[i].conn)) IN
      o = NoConn \/ inbox[o] # << >> \/ peer[o] # "open"

\* Two workers never run events of one Connection at a time: its buffers,
\* which no lock protects, are used by one thread.
OneWorkerPerConnection == ~ BufferRace

\* A client's requests are echoed once each and in the order it sent them.
EchoedInOrder ==
  \A c \in Conns : \A i \in DOMAIN replied[c] : replied[c][i] = <<c, i>>

\* The process has died or its manager thread has returned.
Stopped == status # "running" \/ mpc = "exited"

\* Every request of an accepted client is echoed, unless the client resets the
\* connection or the server stops.
EveryRequestEchoed ==
  \A c \in Conns : \A n \in 1 .. MaxReq :
    link[c] = "accepted" /\ sent[c] >= n ~>
      (Len(replied[c]) >= n \/ peer[c] = "rst" \/ Stopped)

\* The descriptor of a client that closed or reset its connection is closed,
\* unless the server stops.
DisconnectedReleased ==
  \A c \in Conns :
    link[c] = "accepted" /\ peer[c] # "open" ~>
      ((\A f \in Fds : fdt[f] # c) \/ Stopped)

=============================================================================
