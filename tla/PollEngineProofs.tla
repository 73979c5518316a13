-------------------------- MODULE PollEngineProofs --------------------------
(***************************************************************************)
(* Theorems about the poll() server, for every set of clients, every       *)
(* number of descriptors and every number of failed accept() calls, with   *)
(* all that the race on m_Clients may leave in the vector.                 *)
(***************************************************************************)
EXTENDS PollEngine, SequenceLemmas

\* An element of m_Clients, and a slot of the pollfd array.
ClientEntry == [sd : Fds \cup {-1}, state : {"R", "W"}]
PollFd      == [fd : Fds \cup {-1}, events : {"R", "W"},
                revents : {"0", "IN", "OUT", "HUP", "NVAL"}]

\* Between a read() that ends a connection and the close() the manager stands at
\* a slot it has filled; after read() = 0 the descriptor is still that of a
\* client that left, whatever was accepted meanwhile.
CloseTarget ==
  /\ mpc \in {"close", "closeFailed"} => mi <= Len(fds)
  /\ mpc = "close" => Target # NoConn /\ peer[Target] # "open"

\* The inductive invariant.
Inv == TypeOK /\ CloseTarget

\* Descriptors are positive, so neither -1 nor a zeroed slot is one.
LEMMA FdsAreInts == Fds \subseteq Int /\ -1 \notin Fds /\ 0 \notin Fds
BY SocketsAssumption DEF Fds

\* A slot that reports an event has been filled.
LEMMA SlotFilled ==
  ASSUME TypeOK, Slot(mi).revents # "0" \/ Slot(mi).fd # 0
  PROVE  mi <= Len(fds) /\ mi \in DOMAIN fds /\ Slot(mi) = fds[mi] /\ Slot(mi) \in PollFd
<1>1. mi <= Len(fds)
  BY DEF Slot
<1>2. fds \in Seq(PollFd) /\ mi \in Nat \ {0}
  BY DEF TypeOK, PollFd
<1>3. mi \in DOMAIN fds /\ fds[mi] \in PollFd
  BY <1>1, <1>2
<1> QED
  BY <1>1, <1>3 DEF Slot

\* What a system call leaves of the environment's types.
LEMMA ClientTypes ==
  ASSUME SocketsType, NEW c \in Conns, ClientStep(c)
  PROVE  /\ SocketsType' /\ fdt' = fdt
         /\ \A d \in Conns : peer[d] # "open" => peer'[d] # "open"
         /\ \A d \in Conns : link[d] = "backlog" => link'[d] = "backlog"
<1> USE DEF SocketsType, Request
<1>1. CASE Connect(c) /\ UNCHANGED fdt
  BY <1>1 DEF Connect
<1>2. CASE Send(c) /\ UNCHANGED fdt
  BY <1>2 DEF Send
<1>3. CASE Finish(c) /\ UNCHANGED fdt
  BY <1>3 DEF Finish
<1>4. CASE Reset(c) /\ UNCHANGED fdt
  BY <1>4 DEF Reset
<1> QED
  BY <1>1, <1>2, <1>3, <1>4 DEF ClientStep

\* A client's step.
LEMMA ClientKeeps ==
  ASSUME Inv, NEW c \in Conns, Client(c)
  PROVE  Inv' /\ \A d \in Conns : Reachable(d) => Reachable(d)'
<1>1. /\ ClientStep(c) /\ status' = status /\ m_Clients' = m_Clients /\ cap' = cap
      /\ nfail' = nfail /\ apc' = apc /\ newSd' = newSd /\ seen' = seen
      /\ mpc' = mpc /\ fds' = fds /\ mi' = mi /\ mn' = mn /\ gone' = gone /\ served' = served
  BY DEF Client, acc, mgr
<1>2. /\ SocketsType' /\ fdt' = fdt
      /\ \A d \in Conns : peer[d] # "open" => peer'[d] # "open"
      /\ \A d \in Conns : link[d] = "backlog" => link'[d] = "backlog"
  BY <1>1, ClientTypes DEF Inv, TypeOK
<1>3. TypeOK'
  BY <1>1, <1>2 DEF Inv, TypeOK
<1>4. Slot(mi)' = Slot(mi) /\ Target' = Target
  BY <1>1, <1>2 DEF Slot, Target, SocketAt
<1>5. Target \in Conns \cup {NoConn}
  BY DEF Inv, TypeOK, SocketsType, Target, SocketAt
<1>6. CloseTarget'
  BY <1>1, <1>2, <1>4, <1>5 DEF Inv, CloseTarget
<1>7. \A d \in Conns : Reachable(d) => Reachable(d)'
  BY <1>2 DEF Reachable
<1> QED
  BY <1>3, <1>6, <1>7 DEF Inv

(***************************************************************************)
(* The acceptor.                                                           *)
(***************************************************************************)
\* accept() gives out only a free number, so the one to be closed keeps its socket.
LEMMA AcceptKeeps ==
  ASSUME Inv, Accept, UNCHANGED <<status, mgr>>
  PROVE  Inv' /\ \A d \in Conns : Reachable(d) => Reachable(d)'
<1>1. /\ status' = status /\ mpc' = mpc /\ fds' = fds /\ mi' = mi /\ mn' = mn /\ gone' = gone
      /\ served' = served /\ m_Clients' = m_Clients /\ cap' = cap /\ seen' = seen /\ apc' = "push"
  BY DEF Accept, mgr
<1>2. CASE AcceptOk
  <2>1. PICK c \in Conns, s \in Fds : AcceptAs(c, s) /\ newSd' = s
    BY <1>2 DEF AcceptOk
  <2>2. /\ link[c] = "backlog" /\ fdt[s] = NoConn
        /\ link' = [link EXCEPT ![c] = "accepted"] /\ fdt' = [fdt EXCEPT ![s] = c]
        /\ peer' = peer /\ sent' = sent /\ inbox' = inbox /\ replied' = replied /\ nfail' = nfail
    BY <1>2, <2>1 DEF AcceptAs, AcceptOk
  <2>3. SocketsType'
    BY <2>1, <2>2 DEF Inv, TypeOK, SocketsType
  <2>4. TypeOK'
    BY <1>1, <2>1, <2>2, <2>3 DEF Inv, TypeOK
  <2>5. Slot(mi)' = Slot(mi)
    BY <1>1 DEF Slot
  <2>6. Target # NoConn => Target' = Target
    BY <2>2, <2>5 DEF Target, SocketAt, Inv, TypeOK, SocketsType
  <2>7. CloseTarget'
    BY <1>1, <2>2, <2>6 DEF Inv, CloseTarget
  <2>8. \A d \in Conns : Reachable(d) => Reachable(d)'
    BY <2>1, <2>2, SocketsAssumption DEF Reachable, Inv, TypeOK, SocketsType
  <2> QED
    BY <2>4, <2>7, <2>8 DEF Inv
<1>3. CASE AcceptFails
  <2>1. /\ newSd' = -1 /\ nfail' = nfail + 1 /\ fdt' = fdt
        /\ link' = link /\ peer' = peer /\ sent' = sent /\ inbox' = inbox /\ replied' = replied
    BY <1>3 DEF AcceptFails, env
  <2>2. TypeOK'
    BY <1>1, <2>1 DEF Inv, TypeOK, SocketsType
  <2>3. CloseTarget' /\ \A d \in Conns : Reachable(d) => Reachable(d)'
    BY <1>1, <2>1 DEF Inv, CloseTarget, Slot, Target, SocketAt, Reachable
  <2> QED
    BY <2>2, <2>3 DEF Inv
<1> QED
  BY <1>2, <1>3 DEF Accept

\* What the race may leave is a vector of entries.
LEMMA RacedTypes ==
  ASSUME TypeOK, NEW new \in ClientEntry, NEW v \in {Append(m_Clients, new)} \cup Raced(new)
  PROVE  v \in Seq(ClientEntry)
<1>1. m_Clients \in Seq(ClientEntry) /\ seen \in Seq(ClientEntry)
  BY DEF TypeOK, ClientEntry
<1>2. Append(m_Clients, new) \in Seq(ClientEntry) /\ Append(seen, new) \in Seq(ClientEntry)
  BY <1>1
<1>3. ASSUME v = m_Clients \o [i \in 1 .. (Len(seen) - Len(m_Clients)) |-> Last(seen)] \o <<new>>
      PROVE  v \in Seq(ClientEntry)
  <2> DEFINE n == Len(seen) - Len(m_Clients)
             w == [i \in 1 .. n |-> Last(seen)]
  <2>0. Len(seen) \in Nat /\ Len(m_Clients) \in Nat
    BY <1>1
  <2>1. w \in Seq(ClientEntry)
    <3>1. CASE n > 0
      <4>1. Len(seen) \in 1 .. Len(seen) /\ n \in Nat
        BY <2>0, <3>1
      <4>2. Last(seen) \in ClientEntry
        BY <1>1, <4>1 DEF Last
      <4> HIDE DEF n
      <4> QED
        BY <4>1, <4>2
    <3>2. CASE ~ (n > 0)
      <4>1. n \in Int /\ n <= 0
        BY <2>0, <3>2
      <4> HIDE DEF n
      <4>2. 1 .. n = 1 .. 0
        BY <4>1
      <4>3. w = [i \in 1 .. 0 |-> Last(seen)]
        BY <4>2
      <4>4. w \in [1 .. 0 -> ClientEntry]
        BY <4>3
      <4> HIDE DEF w
      <4> QED
        BY <4>4, SeqDef
    <3> QED
      BY <3>1, <3>2
  <2> HIDE DEF w
  <2>2. m_Clients \o w \in Seq(ClientEntry) /\ <<new>> \in Seq(ClientEntry)
    BY <1>1, <2>1
  <2>3. v = (m_Clients \o w) \o <<new>>
    BY <1>3 DEF w
  <2> QED
    BY <2>2, <2>3
<1> QED
  BY <1>1, <1>2, <1>3 DEF Raced

\* push_back(), whatever the race leaves.
LEMMA PushKeeps ==
  ASSUME Inv, PushBegin \/ PushEnd, UNCHANGED <<status, mgr>>
  PROVE  Inv' /\ \A d \in Conns : Reachable(d) => Reachable(d)'
<1>1. /\ status' = status /\ mpc' = mpc /\ fds' = fds /\ mi' = mi /\ mn' = mn /\ gone' = gone
      /\ served' = served /\ fdt' = fdt /\ nfail' = nfail
      /\ link' = link /\ peer' = peer /\ sent' = sent /\ inbox' = inbox /\ replied' = replied
  BY DEF PushBegin, PushEnd, mgr, env
<1>2. SocketsType'
  BY <1>1 DEF Inv, TypeOK, SocketsType
<1>3. TypeOK'
  <2>1. CASE PushBegin
    BY <1>1, <1>2, <2>1 DEF PushBegin, Inv, TypeOK
  <2>2. CASE PushEnd
    <3> DEFINE new == [sd |-> newSd, state |-> "R"]
    <3>1. new \in ClientEntry /\ m_Clients' \in {Append(m_Clients, new)} \cup Raced(new)
      BY <2>2 DEF PushEnd, Inv, TypeOK, ClientEntry
    <3>2. m_Clients' \in Seq(ClientEntry)
      BY <3>1, RacedTypes DEF Inv
    <3>3. cap' \in Nat
      BY <2>2 DEF PushEnd, Inv, TypeOK
    <3> QED
      BY <1>1, <1>2, <2>2, <3>2, <3>3, EmptySeq DEF PushEnd, Inv, TypeOK, ClientEntry
  <2> QED
    BY <2>1, <2>2
<1>4. CloseTarget' /\ \A d \in Conns : Reachable(d) => Reachable(d)'
  BY <1>1 DEF Inv, CloseTarget, Slot, Target, SocketAt, Reachable
<1> QED
  BY <1>3, <1>4 DEF Inv

(***************************************************************************)
(* The manager.                                                            *)
(***************************************************************************)
\* The steps that only move the manager through its loops.
LEMMA MoveKeeps ==
  ASSUME Inv, UNCHANGED <<cap, acc>>,
         PollCall \/ PollError \/ LoopSkip \/ LoopEnd \/ CleanupEnd \/ LoopSigpipe
  PROVE  Inv' /\ \A d \in Conns : Reachable(d) => Reachable(d)'
<1>1. /\ cap' = cap /\ nfail' = nfail /\ apc' = apc /\ newSd' = newSd /\ seen' = seen
      /\ link' = link /\ peer' = peer /\ sent' = sent /\ inbox' = inbox /\ replied' = replied
      /\ fdt' = fdt /\ m_Clients' = m_Clients /\ fds' = fds /\ gone' = gone /\ served' = served
  BY DEF PollCall, PollError, LoopSkip, LoopEnd, CleanupEnd, LoopSigpipe, acc, mgr, env
<1>2. /\ status' \in {"running", "aborted", "sigpipe", "terminated", "crashed"}
      /\ mi' \in Nat \ {0} /\ mn' \in Nat
      /\ mpc' \in {"idle", "poll", "wait", "loop", "close", "closeFailed", "cleanup"}
  BY DEF PollCall, PollError, LoopSkip, LoopEnd, CleanupEnd, LoopSigpipe, mgr, Inv, TypeOK
<1>3. mpc' \notin {"close", "closeFailed"}
  BY DEF PollCall, PollError, LoopSkip, LoopEnd, CleanupEnd, LoopSigpipe, mgr, Iterates
<1>4. SocketsType'
  BY <1>1 DEF Inv, TypeOK, SocketsType
<1>5. TypeOK'
  BY <1>1, <1>2, <1>4 DEF Inv, TypeOK
<1>6. CloseTarget' /\ \A d \in Conns : Reachable(d) => Reachable(d)'
  BY <1>1, <1>3 DEF CloseTarget, Reachable
<1> QED
  BY <1>5, <1>6 DEF Inv

\* The steps that write the pollfd array.
LEMMA FillKeeps ==
  ASSUME Inv, UNCHANGED <<cap, acc>>, Fill
  PROVE  Inv' /\ \A d \in Conns : Reachable(d) => Reachable(d)'
<1>1. /\ cap' = cap /\ nfail' = nfail /\ apc' = apc /\ newSd' = newSd /\ seen' = seen
      /\ link' = link /\ peer' = peer /\ sent' = sent /\ inbox' = inbox /\ replied' = replied
      /\ fdt' = fdt /\ m_Clients' = m_Clients /\ gone' = gone /\ served' = served
      /\ status' = status /\ mi' = mi /\ mn' = mn /\ mpc' = "poll"
  BY DEF Fill, acc, env
<1> DEFINE n == IF Len(fds) < Len(m_Clients) THEN Len(m_Clients) ELSE Len(fds)
           F(i) == IF i <= Len(m_Clients)
                   THEN [fd |-> m_Clients[i].sd, events |-> m_Clients[i].state, revents |-> "0"]
                   ELSE fds[i]
<1>2. fds' = [i \in 1 .. n |-> F(i)]
  BY DEF Fill
<1>3. m_Clients \in Seq(ClientEntry) /\ fds \in Seq(PollFd)
  BY DEF Inv, TypeOK, ClientEntry, PollFd
<1>4. n \in Nat /\ Len(m_Clients) \in Nat /\ Len(fds) \in Nat
  BY <1>3
<1>5. ASSUME NEW i \in 1 .. n PROVE F(i) \in PollFd
  <2>1. CASE i <= Len(m_Clients)
    <3>1. m_Clients[i] \in ClientEntry
      BY <1>3, <1>4, <2>1
    <3> QED
      BY <2>1, <3>1 DEF ClientEntry, PollFd
  <2>2. CASE ~ (i <= Len(m_Clients))
    <3>1. fds[i] \in PollFd
      BY <1>3, <1>4, <2>2
    <3> QED
      BY <2>2, <3>1
  <2> QED
    BY <2>1, <2>2
<1> HIDE DEF n, F
<1>6. fds' \in Seq(PollFd)
  BY <1>2, <1>4, <1>5
<1>7. SocketsType'
  BY <1>1 DEF Inv, TypeOK, SocketsType
<1>8. TypeOK'
  BY <1>1, <1>6, <1>7 DEF Inv, TypeOK, PollFd
<1>9. CloseTarget' /\ \A d \in Conns : Reachable(d) => Reachable(d)'
  BY <1>1 DEF CloseTarget, Reachable
<1> QED
  BY <1>8, <1>9 DEF Inv

\* poll() returns: every slot it was given gets an answer of its kind.
LEMMA PollReturnKeeps ==
  ASSUME Inv, UNCHANGED <<cap, acc>>, PollReturn
  PROVE  Inv' /\ \A d \in Conns : Reachable(d) => Reachable(d)'
<1>1. /\ cap' = cap /\ nfail' = nfail /\ apc' = apc /\ newSd' = newSd /\ seen' = seen
      /\ link' = link /\ peer' = peer /\ sent' = sent /\ inbox' = inbox /\ replied' = replied
      /\ fdt' = fdt /\ m_Clients' = m_Clients /\ gone' = gone /\ served' = served
      /\ status' = status /\ mi' = mi /\ mn' = 0 /\ mpc' \in {"idle", "loop"}
  BY DEF PollReturn, acc, env
<1> DEFINE F(i) == IF i <= mn THEN [fds[i] EXCEPT !.revents = Revents(fds[i])] ELSE fds[i]
<1>2. fds' = [i \in DOMAIN fds |-> F(i)]
  BY DEF PollReturn
<1>3. fds \in Seq(PollFd)
  BY DEF Inv, TypeOK, PollFd
<1>4. DOMAIN fds = 1 .. Len(fds) /\ Len(fds) \in Nat
  BY <1>3
<1>5. ASSUME NEW i \in DOMAIN fds PROVE F(i) \in PollFd
  <2>1. fds[i] \in PollFd
    BY <1>3
  <2>2. Revents(fds[i]) \in {"0", "IN", "OUT", "HUP", "NVAL"}
    BY DEF Revents, PollEvents
  <2> QED
    BY <2>1, <2>2 DEF PollFd
<1> HIDE DEF F
<1>6. fds' \in Seq(PollFd)
  BY <1>2, <1>4, <1>5
<1>7. SocketsType'
  BY <1>1 DEF Inv, TypeOK, SocketsType
<1>8. TypeOK'
  BY <1>1, <1>6, <1>7 DEF Inv, TypeOK, PollFd
<1>9. CloseTarget' /\ \A d \in Conns : Reachable(d) => Reachable(d)'
  BY <1>1 DEF CloseTarget, Reachable
<1> QED
  BY <1>8, <1>9 DEF Inv

\* A hang-up: only a slot that was filled reports one.
LEMMA GoneKeeps ==
  ASSUME Inv, UNCHANGED <<cap, acc>>, LoopGone
  PROVE  Inv' /\ \A d \in Conns : Reachable(d) => Reachable(d)'
<1>1. /\ cap' = cap /\ nfail' = nfail /\ apc' = apc /\ newSd' = newSd /\ seen' = seen
      /\ link' = link /\ peer' = peer /\ sent' = sent /\ inbox' = inbox /\ replied' = replied
      /\ fdt' = fdt /\ m_Clients' = m_Clients /\ fds' = fds /\ served' = served
      /\ status' = status /\ mi' = mi + 1 /\ mn' = mn /\ mpc' = mpc /\ mpc = "loop"
      /\ gone' = Append(gone, Slot(mi).fd)
  BY DEF LoopGone, Iterates, acc, env
<1>2. Slot(mi).fd \in Fds \cup {-1}
  <2>1. Slot(mi) \in PollFd
    BY SlotFilled DEF LoopGone, Iterates, Inv
  <2> QED
    BY <2>1 DEF PollFd
<1>3. SocketsType'
  BY <1>1 DEF Inv, TypeOK, SocketsType
<1>4. gone' \in Seq(Fds \cup {-1}) /\ mi' \in Nat \ {0}
  BY <1>1, <1>2 DEF Inv, TypeOK
<1>5. TypeOK'
  BY <1>1, <1>3, <1>4 DEF Inv, TypeOK
<1>6. CloseTarget' /\ \A d \in Conns : Reachable(d) => Reachable(d)'
  BY <1>1 DEF CloseTarget, Reachable
<1> QED
  BY <1>5, <1>6 DEF Inv

\* The state of the entry the loop stands at is set.
LEMMA EntryTypes ==
  ASSUME Inv, mi <= Len(m_Clients), NEW x \in {"R", "W"}
  PROVE  [m_Clients EXCEPT ![mi].state = x] \in Seq(ClientEntry)
<1>1. m_Clients \in Seq(ClientEntry) /\ mi \in 1 .. Len(m_Clients)
  BY DEF Inv, TypeOK, ClientEntry
<1>2. [m_Clients[mi] EXCEPT !.state = x] \in ClientEntry
  <2>1. m_Clients[mi] \in ClientEntry
    BY <1>1
  <2> QED
    BY <2>1 DEF ClientEntry
<1>3. [m_Clients EXCEPT ![mi] = [m_Clients[mi] EXCEPT !.state = x]] \in Seq(ClientEntry)
  BY <1>1, <1>2
<1> QED
  BY <1>3

\* read() > 0.
LEMMA ReadKeeps ==
  ASSUME Inv, UNCHANGED <<cap, acc>>, LoopRead
  PROVE  Inv' /\ \A d \in Conns : Reachable(d) => Reachable(d)'
<1>1. /\ cap' = cap /\ nfail' = nfail /\ apc' = apc /\ newSd' = newSd /\ seen' = seen
      /\ link' = link /\ peer' = peer /\ sent' = sent /\ replied' = replied /\ fdt' = fdt
      /\ status' = status /\ mpc' = mpc /\ mpc = "loop" /\ fds' = fds /\ mn' = mn /\ gone' = gone
      /\ mi' = mi + 1 /\ mi <= Len(m_Clients)
      /\ m_Clients' = [m_Clients EXCEPT ![mi].state = "W"]
  BY DEF LoopRead, Iterates, acc
<1>2. PICK o \in Conns : o = Target
  BY DEF LoopRead, Inv, TypeOK, SocketsType, Target, SocketAt
<1>3. PICK k \in 1 .. Len(inbox[o]) :
        /\ inbox' = [inbox EXCEPT ![o] = SubSeq(inbox[o], k + 1, Len(inbox[o]))]
        /\ served' = [served EXCEPT ![o] = served[o] \o SubSeq(inbox[o], 1, k)]
  BY <1>2 DEF LoopRead, Takes
<1>4. inbox[o] \in Seq(Request) /\ served[o] \in Seq(Request)
  BY DEF Inv, TypeOK, SocketsType
<1>5. SubSeq(inbox[o], k + 1, Len(inbox[o])) \in Seq(Request)
        /\ SubSeq(inbox[o], 1, k) \in Seq(Request)
  BY <1>4
<1>6. served[o] \o SubSeq(inbox[o], 1, k) \in Seq(Request)
  BY <1>4, <1>5
<1>7. SocketsType'
  BY <1>1, <1>3, <1>5 DEF Inv, TypeOK, SocketsType
<1>8. m_Clients' \in Seq(ClientEntry)
  BY <1>1, EntryTypes
<1>9. served' \in [Conns -> Seq(Request)] /\ mi' \in Nat \ {0}
  <2>1. served \in [Conns -> Seq(Request)] /\ mi \in Nat \ {0}
    BY DEF Inv, TypeOK
  <2>2. served' \in [Conns -> Seq(Request)]
    BY <1>3, <1>6, <2>1
  <2>3. mi' \in Nat \ {0}
    BY <1>1, <2>1
  <2> QED
    BY <2>2, <2>3
<1>10. TypeOK'
  BY <1>1, <1>7, <1>8, <1>9 DEF Inv, TypeOK, ClientEntry
<1>11. CloseTarget' /\ \A d \in Conns : Reachable(d) => Reachable(d)'
  BY <1>1 DEF CloseTarget, Reachable
<1> QED
  BY <1>10, <1>11 DEF Inv

\* write().
LEMMA WriteKeeps ==
  ASSUME Inv, UNCHANGED <<cap, acc>>, LoopWrite
  PROVE  Inv' /\ \A d \in Conns : Reachable(d) => Reachable(d)'
<1>1. /\ cap' = cap /\ nfail' = nfail /\ apc' = apc /\ newSd' = newSd /\ seen' = seen
      /\ link' = link /\ peer' = peer /\ sent' = sent /\ inbox' = inbox /\ fdt' = fdt
      /\ status' = status /\ mpc' = mpc /\ mpc = "loop" /\ fds' = fds /\ mn' = mn /\ gone' = gone
      /\ mi' = mi + 1 /\ mi <= Len(m_Clients)
      /\ m_Clients' = [m_Clients EXCEPT ![mi].state = "R"]
  BY DEF LoopWrite, Iterates, acc
<1>2. PICK o \in Conns \cup {NoConn} : o = Target
  BY DEF Inv, TypeOK, SocketsType, Target, SocketAt
<1>3. replied' \in [Conns -> Seq(Request)] /\ served' \in [Conns -> Seq(Request)]
  <2>1. CASE o = NoConn
    <3>1. replied' = replied /\ served' = served
      BY <1>2, <2>1 DEF LoopWrite, WriteTo
    <3> QED
      BY <3>1 DEF Inv, TypeOK, SocketsType
  <2>2. CASE o # NoConn
    <3>1. served' = [served EXCEPT ![o] = << >>]
            /\ (replied' = replied \/ replied' = [replied EXCEPT ![o] = replied[o] \o served[o]])
      BY <1>2, <2>2 DEF LoopWrite, WriteTo
    <3>2. replied[o] \in Seq(Request) /\ served[o] \in Seq(Request)
      BY <2>2 DEF Inv, TypeOK, SocketsType
    <3>3. replied[o] \o served[o] \in Seq(Request)
      BY <3>2
    <3>4. replied \in [Conns -> Seq(Request)] /\ served \in [Conns -> Seq(Request)]
      BY DEF Inv, TypeOK, SocketsType
    <3>5. << >> \in Seq(Request)
      BY EmptySeq
    <3>6. served' \in [Conns -> Seq(Request)]
      BY <3>1, <3>4, <3>5
    <3>7. [replied EXCEPT ![o] = replied[o] \o served[o]] \in [Conns -> Seq(Request)]
      BY <3>3, <3>4
    <3> QED
      BY <3>1, <3>4, <3>6, <3>7
  <2> QED
    BY <2>1, <2>2
<1>4. SocketsType'
  BY <1>1, <1>3 DEF Inv, TypeOK, SocketsType
<1>5. m_Clients' \in Seq(ClientEntry) /\ mi' \in Nat \ {0}
  BY <1>1, EntryTypes DEF Inv, TypeOK
<1>6. TypeOK'
  BY <1>1, <1>3, <1>4, <1>5 DEF Inv, TypeOK, ClientEntry
<1>7. CloseTarget' /\ \A d \in Conns : Reachable(d) => Reachable(d)'
  BY <1>1 DEF CloseTarget, Reachable
<1> QED
  BY <1>6, <1>7 DEF Inv

\* read() = 0 and read() < 0 on a slot that reported input.
LEMMA EndKeeps ==
  ASSUME Inv, UNCHANGED <<cap, acc>>, LoopReadFails \/ LoopReadEof
  PROVE  Inv' /\ \A d \in Conns : Reachable(d) => Reachable(d)'
<1>1. /\ cap' = cap /\ nfail' = nfail /\ apc' = apc /\ newSd' = newSd /\ seen' = seen
      /\ link' = link /\ peer' = peer /\ sent' = sent /\ inbox' = inbox /\ replied' = replied
      /\ fdt' = fdt /\ m_Clients' = m_Clients /\ fds' = fds /\ served' = served
      /\ status' = status /\ mi' = mi /\ mn' = mn /\ gone' = gone
      /\ mpc' \in {"close", "closeFailed"} /\ Slot(mi).revents = "IN"
      /\ mpc' = "close" => Target # NoConn /\ AtEnd(Target)
  BY DEF LoopReadFails, LoopReadEof, Iterates, acc, env
<1>2. mi <= Len(fds)
  BY <1>1, SlotFilled DEF Inv
<1>3. SocketsType'
  BY <1>1 DEF Inv, TypeOK, SocketsType
<1>4. TypeOK'
  BY <1>1, <1>3 DEF Inv, TypeOK
<1>5. Target' = Target
  BY <1>1 DEF Target, Slot, SocketAt
<1>6. CloseTarget' /\ \A d \in Conns : Reachable(d) => Reachable(d)'
  BY <1>1, <1>2, <1>5 DEF CloseTarget, Reachable, AtEnd
<1> QED
  BY <1>4, <1>6 DEF Inv

\* close(): only the socket the number refers to now is closed.
LEMMA CloseKeeps ==
  ASSUME Inv, UNCHANGED <<cap, acc>>, LoopClose
  PROVE  /\ Inv'
         /\ \A d \in Conns : Reachable(d) /\ ~ Reachable(d)' => peer[d] # "open" \/ mpc = "closeFailed"
<1>1. /\ cap' = cap /\ nfail' = nfail /\ apc' = apc /\ newSd' = newSd /\ seen' = seen
      /\ link' = link /\ peer' = peer /\ sent' = sent /\ inbox' = inbox /\ replied' = replied
      /\ m_Clients' = m_Clients /\ fds' = fds /\ served' = served
      /\ status' = status /\ mi' = mi + 1 /\ mn' = mn /\ mpc' = "loop"
      /\ mpc \in {"close", "closeFailed"}
      /\ fdt' = [f \in Fds |-> IF f = Slot(mi).fd THEN NoConn ELSE fdt[f]]
      /\ gone' = Append(gone, Slot(mi).fd)
  BY DEF LoopClose, Closed, acc, env
<1>2. Slot(mi).fd \in Fds \cup {-1}
  <2>1. mi <= Len(fds) /\ fds \in Seq(PollFd) /\ mi \in Nat \ {0}
    BY <1>1 DEF Inv, CloseTarget, TypeOK, PollFd
  <2>2. fds[mi] \in PollFd
    BY <2>1
  <2> QED
    BY <2>1, <2>2 DEF Slot, PollFd
<1>3. SocketsType'
  BY <1>1 DEF Inv, TypeOK, SocketsType
<1>4. gone' \in Seq(Fds \cup {-1}) /\ mi' \in Nat \ {0}
  BY <1>1, <1>2 DEF Inv, TypeOK
<1>5. TypeOK'
  BY <1>1, <1>3, <1>4 DEF Inv, TypeOK
<1>6. CloseTarget'
  BY <1>1 DEF CloseTarget
<1>7. ASSUME NEW d \in Conns, Reachable(d), ~ Reachable(d)', mpc = "close" PROVE peer[d] # "open"
  <2>1. PICK f \in Fds : fdt[f] = d /\ fdt'[f] # d
    BY <1>1, <1>7 DEF Reachable
  <2>2. f = Slot(mi).fd /\ Target = d
    BY <1>1, <2>1 DEF Target, SocketAt
  <2> QED
    BY <1>7, <2>2 DEF Inv, CloseTarget
<1> QED
  BY <1>1, <1>5, <1>6, <1>7 DEF Inv

\* The entry of a disconnected client is erased, or there is none.
LEMMA CleanupKeeps ==
  ASSUME Inv, UNCHANGED <<cap, acc>>, Cleanup
  PROVE  Inv' /\ \A d \in Conns : Reachable(d) => Reachable(d)'
<1>1. /\ cap' = cap /\ nfail' = nfail /\ apc' = apc /\ newSd' = newSd /\ seen' = seen
      /\ link' = link /\ peer' = peer /\ sent' = sent /\ inbox' = inbox /\ replied' = replied
      /\ fdt' = fdt /\ fds' = fds /\ served' = served /\ mi' = mi /\ mn' = mn
      /\ mpc' = mpc /\ mpc = "cleanup" /\ gone # << >> /\ gone' = Tail(gone)
  BY DEF Cleanup, acc, env
<1>2. gone' \in Seq(Fds \cup {-1})
  BY <1>1 DEF Inv, TypeOK
<1>3. m_Clients' \in Seq(ClientEntry)
  <2>1. m_Clients \in Seq(ClientEntry)
    BY DEF Inv, TypeOK, ClientEntry
  <2>2. m_Clients' = m_Clients \/ \E k \in DOMAIN m_Clients : m_Clients' = RemoveAt(m_Clients, k)
    BY DEF Cleanup
  <2> QED
    BY <2>1, <2>2, RemoveElements
<1>4. status' \in {"running", "aborted", "sigpipe", "terminated", "crashed"}
  BY DEF Cleanup, Inv, TypeOK
<1>5. SocketsType'
  BY <1>1 DEF Inv, TypeOK, SocketsType
<1>6. TypeOK'
  BY <1>1, <1>2, <1>3, <1>4, <1>5 DEF Inv, TypeOK, ClientEntry
<1>7. CloseTarget' /\ \A d \in Conns : Reachable(d) => Reachable(d)'
  BY <1>1 DEF CloseTarget, Reachable
<1> QED
  BY <1>6, <1>7 DEF Inv

(***************************************************************************)
(* The theorems.                                                           *)
(***************************************************************************)
\* What one step may close, if its client had not left.
Closes ==
  \A c \in Conns :
    Reachable(c) /\ ~ Reachable(c)' => peer[c] # "open" \/ mpc = "closeFailed"

\* Every step keeps the invariant and closes no client that stays.
LEMMA StepKeeps == ASSUME Inv, [Next]_vars PROVE Inv' /\ (vars' = vars \/ Closes)
<1>1. CASE \E c \in Conns : Client(c)
  BY <1>1, ClientKeeps DEF Closes
<1>2. CASE Acceptor
  <2>1. CASE Accept
    BY <1>2, <2>1, AcceptKeeps DEF Acceptor, Closes
  <2>2. CASE PushBegin \/ PushEnd
    BY <1>2, <2>2, PushKeeps DEF Acceptor, Closes
  <2> QED
    BY <1>2, <2>1, <2>2 DEF Acceptor
<1>3. CASE Manager
  <2>0. UNCHANGED <<cap, acc>>
    BY <1>3 DEF Manager
  <2>1. CASE PollCall \/ PollError \/ LoopSkip \/ LoopEnd \/ CleanupEnd \/ LoopSigpipe
    BY <2>0, <2>1, MoveKeeps DEF Closes
  <2>2. CASE Fill
    BY <2>0, <2>2, FillKeeps DEF Closes
  <2>3. CASE PollReturn
    BY <2>0, <2>3, PollReturnKeeps DEF Closes
  <2>4. CASE LoopGone
    BY <2>0, <2>4, GoneKeeps DEF Closes
  <2>5. CASE LoopRead
    BY <2>0, <2>5, ReadKeeps DEF Closes
  <2>6. CASE LoopWrite
    BY <2>0, <2>6, WriteKeeps DEF Closes
  <2>7. CASE LoopReadFails \/ LoopReadEof
    BY <2>0, <2>7, EndKeeps DEF Closes
  <2>8. CASE LoopClose
    BY <2>0, <2>8, CloseKeeps DEF Closes
  <2>9. CASE Cleanup
    BY <2>0, <2>9, CleanupKeeps DEF Closes
  <2> QED
    BY <1>3, <2>1, <2>2, <2>3, <2>4, <2>5, <2>6, <2>7, <2>8, <2>9 DEF Manager
<1>4. CASE Crash
  <2>1. /\ cap' = cap /\ nfail' = nfail /\ apc' = apc /\ newSd' = newSd /\ seen' = seen
        /\ link' = link /\ peer' = peer /\ sent' = sent /\ inbox' = inbox /\ replied' = replied
        /\ fdt' = fdt /\ m_Clients' = m_Clients /\ mpc' = mpc /\ fds' = fds /\ mi' = mi /\ mn' = mn
        /\ gone' = gone /\ served' = served /\ status' = "crashed"
    BY <1>4 DEF Crash, acc, mgr, env
  <2>2. TypeOK'
    BY <2>1 DEF Inv, TypeOK, SocketsType
  <2>3. CloseTarget' /\ Closes
    BY <2>1 DEF Inv, CloseTarget, Closes, Reachable, Target, Slot, SocketAt
  <2> QED
    BY <2>2, <2>3 DEF Inv
<1>5. CASE UNCHANGED vars
  <2>1. TypeOK'
    BY <1>5 DEF vars, env, acc, mgr, Inv, TypeOK, SocketsType
  <2>2. CloseTarget'
    BY <1>5 DEF vars, env, acc, mgr, Inv, CloseTarget, Target, Slot, SocketAt
  <2> QED
    BY <1>5, <2>1, <2>2 DEF Inv
<1> QED
  BY <1>1, <1>2, <1>3, <1>4, <1>5 DEF Next

\* The server starts in the invariant.
LEMMA StartHolds == Init => Inv
<1> SUFFICES ASSUME Init PROVE Inv
  OBVIOUS
<1>1. SocketsType
  BY EmptySeq DEF Init, SocketsInit, SocketsType
<1>2. TypeOK
  BY <1>1, EmptySeq DEF Init, TypeOK
<1> QED
  BY <1>2 DEF Init, Inv, CloseTarget

\* Every variable has its type: in particular every number in m_Clients, in the
\* pollfd array and in disconnected_clients is a descriptor or the -1 of a failed
\* accept(), whatever the race leaves.
THEOREM TypeCorrect == Spec => []TypeOK
<1>1. Inv /\ [Next]_vars => Inv'
  BY StepKeeps
<1>2. Inv => TypeOK
  BY DEF Inv
<1> QED
  BY <1>1, <1>2, StartHolds, PTL DEF Spec

\* Only the socket of a client that left is closed, except by the close() after a
\* failed read().
THEOREM LeaversOnly == Spec => OnlyLeaversClosed
<1>1. Inv /\ [Next]_vars => Inv'
  BY StepKeeps
<1>2. Inv /\ [Next]_vars => [Closes]_vars
  BY StepKeeps
<1>3. [][Closes]_vars => OnlyLeaversClosed
  BY DEF OnlyLeaversClosed, Closes
<1> QED
  BY <1>1, <1>2, <1>3, StartHolds, PTL DEF Spec

=============================================================================
