-------------------------- MODULE EventLoopProofs --------------------------
(***************************************************************************)
(* Theorems about EventLoop for every number of clients, workers and       *)
(* descriptors.                                                            *)
(***************************************************************************)
EXTENDS EventLoop, SequenceLemmas

\* The environment's state predicates are expanded throughout.
USE DEF Request, SocketsType, SocketsInit

\* Descriptors are positive, so neither -1 nor a zeroed slot is one.
LEMMA FdsAreInts == Fds \subseteq Int /\ -1 \notin Fds /\ 0 \notin Fds
BY SocketsAssumption DEF Fds

\* What a queue refers to after an event is appended.
LEMMA AppendRefs ==
  ASSUME NEW q \in Seq(Event), NEW e \in Event
  PROVE  /\ Append(q, e) \in Seq(Event)
         /\ \A c : Holds(Append(q, e), c) <=> Holds(q, c) \/ e.conn = c
<1>1. Append(q, e) \in Seq(Event)
  OBVIOUS
<1>2. ASSUME NEW c PROVE Holds(Append(q, e), c) <=> Holds(q, c) \/ e.conn = c
  <2>1. DOMAIN q = 1 .. Len(q) /\ Len(q) \in Nat
    OBVIOUS
  <2>2. DOMAIN Append(q, e) = 1 .. (Len(q) + 1)
    OBVIOUS
  <2>3. \A i \in 1 .. Len(q) : Append(q, e)[i] = q[i]
    OBVIOUS
  <2>4. Append(q, e)[Len(q) + 1] = e
    OBVIOUS
  <2> QED
    BY <2>1, <2>2, <2>3, <2>4 DEF Holds
<1> QED
  BY <1>1, <1>2

\* What a queue refers to after its head is taken.
LEMMA TailRefs ==
  ASSUME NEW q \in Seq(Event), q # << >>
  PROVE  /\ Tail(q) \in Seq(Event) /\ Head(q) \in Event
         /\ \A c : Holds(q, c) <=> Head(q).conn = c \/ Holds(Tail(q), c)
<1>1. Tail(q) \in Seq(Event) /\ Head(q) \in Event
  OBVIOUS
<1>2. ASSUME NEW c PROVE Holds(q, c) <=> Head(q).conn = c \/ Holds(Tail(q), c)
  <2>1. DOMAIN q = 1 .. Len(q) /\ Len(q) \in Nat \ {0} /\ Head(q) = q[1]
    OBVIOUS
  <2>2. Len(Tail(q)) = Len(q) - 1 /\ DOMAIN Tail(q) = 1 .. (Len(q) - 1)
    OBVIOUS
  <2>3. \A i \in 1 .. (Len(q) - 1) : Tail(q)[i] = q[i + 1]
    OBVIOUS
  <2>4. ASSUME Holds(q, c) PROVE Head(q).conn = c \/ Holds(Tail(q), c)
    <3>1. PICK i \in 1 .. Len(q) : q[i].conn = c
      BY <2>1, <2>4 DEF Holds
    <3>2. CASE i # 1
      <4>1. i - 1 \in 1 .. (Len(q) - 1) /\ Tail(q)[i - 1] = q[i]
        BY <2>1, <2>3, <3>1, <3>2
      <4> QED
        BY <2>2, <3>1, <4>1 DEF Holds
    <3> QED
      BY <2>1, <3>1, <3>2
  <2>5. ASSUME Holds(Tail(q), c) PROVE Holds(q, c)
    <3>1. PICK i \in 1 .. (Len(q) - 1) : Tail(q)[i].conn = c
      BY <2>2, <2>5 DEF Holds
    <3>2. i + 1 \in DOMAIN q /\ q[i + 1].conn = c
      BY <2>1, <2>3, <3>1
    <3> QED
      BY <3>2 DEF Holds
  <2>6. ASSUME Head(q).conn = c PROVE Holds(q, c)
    BY <2>1, <2>6 DEF Holds
  <2> QED
    BY <2>4, <2>5, <2>6
<1> QED
  BY <1>1, <1>2

\* What the vector refers to after one element is erased.
LEMMA RemoveRefs ==
  ASSUME NEW q \in Seq(Event), NEW k \in DOMAIN q
  PROVE  /\ RemoveAt(q, k) \in Seq(Event)
         /\ \A c : Holds(q, c) <=> q[k].conn = c \/ Holds(RemoveAt(q, k), c)
<1> DEFINE a == SubSeq(q, 1, k - 1)
           b == SubSeq(q, k + 1, Len(q))
           r == RemoveAt(q, k)
<1>1. k \in 1 .. Len(q) /\ Len(q) \in Nat /\ DOMAIN q = 1 .. Len(q)
  OBVIOUS
<1>2. r = a \o b
  BY DEF RemoveAt
<1>3. a \in Seq(Event) /\ Len(a) = k - 1 /\ \A i \in 1 .. (k - 1) : a[i] = q[i]
  BY <1>1
<1>4. b \in Seq(Event) /\ Len(b) = Len(q) - k /\ \A i \in 1 .. (Len(q) - k) : b[i] = q[k + i]
  BY <1>1
<1> HIDE DEF a, b, r
<1>5. r \in Seq(Event) /\ Len(r) = Len(q) - 1
  <2>1. a \o b \in Seq(Event)
    BY <1>3, <1>4
  <2>2. Len(a \o b) = Len(a) + Len(b)
    BY <1>3, <1>4, ConcatProperties
  <2> QED
    BY <1>1, <1>2, <1>3, <1>4, <2>1, <2>2
<1>6. \A i \in 1 .. (k - 1) : r[i] = q[i]
  BY <1>1, <1>2, <1>3, <1>4
<1>7. \A i \in k .. (Len(q) - 1) : r[i] = q[i + 1]
  <2> SUFFICES ASSUME NEW i \in k .. (Len(q) - 1) PROVE r[i] = q[i + 1]
    OBVIOUS
  <2>1. r[i] = b[i - (k - 1)]
    BY <1>1, <1>2, <1>3, <1>4
  <2>2. i - (k - 1) \in 1 .. (Len(q) - k) /\ k + (i - (k - 1)) = i + 1
    BY <1>1
  <2> QED
    BY <1>4, <2>1, <2>2
<1>9. DOMAIN r = 1 .. (Len(q) - 1)
  BY <1>5
<1>8. ASSUME NEW c PROVE Holds(q, c) <=> q[k].conn = c \/ Holds(r, c)
  <2>1. ASSUME Holds(q, c) PROVE q[k].conn = c \/ Holds(r, c)
    <3>1. PICK i \in 1 .. Len(q) : q[i].conn = c
      BY <1>1, <2>1 DEF Holds
    <3>2. CASE i < k
      BY <1>1, <1>9, <1>6, <3>1, <3>2 DEF Holds
    <3>3. CASE i > k
      <4>1. i - 1 \in k .. (Len(q) - 1) /\ r[i - 1] = q[i] /\ i - 1 \in DOMAIN r
        BY <1>1, <1>9, <1>7, <3>1, <3>3
      <4> QED
        BY <3>1, <4>1 DEF Holds
    <3> QED
      BY <1>1, <3>1, <3>2, <3>3
  <2>2. ASSUME Holds(r, c) PROVE Holds(q, c)
    <3>1. PICK i \in 1 .. (Len(q) - 1) : r[i].conn = c
      BY <1>9, <2>2 DEF Holds
    <3>2. CASE i < k
      BY <1>1, <1>6, <3>1, <3>2 DEF Holds
    <3>3. CASE i >= k
      <4>1. i + 1 \in DOMAIN q /\ q[i + 1].conn = c
        BY <1>1, <1>7, <3>1, <3>3
      <4> QED
        BY <4>1 DEF Holds
    <3> QED
      BY <1>1, <3>1, <3>2, <3>3
  <2>3. ASSUME q[k].conn = c PROVE Holds(q, c)
    BY <2>3 DEF Holds
  <2> QED
    BY <2>1, <2>2, <2>3
<1> QED
  BY <1>5, <1>8 DEF r

(***************************************************************************)
(* Types.  A thread refers to a Connection exactly while it runs an event  *)
(* or queues one, so what it queues is an event.                           *)
(***************************************************************************)
HoldsWhileBusy ==
  \A t \in Threads : hold[t] = NoConn <=> tpc[t] \in {"start", "pop", "accept"}

TInv == TypeOK /\ HoldsWhileBusy

\* The initial state is well typed.
LEMMA TInvInit == Init => TInv
<1> SUFFICES ASSUME Init PROVE TInv
  OBVIOUS
<1>1. \A S : << >> \in Seq(S)
  OBVIOUS
<1>2. TypeOK
  <2>1. /\ status \in {"running", "aborted", "sigpipe", "crashed"}
        /\ link \in [Conns -> {"none", "backlog", "accepted"}]
        /\ peer \in [Conns -> {"open", "fin", "rst"}]
        /\ sent \in [Conns -> Nat]
        /\ fdt \in [Fds -> Conns \cup {NoConn}]
        /\ m_Sd \in [Conns -> Fds \cup {-1}]
        /\ nfail \in Nat /\ cap \in Nat /\ mn \in Nat /\ mi \in Nat \ {0}
        /\ growing \in Threads \cup {NoThread}
    BY DEF Init
  <2>4. readFailed \in BOOLEAN
    BY DEF Init
  <2>2. /\ inbox \in [Conns -> Seq(Request)]
        /\ replied \in [Conns -> Seq(Request)]
        /\ m_WriteBuf \in [Conns -> Seq(Request)]
    BY <1>1 DEF Init
  <2>3. /\ tpc \in [Threads -> {"start", "pop", "accept", "io", "close",
                               "append", "grow", "release"}]
        /\ hold \in [Threads -> Conns \cup {BadConn, NoConn}]
        /\ op \in [Threads -> Ops]
    BY DEF Init, Ops
  <2> QED
    BY <1>1, <2>1, <2>2, <2>3, <2>4 DEF Init, TypeOK
<1>3. HoldsWhileBusy
  BY DEF Init, HoldsWhileBusy
<1> QED
  BY <1>2, <1>3 DEF TInv

\* A client's step keeps the types.
LEMMA TInvClient == ASSUME TInv, NEW c \in Conns, Client(c) PROVE TInv'
<1> USE DEF Client, ClientStep, TInv, TypeOK, HoldsWhileBusy, env, kern, objs, wq, mgr, thr
<1>1. CASE Connect(c)
  BY <1>1 DEF Connect
<1>2. CASE Send(c)
  BY <1>2 DEF Send
<1>3. CASE Finish(c)
  BY <1>3 DEF Finish
<1>4. CASE Reset(c)
  BY <1>4 DEF Reset
<1> QED
  BY <1>1, <1>2, <1>3, <1>4

\* accept() keeps the types.
LEMMA TInvAccept == ASSUME TInv, Accept PROVE TInv'
<1> USE ConnsAssumption, SocketsAssumption
       DEF Accept, TInv, TypeOK, HoldsWhileBusy, env, kern, objs, wq, mgr, thr, Ops, Threads
<1>1. CASE AcceptOk
  <2>1. PICK c \in Conns, s \in Fds :
          /\ link' = [link EXCEPT ![c] = "accepted"]
          /\ fdt' = [fdt EXCEPT ![s] = c]
          /\ m_Sd' = [m_Sd EXCEPT ![c] = s]
          /\ hold' = [hold EXCEPT ![Acceptor] = c]
          /\ UNCHANGED <<peer, sent, inbox, replied, nfail, m_WriteBuf>>
    BY <1>1 DEF AcceptOk, AcceptAs
  <2> QED
    BY <2>1
<1>2. CASE AcceptFails
  BY <1>2 DEF AcceptFails
<1> QED
  BY <1>1, <1>2

\* Queueing an event keeps the types.
LEMMA TInvAsync == ASSUME TInv, NEW t \in Threads, Async(t) PROVE TInv'
<1> USE ConnsAssumption, SocketsAssumption
       DEF Async, TInv, TypeOK, HoldsWhileBusy, env, kern, objs, wq, mgr, thr
<1>1. ASSUME tpc[t] \in {"append", "grow"} PROVE Queued(t) \in Seq(Event)
  <2>1. [conn |-> hold[t], op |-> op[t]] \in Event
    BY <1>1 DEF Event
  <2> QED
    BY <2>1, AppendRefs DEF Queued
<1>2. CASE AppendInPlace(t)
  BY <1>1, <1>2 DEF AppendInPlace
<1>3. CASE GrowBegin(t)
  BY <1>3 DEF GrowBegin
<1>4. CASE GrowEnd(t)
  BY <1>1, <1>4 DEF GrowEnd
<1> QED
  BY <1>2, <1>3, <1>4

\* Dropping a reference keeps the types.
LEMMA TInvRelease == ASSUME TInv, NEW t \in Threads, Release(t) PROVE TInv'
<1>1. Closed(SdOf(hold[t])) \in [Fds -> Conns \cup {NoConn}]
  BY DEF Closed, TInv, TypeOK
<1> QED
  BY <1>1 DEF Release, TInv, TypeOK, HoldsWhileBusy, env, kern, objs, wq, mgr, thr, Ops

\* close() keeps the type of the descriptor table.
LEMMA ClosedType ==
  ASSUME TypeOK, NEW s PROVE Closed(s) \in [Fds -> Conns \cup {NoConn}]
BY DEF Closed, TypeOK

\* A descriptor that refers to a socket is that of a Connection.
LEMMA TargetType ==
  ASSUME TInv, NEW w \in Workers, Target(w) # NoConn
  PROVE  /\ hold[w] \in Conns /\ m_Sd[hold[w]] \in Fds
         /\ Target(w) = fdt[m_Sd[hold[w]]] /\ Target(w) \in Conns
BY FdsAreInts DEF TInv, TypeOK, Target, SocketAt, SdOf, Threads

\* A worker's step keeps the types.
LEMMA TInvWorker == ASSUME TInv, NEW w \in Workers, Worker(w) PROVE TInv'
<1> USE DEF TInv
<1>0. w \in Threads /\ TypeOK /\ HoldsWhileBusy
  BY DEF Threads
<1> USE ConnsAssumption, SocketsAssumption DEF Worker, HoldsWhileBusy, env, kern, objs, wq, mgr, thr
<1>1. CASE Start(w)
  BY <1>0, <1>1 DEF Start, TypeOK
<1>2. CASE Pop(w)
  <2>1. Head(have) \in Event /\ Tail(have) \in Seq(Event)
    BY <1>0, <1>2, TailRefs DEF Pop, TypeOK
  <2>2. Head(have).conn \in Conns \cup {BadConn} /\ Head(have).op \in Ops
    BY <2>1 DEF Event
  <2> QED
    BY <1>0, <1>2, <2>1, <2>2 DEF Pop, TypeOK
<1>3. CASE Read(w)
  <2>1. CASE ReadData(w)
    <3>0. Target(w) # NoConn
      BY <2>1 DEF ReadData, Takes
    <3>1. hold[w] \in Conns /\ Target(w) \in Conns
      BY <3>0, TargetType
    <3>2. PICK k \in 1 .. Len(inbox[Target(w)]) :
            /\ m_WriteBuf' = [m_WriteBuf EXCEPT ![hold[w]] = SubSeq(inbox[Target(w)], 1, k)]
            /\ inbox' = [inbox EXCEPT ![Target(w)] = SubSeq(@, k + 1, Len(@))]
      BY <2>1 DEF ReadData, Takes
    <3>3. inbox[Target(w)] \in Seq(Request)
      BY <1>0, <3>1 DEF TypeOK
    <3>4. /\ SubSeq(inbox[Target(w)], 1, k) \in Seq(Request)
          /\ SubSeq(inbox[Target(w)], k + 1, Len(inbox[Target(w)])) \in Seq(Request)
      BY <3>3
    <3>5. /\ m_WriteBuf' \in [Conns -> Seq(Request)]
          /\ inbox' \in [Conns -> Seq(Request)]
      BY <1>0, <3>1, <3>2, <3>4 DEF TypeOK
    <3> QED
      BY <1>0, <1>3, <2>1, <3>5 DEF Read, ReadData, Takes, TypeOK, Ops
  <2>2. CASE ReadEof(w)
    BY <1>0, <1>3, <2>2 DEF Read, ReadEof, TypeOK
  <2>3. CASE ReadError(w)
    BY <1>0, <1>3, <2>3 DEF Read, ReadError, TypeOK
  <2> QED
    BY <1>3, <2>1, <2>2, <2>3 DEF Read
<1>4. CASE CloseAfterError(w)
  <2>1. Closed(SdOf(hold[w])) \in [Fds -> Conns \cup {NoConn}]
    BY <1>0, ClosedType
  <2> QED
    BY <1>0, <1>4, <2>1 DEF CloseAfterError, TypeOK
<1>5. CASE Write(w)
  <2>1. CASE WriteReturns(w)
    <3>1. replied' \in [Conns -> Seq(Request)]
      <4>1. CASE Target(w) # NoConn /\ peer[Target(w)] # "rst"
        <5>1. hold[w] \in Conns /\ Target(w) \in Conns
          BY <4>1, TargetType
        <5>2. replied[Target(w)] \o m_WriteBuf[hold[w]] \in Seq(Request)
          BY <1>0, <5>1 DEF TypeOK
        <5> QED
          BY <1>0, <2>1, <4>1, <5>2 DEF WriteReturns, WriteTo, TypeOK
      <4> QED
        BY <1>0, <2>1, <4>1 DEF WriteReturns, WriteTo, TypeOK
    <3> QED
      BY <1>0, <1>5, <2>1, <3>1 DEF Write, WriteReturns, WriteTo, TypeOK, Ops
  <2>2. CASE WriteSigpipe(w)
    BY <1>0, <1>5, <2>2 DEF Write, WriteSigpipe, TypeOK
  <2> QED
    BY <1>5, <2>1, <2>2 DEF Write
<1> QED
  BY <1>1, <1>2, <1>3, <1>4, <1>5

\* A slot and what poll() reports for it.
SlotType == [fd : Fds \cup {-1}, events : Ops,
             revents : {"0", "IN", "OUT", "HUP", "NVAL"}]

\* What poll() reports is one of the five values the code tests for.
LEMMA ReventsType == ASSUME NEW s PROVE Revents(s) \in {"0", "IN", "OUT", "HUP", "NVAL"}
BY DEF Revents, PollEvents

\* deleteClient keeps the types of what it changes.
LEMMA DeleteType ==
  ASSUME TypeOK, NEW s, deleteClient(s)
  PROVE  /\ want' \in Seq(Event)
         /\ fdt' \in [Fds -> Conns \cup {NoConn}]
         /\ status' = status \/ status' = "aborted"
<1>1. CASE Erase(s)
  <2>1. PICK k \in DOMAIN want :
          /\ want' = RemoveAt(want, k)
          /\ fdt' = fdt \/ fdt' = Closed(SdOf(want[k].conn))
          /\ status' = status
    BY <1>1 DEF Erase
  <2>2. want' \in Seq(Event)
    BY <2>1, RemoveRefs DEF TypeOK
  <2> QED
    BY <2>1, <2>2, ClosedType DEF TypeOK
<1>2. CASE AssertFails(s)
  BY <1>2 DEF AssertFails, TypeOK
<1> QED
  BY <1>1, <1>2 DEF deleteClient

\* A step of the manager keeps the types.
LEMMA TInvManager == ASSUME TInv, Manager PROVE TInv'
<1>0. TypeOK /\ HoldsWhileBusy
  BY DEF TInv
<1>h. HoldsWhileBusy'
  BY <1>0 DEF Manager, HoldsWhileBusy, thr
<1>e. UNCHANGED <<link, peer, sent, inbox, replied, nfail, m_Sd, m_WriteBuf, cap,
                  growing, tpc, hold, op, readFailed>>
  BY DEF Manager, env, objs, thr
<1>1. CASE Fill
  <2>1. fds' \in Seq(SlotType)
    <3>1. \A i \in DOMAIN want :
            [fd |-> SdOf(want[i].conn), events |-> want[i].op, revents |-> "0"] \in SlotType
      <4> SUFFICES ASSUME NEW i \in DOMAIN want
                   PROVE  SdOf(want[i].conn) \in Fds \cup {-1} /\ want[i].op \in Ops
        BY DEF SlotType
      <4>1. want[i] \in Event
        BY <1>0 DEF TypeOK
      <4> QED
        BY <1>0, <4>1 DEF TypeOK, SdOf, Event
    <3>2. PICK n \in Nat : fds' =
            [i \in 1 .. n |->
               IF i <= Len(want)
               THEN [fd |-> SdOf(want[i].conn), events |-> want[i].op, revents |-> "0"]
               ELSE fds[i]] /\ (n = Len(want) \/ n = Len(fds))
      BY <1>0, <1>1 DEF Fill, TypeOK
    <3>3. fds \in Seq(SlotType) /\ want \in Seq(Event)
      BY <1>0 DEF TypeOK, SlotType
    <3>4. \A i \in 1 .. n : fds'[i] \in SlotType
      BY <3>1, <3>2, <3>3
    <3> QED
      BY <3>2, <3>4
  <2> QED
    BY <1>0, <1>h, <1>e, <1>1, <2>1 DEF Fill, TInv, TypeOK, SlotType
<1>2. CASE PollCall
  BY <1>0, <1>h, <1>e, <1>2 DEF PollCall, TInv, TypeOK
<1>3. CASE PollReturn
  <2>1. fds' \in Seq(SlotType)
    <3>1. fds \in Seq(SlotType) /\ DOMAIN fds = 1 .. Len(fds) /\ Len(fds) \in Nat
      BY <1>0 DEF TypeOK, SlotType
    <3>2. DOMAIN fds' = 1 .. Len(fds) /\ fds' = [i \in 1 .. Len(fds) |-> fds'[i]]
      BY <1>3, <3>1 DEF PollReturn
    <3>3. \A i \in 1 .. Len(fds) : fds'[i] \in SlotType
      <4> SUFFICES ASSUME NEW i \in 1 .. Len(fds) PROVE fds'[i] \in SlotType
        OBVIOUS
      <4>1. fds[i] \in SlotType
        BY <3>1
      <4>2. fds'[i] = fds[i] \/ fds'[i] = [fds[i] EXCEPT !.revents = Revents(fds[i])]
        BY <1>3, <3>1 DEF PollReturn
      <4>3. Revents(fds[i]) \in {"0", "IN", "OUT", "HUP", "NVAL"}
        BY ReventsType
      <4> QED
        BY <4>1, <4>2, <4>3 DEF SlotType
    <3> QED
      BY <3>1, <3>2, <3>3
  <2> QED
    BY <1>0, <1>h, <1>e, <1>3, <2>1 DEF PollReturn, TInv, TypeOK, SlotType
<1>4. CASE PollError
  BY <1>0, <1>h, <1>e, <1>4 DEF PollError, TInv, TypeOK
<1>5. CASE DispatchSkip
  BY <1>0, <1>h, <1>e, <1>5 DEF DispatchSkip, TInv, TypeOK
<1>6. CASE DispatchGone
  <2>1. Slot(mi).fd \in Fds \cup {-1}
    <3>1. Slot(mi) = fds[mi] /\ mi \in 1 .. Len(fds)
      BY <1>0, <1>6 DEF DispatchGone, Slot, ZeroSlot, TypeOK
    <3>2. fds[mi] \in SlotType
      <4>1. fds \in Seq(SlotType)
        BY <1>0 DEF TypeOK, SlotType
      <4> QED
        BY <3>1, <4>1
    <3> QED
      BY <3>1, <3>2 DEF SlotType
  <2> QED
    BY <1>0, <1>h, <1>e, <1>6, <2>1 DEF DispatchGone, TInv, TypeOK
<1>7. CASE DispatchPush
  <2>1. want[mi] \in Event
    BY <1>0, <1>7 DEF DispatchPush, TypeOK
  <2>2. have' \in Seq(Event)
    BY <1>0, <1>7, <2>1 DEF DispatchPush, TypeOK
  <2> QED
    BY <1>0, <1>h, <1>e, <1>7, <2>2 DEF DispatchPush, TInv, TypeOK
<1>8. CASE DispatchEnd
  BY <1>0, <1>h, <1>e, <1>8 DEF DispatchEnd, TInv, TypeOK
<1>9. CASE DispatchDelete
  <2>1. deleteClient(Slot(mi).fd)
    BY <1>9 DEF DispatchDelete
  <2>2. TypeOK
    BY <1>0
  <2>3. /\ want' \in Seq(Event) /\ fdt' \in [Fds -> Conns \cup {NoConn}]
        /\ status' = status \/ status' = "aborted"
    BY <2>1, <2>2, DeleteType
  <2> QED
    BY <1>0, <1>h, <1>e, <1>9, <2>3 DEF DispatchDelete, TInv, TypeOK
<1>10. CASE Cleanup
  <2>1. deleteClient(Head(gone)) /\ gone' \in Seq(Fds \cup {-1})
    BY <1>0, <1>10 DEF Cleanup, TypeOK
  <2> QED
    BY <1>0, <1>h, <1>e, <1>10, <2>1, DeleteType DEF Cleanup, TInv, TypeOK
<1>11. CASE CleanupEnd
  BY <1>0, <1>h, <1>e, <1>11 DEF CleanupEnd, TInv, TypeOK
<1> QED
  BY <1>1, <1>2, <1>3, <1>4, <1>5, <1>6, <1>7, <1>8, <1>9, <1>10, <1>11 DEF Manager

\* Every step keeps the types.
LEMMA TInvStep == TInv /\ [Next]_vars => TInv'
<1> SUFFICES ASSUME TInv, [Next]_vars PROVE TInv'
  OBVIOUS
<1>1. CASE Crash
  BY <1>1 DEF Crash, TInv, TypeOK, HoldsWhileBusy, env, kern, objs, wq, mgr, thr
<1>2. CASE UNCHANGED vars
  BY <1>2 DEF vars, TInv, TypeOK, HoldsWhileBusy, env, kern, objs, wq, mgr, thr
<1> QED
  BY <1>1, <1>2, TInvClient, TInvAccept, TInvAsync, TInvRelease, TInvWorker, TInvManager DEF Next

\* Every reachable state of the asynchronous server is well typed, whatever
\* the number of clients, workers and descriptors.
THEOREM TypeCorrect == Spec => []TypeOK
<1>1. TInv => TypeOK
  BY DEF TInv
<1> QED
  BY <1>1, TInvInit, TInvStep, PTL DEF Spec

(***************************************************************************)
(* Descriptors.  Only clients that were accepted are referred to, and a    *)
(* worker closes a descriptor itself only after a failed read().           *)
(***************************************************************************)
RefsAccepted == \A c \in Conns : Referenced(c) => link[c] = "accepted"

CloseAfterFailure == \A t \in Threads : tpc[t] = "close" => readFailed

DInv == RefsAccepted /\ CloseAfterFailure /\ NoDescriptorLeak /\ DescriptorOwned

\* A step that moves references about without dropping the last one, and
\* opens and closes nothing, keeps the ownership of descriptors.
LEMMA SameRefs ==
  ASSUME DInv, \A c \in Conns : Referenced(c)' <=> Referenced(c),
         UNCHANGED <<fdt, m_Sd>>,
         \A c \in Conns : link[c] = "accepted" => link'[c] = "accepted",
         readFailed => readFailed', TypeOK,
         \A t \in Threads : tpc'[t] = "close" => tpc[t] = "close" \/ readFailed'
  PROVE  DInv'
<1>1. NoDescriptorLeak'
  BY DEF DInv, NoDescriptorLeak, TypeOK
<1>2. DescriptorOwned'
  BY DEF DInv, DescriptorOwned, SocketAt
<1>3. RefsAccepted'
  BY DEF DInv, RefsAccepted
<1>4. CloseAfterFailure'
  BY DEF DInv, CloseAfterFailure
<1> QED
  BY <1>1, <1>2, <1>3, <1>4 DEF DInv

\* Dropping the last reference to a Connection and closing its descriptor
\* keeps the ownership of the others.
LEMMA DropLast ==
  ASSUME DInv, TypeOK, NEW c \in Conns \cup {BadConn},
         c \in Conns => Referenced(c),
         \A d \in Conns : Referenced(d)' <=> Referenced(d) /\ d # c,
         fdt' = Closed(SdOf(c)), UNCHANGED <<m_Sd, link, readFailed>>,
         \A t \in Threads : tpc'[t] = "close" => tpc[t] = "close"
  PROVE  DInv'
<1>0. \A f \in Fds : fdt'[f] = IF f = SdOf(c) THEN NoConn ELSE fdt[f]
  BY DEF Closed
<1>1. NoDescriptorLeak'
  <2> SUFFICES ASSUME NEW f \in Fds, NEW d \in Conns, fdt'[f] = d
               PROVE  Referenced(d)' /\ m_Sd[d] = f
    BY DEF NoDescriptorLeak
  <2>1. f # SdOf(c) /\ fdt[f] = d
    BY <1>0, ConnsAssumption, SocketsAssumption
  <2>2. Referenced(d) /\ m_Sd[d] = f
    BY <2>1 DEF DInv, NoDescriptorLeak
  <2>3. d # c
    BY <2>1, <2>2 DEF SdOf
  <2> QED
    BY <2>1, <2>2, <2>3
<1>2. DescriptorOwned'
  <2> SUFFICES ASSUME ~ readFailed, NEW d \in Conns, Referenced(d)'
               PROVE  (SocketAt(m_Sd[d]) = d)'
    BY DEF DescriptorOwned
  <2>1. Referenced(d) /\ d # c
    OBVIOUS
  <2>2. SocketAt(m_Sd[d]) = d
    BY <2>1 DEF DInv, DescriptorOwned
  <2>3. m_Sd[d] \in Fds /\ fdt[m_Sd[d]] = d
    BY <2>2, ConnsAssumption, SocketsAssumption DEF SocketAt
  <2>4. m_Sd[d] # SdOf(c)
    <3>1. CASE c \in Conns
      <4>1. SocketAt(m_Sd[c]) = c
        BY <3>1 DEF DInv, DescriptorOwned
      <4> QED
        BY <2>1, <2>2, <3>1, <4>1 DEF SdOf
    <3>2. CASE c \notin Conns
      BY <2>3, <3>2, FdsAreInts DEF SdOf
    <3> QED
      BY <3>1, <3>2
  <2> QED
    BY <1>0, <2>3, <2>4 DEF SocketAt
<1>3. RefsAccepted'
  BY DEF DInv, RefsAccepted
<1>4. CloseAfterFailure'
  BY DEF DInv, CloseAfterFailure
<1> QED
  BY <1>1, <1>2, <1>3, <1>4 DEF DInv

\* Nothing is referred to initially and no descriptor is open.
LEMMA DInvInit == Init => DInv
<1> SUFFICES ASSUME Init PROVE DInv
  OBVIOUS
<1>1. \A c \in Conns : ~ Referenced(c)
  <2>1. want = << >> /\ have = << >> /\ \A t \in Threads : hold[t] = NoConn
    BY DEF Init
  <2> QED
    BY <2>1, SocketsAssumption DEF Referenced, Holds
<1>2. NoDescriptorLeak
  BY ConnsAssumption, SocketsAssumption DEF Init, NoDescriptorLeak
<1>3. CloseAfterFailure
  BY DEF Init, CloseAfterFailure
<1> QED
  BY <1>1, <1>2, <1>3 DEF DInv, RefsAccepted, DescriptorOwned

\* A client's step touches no descriptor.
LEMMA DInvClient == ASSUME TInv, DInv, NEW c \in Conns, Client(c) PROVE DInv'
<1>1. UNCHANGED <<fdt, m_Sd, want, have, hold, tpc, readFailed>>
  BY DEF Client, ClientStep, kern, objs, wq, thr
<1>2. \A d \in Conns : link[d] = "accepted" => link'[d] = "accepted"
  BY DEF Client, ClientStep, Connect, Send, Finish, Reset, TInv, TypeOK
<1>3. \A d \in Conns : Referenced(d)' <=> Referenced(d)
  BY <1>1 DEF Referenced, Holds
<1> QED
  BY <1>1, <1>2, <1>3, SameRefs DEF TInv

\* accept() gives a free descriptor to a client nothing refers to yet.
LEMMA DInvAccept == ASSUME TInv, DInv, Accept PROVE DInv'
<1>0. /\ TypeOK /\ UNCHANGED <<want, have, readFailed>>
      /\ Acceptor \in Threads /\ hold[Acceptor] = NoConn
      /\ \A t \in Threads : tpc'[t] = "close" => tpc[t] = "close"
  BY DEF Accept, TInv, TypeOK, HoldsWhileBusy, wq, Threads
<1>1. CASE AcceptOk
  <2>1. PICK c \in Conns, s \in Fds :
          /\ link[c] = "backlog" /\ fdt[s] = NoConn
          /\ link' = [link EXCEPT ![c] = "accepted"]
          /\ fdt' = [fdt EXCEPT ![s] = c]
          /\ m_Sd' = [m_Sd EXCEPT ![c] = s]
          /\ hold' = [hold EXCEPT ![Acceptor] = c]
    BY <1>1 DEF AcceptOk, AcceptAs
  <2>2. ~ Referenced(c)
    BY <2>1 DEF DInv, RefsAccepted
  <2>3. \A d \in Conns : Referenced(d)' <=> Referenced(d) \/ d = c
    BY <1>0, <2>1, ConnsAssumption, SocketsAssumption DEF Referenced, Holds, TypeOK
  <2>4. NoDescriptorLeak'
    <3> SUFFICES ASSUME NEW f \in Fds, NEW d \in Conns, fdt'[f] = d
                 PROVE  Referenced(d)' /\ m_Sd'[d] = f
      BY DEF NoDescriptorLeak
    <3>1. CASE f = s
      BY <1>0, <2>1, <2>3, <3>1 DEF TypeOK
    <3>2. CASE f # s
      <4>1. fdt[f] = d
        BY <1>0, <2>1, <3>2 DEF TypeOK
      <4>2. Referenced(d) /\ m_Sd[d] = f
        BY <4>1 DEF DInv, NoDescriptorLeak
      <4> QED
        BY <1>0, <2>1, <2>2, <2>3, <4>1, <4>2 DEF TypeOK
    <3> QED
      BY <3>1, <3>2
  <2>5. DescriptorOwned'
    <3> SUFFICES ASSUME ~ readFailed, NEW d \in Conns, Referenced(d)'
                 PROVE  (SocketAt(m_Sd[d]) = d)'
      BY <1>0 DEF DescriptorOwned
    <3>1. CASE d = c
      BY <1>0, <2>1, <3>1 DEF SocketAt, TypeOK
    <3>2. CASE d # c
      <4>1. SocketAt(m_Sd[d]) = d
        BY <2>3, <3>2 DEF DInv, DescriptorOwned
      <4>2. m_Sd[d] \in Fds /\ fdt[m_Sd[d]] = d /\ m_Sd[d] # s
        BY <2>1, <4>1, ConnsAssumption, SocketsAssumption DEF SocketAt
      <4> QED
        BY <1>0, <2>1, <3>2, <4>2 DEF SocketAt, TypeOK
    <3> QED
      BY <3>1, <3>2
  <2>6. RefsAccepted'
    BY <1>0, <2>1, <2>3 DEF DInv, RefsAccepted, TypeOK
  <2>7. CloseAfterFailure'
    BY <1>0 DEF DInv, CloseAfterFailure
  <2> QED
    BY <2>4, <2>5, <2>6, <2>7 DEF DInv
<1>2. CASE AcceptFails
  <2>1. hold' = [hold EXCEPT ![Acceptor] = BadConn] /\ UNCHANGED <<link, fdt, m_Sd>>
    BY <1>2 DEF AcceptFails, env, objs
  <2>2. \A d \in Conns : Referenced(d)' <=> Referenced(d)
    BY <1>0, <2>1, ConnsAssumption, SocketsAssumption DEF Referenced, Holds, TypeOK
  <2> QED
    BY <1>0, <2>1, <2>2, SameRefs
<1> QED
  BY <1>1, <1>2 DEF Accept

\* Queueing an event adds a reference the thread already has.
LEMMA DInvAsync == ASSUME TInv, DInv, NEW t \in Threads, Async(t) PROVE DInv'
<1>0. /\ TypeOK /\ UNCHANGED <<fdt, m_Sd, link, have, hold, readFailed>>
      /\ \A u \in Threads : tpc'[u] = "close" => tpc[u] = "close"
  BY DEF Async, AppendInPlace, GrowBegin, GrowEnd, TInv, TypeOK, env, kern, objs
<1>1. \A c \in Conns : Referenced(c)' <=> Referenced(c)
  <2>1. CASE want' = want
    BY <1>0, <2>1 DEF Referenced, Holds
  <2>2. CASE want' = Queued(t) /\ tpc[t] \in {"append", "grow"}
    <3>1. [conn |-> hold[t], op |-> op[t]] \in Event
      BY <2>2 DEF Event, TInv, TypeOK, HoldsWhileBusy
    <3>2. \A c : Holds(want', c) <=> Holds(want, c) \/ hold[t] = c
      BY <1>0, <2>2, <3>1, AppendRefs DEF Queued, TypeOK
    <3>3. \A c : Holds(have', c) <=> Holds(have, c)
      BY <1>0
    <3>4. \A c : Referenced(c)' <=> Holds(want', c) \/ Holds(have', c) \/ \E u \in Threads : hold'[u] = c
      BY DEF Referenced, Holds
    <3> QED
      BY <1>0, <3>2, <3>3, <3>4 DEF Referenced
  <2> QED
    BY <2>1, <2>2 DEF Async, AppendInPlace, GrowBegin, GrowEnd
<1> QED
  BY <1>0, <1>1, SameRefs

\* A thread that drops its reference closes the descriptor if it was the last.
LEMMA DInvRelease == ASSUME TInv, DInv, NEW t \in Threads, Release(t) PROVE DInv'
<1> DEFINE c == hold[t]
<1>0. /\ TypeOK /\ UNCHANGED <<m_Sd, link, want, have, readFailed>>
      /\ hold' = [hold EXCEPT ![t] = NoConn]
      /\ c \in Conns \cup {BadConn}
      /\ \A u \in Threads : tpc'[u] = "close" => tpc[u] = "close"
  BY DEF Release, TInv, TypeOK, HoldsWhileBusy, env, objs, wq
<1>1. \A d \in Conns : Referenced(d)' <=>
        Holds(want, d) \/ Holds(have, d) \/ \E u \in Threads \ {t} : hold[u] = d
  BY <1>0, ConnsAssumption, SocketsAssumption DEF Referenced, Holds, TypeOK
<1>2. \A d \in Conns : Referenced(d) <=>
        Holds(want, d) \/ Holds(have, d) \/ c = d \/ \E u \in Threads \ {t} : hold[u] = d
  BY DEF Referenced
<1>3. CASE LastRef(t)
  <2>1. fdt' = Closed(SdOf(c))
    BY <1>3 DEF Release
  <2>2. \A d \in Conns : Referenced(d)' <=> Referenced(d) /\ d # c
    BY <1>1, <1>2, <1>3 DEF LastRef
  <2>3. c \in Conns => Referenced(c)
    BY <1>2
  <2> HIDE DEF c
  <2> QED
    BY <1>0, <2>1, <2>2, <2>3, DropLast
<1>4. CASE ~ LastRef(t)
  <2>1. fdt' = fdt
    BY <1>4 DEF Release
  <2>2. \A d \in Conns : Referenced(d)' <=> Referenced(d)
    BY <1>1, <1>2, <1>4 DEF LastRef
  <2> QED
    BY <1>0, <2>1, <2>2, SameRefs
<1> QED
  BY <1>3, <1>4

\* A worker takes over the reference of the event it pops; only after a failed
\* read() does it close a descriptor it does not own.
LEMMA DInvWorker == ASSUME TInv, DInv, NEW w \in Workers, Worker(w) PROVE DInv'
<1>0. w \in Threads /\ TypeOK /\ HoldsWhileBusy
  BY DEF Threads, TInv
<1>1. CASE Start(w)
  <2>1. UNCHANGED <<fdt, m_Sd, link, want, have, hold, readFailed>>
    BY <1>1 DEF Start, env, kern, objs, wq
  <2>2. \A u \in Threads : tpc'[u] = "close" => tpc[u] = "close"
    BY <1>0, <1>1 DEF Start, TypeOK
  <2>3. \A d \in Conns : Referenced(d)' <=> Referenced(d)
    BY <2>1 DEF Referenced, Holds
  <2> QED
    BY <1>0, <2>1, <2>2, <2>3, SameRefs
<1>2. CASE Pop(w)
  <2>1. /\ UNCHANGED <<fdt, m_Sd, link, want, readFailed>>
        /\ have # << >> /\ have' = Tail(have)
        /\ hold[w] = NoConn /\ hold' = [hold EXCEPT ![w] = Head(have).conn]
        /\ \A u \in Threads : tpc'[u] = "close" => tpc[u] = "close"
    BY <1>0, <1>2 DEF Pop, env, kern, objs, wq, HoldsWhileBusy, TypeOK
  <2>2. \A d : Holds(have, d) <=> Head(have).conn = d \/ Holds(have', d)
    BY <1>0, <2>1, TailRefs DEF TypeOK
  <2>3. \A d \in Conns : Referenced(d)' <=>
          Holds(want, d) \/ Holds(have', d) \/ Head(have).conn = d
            \/ \E u \in Threads \ {w} : hold[u] = d
    BY <1>0, <2>1, ConnsAssumption, SocketsAssumption DEF Referenced, Holds, TypeOK
  <2>4. \A d \in Conns : Referenced(d) <=>
          Holds(want, d) \/ Holds(have, d) \/ \E u \in Threads \ {w} : hold[u] = d
    BY <1>0, <2>1, ConnsAssumption, SocketsAssumption DEF Referenced
  <2>5. \A d \in Conns : Referenced(d)' <=> Referenced(d)
    BY <2>2, <2>3, <2>4
  <2> QED
    BY <1>0, <2>1, <2>5, SameRefs
<1>3. CASE Read(w)
  <2>1. UNCHANGED <<fdt, m_Sd, link, want, have, hold>> /\ (readFailed => readFailed')
    BY <1>3 DEF Read, ReadData, Takes, ReadEof, ReadError, env, kern, wq
  <2>2. \A u \in Threads : tpc'[u] = "close" => tpc[u] = "close" \/ readFailed'
    BY <1>0, <1>3 DEF Read, ReadData, Takes, ReadEof, ReadError, TypeOK
  <2>3. \A d \in Conns : Referenced(d)' <=> Referenced(d)
    BY <2>1 DEF Referenced, Holds
  <2> QED
    BY <1>0, <2>1, <2>2, <2>3, SameRefs
<1>4. CASE CloseAfterError(w)
  <2>1. readFailed /\ readFailed'
    BY <1>0, <1>4 DEF CloseAfterError, DInv, CloseAfterFailure
  <2>2. UNCHANGED <<m_Sd, link, want, have, hold>>
    BY <1>4 DEF CloseAfterError, env, objs, wq
  <2>3. \A d \in Conns : Referenced(d)' <=> Referenced(d)
    BY <2>2 DEF Referenced, Holds
  <2>4. NoDescriptorLeak'
    BY <1>4, <2>2, <2>3, ConnsAssumption, SocketsAssumption
    DEF CloseAfterError, Closed, DInv, NoDescriptorLeak
  <2>5. RefsAccepted'
    BY <2>2, <2>3 DEF DInv, RefsAccepted
  <2> QED
    BY <2>1, <2>4, <2>5 DEF DInv, DescriptorOwned, CloseAfterFailure
<1>5. CASE Write(w)
  <2>1. UNCHANGED <<fdt, m_Sd, link, want, have, hold, readFailed>>
    BY <1>5 DEF Write, kern, objs, wq
  <2>2. \A u \in Threads : tpc'[u] = "close" => tpc[u] = "close"
    BY <1>0, <1>5 DEF Write, WriteReturns, WriteTo, WriteSigpipe, TypeOK
  <2>3. \A d \in Conns : Referenced(d)' <=> Referenced(d)
    BY <2>1 DEF Referenced, Holds
  <2> QED
    BY <1>0, <2>1, <2>2, <2>3, SameRefs
<1> QED
  BY <1>1, <1>2, <1>3, <1>4, <1>5 DEF Worker

\* deleteClient drops one reference, and closes the descriptor with the last.
LEMMA DInvDelete ==
  ASSUME TypeOK, DInv, NEW s, deleteClient(s),
         UNCHANGED <<m_Sd, link, have, hold, tpc, readFailed>>
  PROVE  DInv'
<1>1. CASE Erase(s)
  <2>1. PICK k \in DOMAIN want :
          /\ want' = RemoveAt(want, k)
          /\ fdt' = IF Holds(RemoveAt(want, k), want[k].conn) \/ Holds(have, want[k].conn)
                         \/ \E t \in Threads : hold[t] = want[k].conn
                    THEN fdt ELSE Closed(SdOf(want[k].conn))
    BY <1>1 DEF Erase
  <2> DEFINE c == want[k].conn
  <2>2. c \in Conns \cup {BadConn}
    <3>1. want[k] \in Event
      BY DEF TypeOK
    <3> QED
      BY <3>1 DEF Event
  <2>3. \A d : Holds(want, d) <=> c = d \/ Holds(want', d)
    BY <2>1, RemoveRefs DEF TypeOK
  <2>4. \A d : Referenced(d) <=>
          Holds(want, d) \/ Holds(have, d) \/ \E t \in Threads : hold[t] = d
    BY DEF Referenced
  <2>5. \A d : Referenced(d)' <=>
          Holds(want', d) \/ Holds(have, d) \/ \E t \in Threads : hold[t] = d
    BY DEF Referenced, Holds
  <2>6. CASE Holds(want', c) \/ Holds(have, c) \/ \E t \in Threads : hold[t] = c
    <3>1. \A d \in Conns : Referenced(d)' <=> Referenced(d)
      BY <2>3, <2>4, <2>5, <2>6
    <3>2. fdt' = fdt
      BY <2>1, <2>6
    <3> QED
      BY <3>1, <3>2, SameRefs
  <2>7. CASE ~ (Holds(want', c) \/ Holds(have, c) \/ \E t \in Threads : hold[t] = c)
    <3>1. \A d \in Conns : Referenced(d)' <=> Referenced(d) /\ d # c
      BY <2>3, <2>4, <2>5, <2>7
    <3>2. fdt' = Closed(SdOf(c)) /\ Referenced(c)
      BY <2>1, <2>3, <2>4, <2>7
    <3> HIDE DEF c
    <3> QED
      BY <2>2, <3>1, <3>2, DropLast
  <2> QED
    BY <2>6, <2>7
<1>2. CASE AssertFails(s)
  <2>1. want' = want /\ fdt' = fdt
    BY <1>2 DEF AssertFails
  <2>2. \A d \in Conns : Referenced(d)' <=> Referenced(d)
    BY <2>1 DEF Referenced, Holds
  <2> QED
    BY <2>1, <2>2, SameRefs
<1> QED
  BY <1>1, <1>2 DEF deleteClient

\* The manager copies references from one queue to the other and drops them
\* with deleteClient only.
LEMMA DInvManager == ASSUME TInv, DInv, Manager PROVE DInv'
<1>0. TypeOK /\ UNCHANGED <<m_Sd, link, hold, tpc, readFailed>>
  BY DEF TInv, Manager, env, objs, thr
<1>1. CASE UNCHANGED <<fdt, want, have>>
  <2>1. \A d \in Conns : Referenced(d)' <=> Referenced(d)
    BY <1>0, <1>1 DEF Referenced, Holds
  <2> QED
    BY <1>0, <1>1, <2>1, SameRefs
<1>2. CASE DispatchPush
  <2>1. UNCHANGED <<fdt, want>> /\ have' = Append(have, want[mi])
    BY <1>2 DEF DispatchPush
  <2>2. mi \in DOMAIN want /\ want[mi] \in Event
    BY <1>0, <1>2 DEF DispatchPush, TypeOK
  <2>3. \A d : Holds(have', d) <=> Holds(have, d) \/ want[mi].conn = d
    BY <1>0, <2>1, <2>2, AppendRefs DEF TypeOK
  <2>4. \A d : want[mi].conn = d => Holds(want, d)
    BY <2>2 DEF Holds
  <2>5. \A d : Referenced(d) <=>
          Holds(want, d) \/ Holds(have, d) \/ \E t \in Threads : hold[t] = d
    BY DEF Referenced
  <2>6. \A d : Referenced(d)' <=>
          Holds(want, d) \/ Holds(have', d) \/ \E t \in Threads : hold[t] = d
    BY <1>0, <2>1 DEF Referenced, Holds
  <2>7. \A d \in Conns : Referenced(d)' <=> Referenced(d)
    BY <2>3, <2>4, <2>5, <2>6
  <2> QED
    BY <1>0, <2>1, <2>7, SameRefs
<1>3. CASE DispatchDelete
  BY <1>0, <1>3, DInvDelete DEF DispatchDelete
<1>4. CASE Cleanup
  BY <1>0, <1>4, DInvDelete DEF Cleanup
<1> QED
  BY <1>1, <1>2, <1>3, <1>4 DEF Manager, Fill, PollCall, PollReturn, PollError,
     DispatchSkip, DispatchGone, DispatchEnd, CleanupEnd

\* Every step keeps the ownership of descriptors.
LEMMA DInvStep == TInv /\ DInv /\ [Next]_vars => DInv'
<1> SUFFICES ASSUME TInv, DInv, [Next]_vars PROVE DInv'
  OBVIOUS
<1>1. CASE Crash \/ UNCHANGED vars
  <2>1. UNCHANGED <<fdt, m_Sd, link, want, have, hold, tpc, readFailed>>
    BY <1>1 DEF Crash, vars, env, kern, objs, wq, thr
  <2>2. \A d \in Conns : Referenced(d)' <=> Referenced(d)
    BY <2>1 DEF Referenced, Holds
  <2> QED
    BY <2>1, <2>2, SameRefs DEF TInv
<1> QED
  BY <1>1, DInvClient, DInvAccept, DInvAsync, DInvRelease, DInvWorker, DInvManager DEF Next

\* Until a read() fails, whatever the interleaving of manager, workers and
\* acceptor and whatever events the manager loses or repeats, the descriptor
\* of a Connection that is still referred to is its own client's socket.
THEOREM DescriptorsOwned == Spec => []DescriptorOwned
<1>1. DInv => DescriptorOwned
  BY DEF DInv
<1> QED
  BY <1>1, TInvInit, TInvStep, DInvInit, DInvStep, PTL DEF Spec

\* The server never keeps a descriptor open that no Connection still owns.
THEOREM DescriptorsReleased == Spec => []NoDescriptorLeak
<1>1. DInv => NoDescriptorLeak
  BY DEF DInv
<1> QED
  BY <1>1, TInvInit, TInvStep, DInvInit, DInvStep, PTL DEF Spec

(***************************************************************************)
(* Data.  Until a read() fails, the buffers of a Connection hold only what *)
(* its own client sent, because its descriptor is that client's socket     *)
(* whenever a worker uses it.                                              *)
(***************************************************************************)
From(c) == {c} \X Nat

OwnInput == \A c \in Conns : inbox[c] \in Seq(From(c))

OwnData ==
  readFailed \/ \A c \in Conns : m_WriteBuf[c] \in Seq(From(c)) /\ replied[c] \in Seq(From(c))

EInv == OwnInput /\ OwnData

\* All buffers are empty initially.
LEMMA EInvInit == Init => EInv
<1>1. \A S : << >> \in Seq(S)
  OBVIOUS
<1> QED
  BY <1>1 DEF Init, EInv, OwnInput, OwnData

\* Until a read() fails, a worker's descriptor is that of its own client.
LEMMA OwnTarget ==
  ASSUME TInv, DInv, NEW w \in Workers, Target(w) # NoConn, ~ readFailed
  PROVE  Target(w) = hold[w]
<1>1. hold[w] \in Conns /\ m_Sd[hold[w]] \in Fds /\ Target(w) = fdt[m_Sd[hold[w]]]
  BY TargetType
<1>2. Referenced(hold[w])
  BY DEF Referenced, Threads
<1> QED
  BY <1>1, <1>2 DEF DInv, DescriptorOwned, SocketAt

\* Sending puts a request into the client's own inbox.
LEMMA EInvClient == ASSUME TInv, EInv, NEW c \in Conns, Client(c) PROVE EInv'
<1>1. UNCHANGED <<m_WriteBuf, replied, readFailed>>
  BY DEF Client, ClientStep, Connect, Send, Finish, Reset, objs
<1>2. CASE Send(c)
  <2>1. <<c, sent[c] + 1>> \in From(c)
    BY DEF From, TInv, TypeOK
  <2>2. Append(inbox[c], <<c, sent[c] + 1>>) \in Seq(From(c))
    BY <2>1 DEF EInv, OwnInput
  <2>3. OwnInput'
    BY <1>2, <2>2 DEF Send, EInv, OwnInput, TInv, TypeOK
  <2> QED
    BY <1>1, <2>3 DEF EInv, OwnData
<1>3. CASE ~ Send(c)
  <2>1. inbox' = inbox
    BY <1>3 DEF Client, ClientStep, Connect, Finish, Reset
  <2> QED
    BY <1>1, <2>1 DEF EInv, OwnInput, OwnData
<1> QED
  BY <1>2, <1>3

\* A worker reads from and writes to its own client.
LEMMA EInvWorker == ASSUME TInv, DInv, EInv, NEW w \in Workers, Worker(w) PROVE EInv'
<1>0. TypeOK
  BY DEF TInv
<1>1. CASE Read(w) /\ ReadData(w)
  <2>1. Target(w) # NoConn
    BY <1>1 DEF ReadData, Takes
  <2>2. hold[w] \in Conns /\ Target(w) \in Conns
    BY <2>1, TargetType
  <2>3. PICK k \in 1 .. Len(inbox[Target(w)]) :
          /\ m_WriteBuf' = [m_WriteBuf EXCEPT ![hold[w]] = SubSeq(inbox[Target(w)], 1, k)]
          /\ inbox' = [inbox EXCEPT ![Target(w)] = SubSeq(@, k + 1, Len(@))]
    BY <1>1 DEF ReadData, Takes
  <2>4. inbox[Target(w)] \in Seq(From(Target(w)))
    BY <2>2 DEF EInv, OwnInput
  <2>5. /\ SubSeq(inbox[Target(w)], 1, k) \in Seq(From(Target(w)))
        /\ SubSeq(inbox[Target(w)], k + 1, Len(inbox[Target(w)])) \in Seq(From(Target(w)))
    BY <2>4
  <2>6. OwnInput'
    BY <1>0, <2>2, <2>3, <2>5 DEF EInv, OwnInput, TypeOK
  <2>7. UNCHANGED <<replied, readFailed>>
    BY <1>1 DEF ReadData, Takes
  <2>8. OwnData'
    <3> SUFFICES ASSUME ~ readFailed, NEW c \in Conns
                 PROVE  m_WriteBuf'[c] \in Seq(From(c)) /\ replied'[c] \in Seq(From(c))
      BY <2>7 DEF OwnData
    <3>1. Target(w) = hold[w]
      BY <2>1, OwnTarget
    <3>2. m_WriteBuf[c] \in Seq(From(c)) /\ replied[c] \in Seq(From(c))
      BY DEF EInv, OwnData
    <3> QED
      BY <1>0, <2>3, <2>5, <2>7, <3>1, <3>2 DEF TypeOK
  <2> QED
    BY <2>6, <2>8 DEF EInv
<1>2. CASE Write(w) /\ WriteReturns(w)
  <2>1. UNCHANGED <<inbox, m_WriteBuf, readFailed>>
    BY <1>2 DEF Write, objs
  <2>2. OwnData'
    <3> SUFFICES ASSUME ~ readFailed, NEW c \in Conns
                 PROVE  m_WriteBuf[c] \in Seq(From(c)) /\ replied'[c] \in Seq(From(c))
      BY <2>1 DEF OwnData
    <3>1. m_WriteBuf[c] \in Seq(From(c)) /\ replied[c] \in Seq(From(c))
      BY DEF EInv, OwnData
    <3>2. CASE Target(w) # NoConn /\ peer[Target(w)] # "rst"
      <4>1. Target(w) = hold[w] /\ hold[w] \in Conns
        BY <3>2, OwnTarget, TargetType
      <4>2. replied' = [replied EXCEPT ![hold[w]] = @ \o m_WriteBuf[hold[w]]]
        BY <1>2, <3>2, <4>1 DEF WriteReturns, WriteTo
      <4>3. CASE c = hold[w]
        <5>1. replied[c] \o m_WriteBuf[c] \in Seq(From(c))
          BY <3>1
        <5> QED
          BY <1>0, <3>1, <4>2, <4>3, <5>1 DEF TypeOK
      <4>4. CASE c # hold[w]
        BY <1>0, <3>1, <4>2, <4>4 DEF TypeOK
      <4> QED
        BY <4>3, <4>4
    <3> QED
      BY <1>2, <3>1, <3>2 DEF WriteReturns, WriteTo
  <2> QED
    BY <2>1, <2>2 DEF EInv, OwnInput
<1>3. CASE UNCHANGED <<inbox, m_WriteBuf, replied>> /\ (readFailed => readFailed')
  BY <1>3 DEF EInv, OwnInput, OwnData
<1>4. CASE Start(w) \/ Pop(w) \/ CloseAfterError(w)
  BY <1>3, <1>4 DEF Start, Pop, CloseAfterError, env, objs
<1>5. CASE Read(w)
  BY <1>1, <1>3, <1>5 DEF Read, ReadEof, ReadError, env
<1>6. CASE Write(w)
  BY <1>2, <1>3, <1>6 DEF Write, WriteSigpipe, objs
<1> QED
  BY <1>4, <1>5, <1>6 DEF Worker

\* Every step keeps the data of clients apart.
LEMMA EInvStep == TInv /\ DInv /\ EInv /\ [Next]_vars => EInv'
<1> SUFFICES ASSUME TInv, DInv, EInv, [Next]_vars PROVE EInv'
  OBVIOUS
<1>1. CASE UNCHANGED <<inbox, m_WriteBuf, replied, readFailed>>
  BY <1>1 DEF EInv, OwnInput, OwnData
<1>2. CASE Accept
  BY <1>1, <1>2 DEF Accept, AcceptOk, AcceptAs, AcceptFails, env, objs
<1>4. CASE Manager
  BY <1>1, <1>4 DEF Manager, env, objs
<1>5. CASE Crash \/ UNCHANGED vars
  BY <1>1, <1>5 DEF Crash, vars, env, objs
<1>3. ASSUME NEW t \in Threads, Async(t) \/ Release(t) PROVE EInv'
  BY <1>1, <1>3 DEF Async, Release, env, objs
<1> QED
  BY <1>2, <1>3, <1>4, <1>5, EInvClient, EInvWorker DEF Next

\* Until a read() fails, no client is ever sent data of another client.
THEOREM NoForeignEcho == Spec => []OwnEchoOnly
<1>1. TInv /\ EInv => OwnEchoOnly
  <2> SUFFICES ASSUME TInv, EInv, ~ readFailed, NEW c \in Conns, NEW i \in DOMAIN replied[c]
               PROVE  replied[c][i][1] = c
    BY DEF OwnEchoOnly
  <2>1. replied[c] \in Seq(From(c))
    BY DEF EInv, OwnData
  <2>2. replied[c][i] \in From(c)
    BY <2>1
  <2> QED
    BY <2>2 DEF From
<1> QED
  BY <1>1, TInvInit, TInvStep, DInvInit, DInvStep, EInvInit, EInvStep, PTL DEF Spec

(***************************************************************************)
(* One client.  With two, the assertion of deleteClient can fail and two   *)
(* workers can meet; with one they cannot, because the client has a single *)
(* event, which the threads pass on.                                       *)
(***************************************************************************)
\* There is one client, and a descriptor for it.
OneClient == (\A c, d \in Conns : c = d) /\ Fds # {}

\* A thread is at work on an event.
Busy(t) == tpc[t] \in {"io", "close", "append", "grow"}

\* While the manager is about to erase it, the first event of the vector is a copy
\* of the one it has queued.
Copies == IF mpc = "delete" THEN 1 ELSE 0

\* The event is at work in a thread or in one of the queues, or there is none.
OneEvent ==
  /\ \A t, u \in Threads : Busy(t) /\ Busy(u) => t = u
  /\ \A t \in Threads : Busy(t) => Len(have) = 0 /\ Len(want) = Copies
  /\ Len(have) \in {0, 1} /\ (Len(have) = 1 => Len(want) = Copies)
  /\ Len(want) \in {Copies, Copies + 1}

NoneBefore ==
  \A c \in Conns : link[c] # "accepted" =>
    Len(have) = 0 /\ Len(want) = 0 /\ \A t \in Threads : ~ Busy(t)

\* The manager is at the client's slot.
AtSlot == mpc \in {"poll", "wait", "delete"} \/ (mpc = "dispatch" /\ mi = 1)

\* The manager finds the client's event where its slot says it is, and drops it only
\* after a reset.
Round ==
  /\ mpc \in {"off", "idle", "poll", "wait", "delete", "cleanup"} => mi = 1
  /\ mpc = "dispatch" => mi \in {1, 2}
  /\ mpc = "wait" => mn = 1
  /\ AtSlot \/ mpc \in {"off", "idle"} => Len(gone) = 0
  /\ AtSlot => Len(want) # 0 /\ Len(fds) # 0 /\ \A c \in Conns : fds[1].fd = m_Sd[c]
  /\ Len(gone) # 0 => /\ Len(gone) = 1 /\ Len(want) # 0
                      /\ \A c \in Conns : gone[1] = m_Sd[c] /\ peer[c] = "rst"
  /\ mpc = "dispatch" /\ mi = 1 /\ fds[1].revents \in {"HUP", "NVAL"} =>
       \A c \in Conns : peer[c] = "rst"

\* Only a reset makes a read() fail.
FailsAfterReset == readFailed => \A c \in Conns : peer[c] = "rst"

\* No Connection is made of a failed accept().
OInv == OneEvent /\ NoneBefore /\ ~ Referenced(BadConn) /\ Round /\ FailsAfterReset

\* Nothing is under way initially.
LEMMA OInvInit == Init => OInv
<1> SUFFICES ASSUME Init PROVE OInv
  OBVIOUS
<1>1. /\ want = << >> /\ have = << >> /\ gone = << >> /\ mpc = "off" /\ mi = 1
      /\ readFailed = FALSE
  BY DEF Init
<1>2. Len(want) = 0 /\ Len(have) = 0 /\ Len(gone) = 0
  BY <1>1
<1>3. \A t \in Threads : ~ Busy(t) /\ hold[t] = NoConn
  BY DEF Init, Busy
<1>4. ~ Referenced(BadConn)
  BY <1>1, <1>3, ConnsAssumption DEF Referenced, Holds
<1>5. OneEvent /\ NoneBefore
  BY <1>1, <1>2, <1>3 DEF OneEvent, NoneBefore, Copies
<1>6. Round
  BY <1>1, <1>2 DEF Round, AtSlot
<1> QED
  BY <1>1, <1>4, <1>5, <1>6 DEF OInv, FailsAfterReset

\* Lengths of the queues.
LEMMA Lengths ==
  ASSUME TInv
  PROVE  /\ Len(want) \in Nat /\ (Len(want) = 0 <=> want = << >>)
         /\ Len(have) \in Nat /\ (Len(have) = 0 <=> have = << >>)
         /\ Len(fds) \in Nat /\ Len(gone) \in Nat /\ (Len(gone) = 0 <=> gone = << >>)
<1>1. /\ want \in Seq(Event) /\ have \in Seq(Event)
      /\ fds \in Seq(SlotType) /\ gone \in Seq(Fds \cup {-1})
  BY DEF TInv, TypeOK, SlotType
<1> QED
  BY <1>1

\* A step that leaves the queues and the manager alone and starts no work keeps the
\* event single.
LEMMA OInvFrame ==
  ASSUME OInv, UNCHANGED <<want, have, mpc, fds, mi, mn, gone, m_Sd>>,
         \A t \in Threads : Busy(t)' => Busy(t),
         \A t \in Threads : hold'[t] = BadConn => hold[t] = BadConn,
         \A c \in Conns : link'[c] # "accepted" => link[c] # "accepted",
         \A c \in Conns : peer[c] = "rst" => peer'[c] = "rst",
         FailsAfterReset'
  PROVE  OInv'
<1>1. OneEvent /\ NoneBefore /\ ~ Referenced(BadConn) /\ Round
  BY DEF OInv
<1>2. OneEvent'
  <2>1. Copies' = Copies
    BY DEF Copies
  <2> QED
    BY <1>1, <2>1 DEF OneEvent
<1>3. NoneBefore'
  BY <1>1 DEF NoneBefore
<1>4. ~ Referenced(BadConn)'
  BY <1>1 DEF Referenced, Holds
<1>5. Round'
  BY <1>1 DEF Round, AtSlot
<1> QED
  BY <1>2, <1>3, <1>4, <1>5 DEF OInv

\* A client's step keeps the event single.
LEMMA OInvClient == ASSUME TInv, OInv, NEW c \in Conns, Client(c) PROVE OInv'
<1>1. UNCHANGED <<want, have, mpc, fds, mi, mn, gone, m_Sd, tpc, hold, readFailed>>
  BY DEF Client, objs, wq, mgr, thr
<1>2. /\ \A d \in Conns : link'[d] # "accepted" => link[d] # "accepted"
      /\ \A d \in Conns : peer[d] = "rst" => peer'[d] = "rst"
  BY DEF Client, ClientStep, Connect, Send, Finish, Reset, TInv, TypeOK
<1>3. FailsAfterReset'
  BY <1>1, <1>2 DEF OInv, FailsAfterReset
<1> QED
  BY <1>1, <1>2, <1>3, OInvFrame DEF Busy

\* The client's event is made when it is accepted, and accept() does not fail.
LEMMA OInvAccept == ASSUME OneClient, TInv, DInv, OInv, Accept PROVE OInv'
<1>0. TypeOK /\ Acceptor \in Threads /\ tpc[Acceptor] = "accept"
  BY DEF TInv, Accept, Threads
<1>1. /\ UNCHANGED <<want, have, mpc, fds, mi, mn, gone, readFailed>>
      /\ tpc' = [tpc EXCEPT ![Acceptor] = "append"]
  BY DEF Accept, wq, mgr
<1>2. PICK c \in Conns : link[c] = "backlog"
  BY DEF Accept, AcceptOk, AcceptAs, AcceptFails, Pending
<1>3. Len(have) = 0 /\ Len(want) = 0 /\ \A t \in Threads : ~ Busy(t)
  BY <1>2 DEF OInv, NoneBefore
<1>4. mpc # "delete"
  BY <1>3 DEF OInv, OneEvent, Copies
<1>5. ~ AcceptFails
  <2> SUFFICES ASSUME NoFreeFd PROVE FALSE
    BY DEF AcceptFails
  <2>1. PICK f \in Fds : TRUE
    BY DEF OneClient
  <2>2. fdt[f] \in Conns
    BY <1>0, <2>1 DEF NoFreeFd, TypeOK
  <2>3. Referenced(fdt[f]) /\ fdt[f] = c
    BY <2>1, <2>2, <1>2 DEF DInv, NoDescriptorLeak, OneClient
  <2> QED
    BY <1>2, <2>3 DEF DInv, RefsAccepted
<1>6. PICK d \in Conns, s \in Fds :
        /\ link' = [link EXCEPT ![d] = "accepted"]
        /\ m_Sd' = [m_Sd EXCEPT ![d] = s]
        /\ hold' = [hold EXCEPT ![Acceptor] = d]
        /\ UNCHANGED <<peer, sent, inbox, replied>>
  BY <1>5 DEF Accept, AcceptOk, AcceptAs
<1>7. \A e \in Conns : link'[e] = "accepted"
  BY <1>0, <1>6 DEF OneClient, TypeOK
<1>8. \A t \in Threads : Busy(t)' => t = Acceptor
  BY <1>0, <1>1, <1>3 DEF TypeOK, Busy
<1>9. OneEvent'
  BY <1>1, <1>3, <1>4, <1>8 DEF OneEvent, Copies
<1>10. NoneBefore'
  BY <1>7 DEF NoneBefore
<1>11. ~ Referenced(BadConn)'
  <2>1. \A t \in Threads : hold'[t] # BadConn
    BY <1>0, <1>6, ConnsAssumption DEF OInv, Referenced, TypeOK
  <2> QED
    BY <1>1, <2>1 DEF OInv, Referenced, Holds
<1>12. Round'
  <2>1. ~ AtSlot /\ Len(gone) = 0
    BY <1>3 DEF OInv, Round
  <2>2. ~ AtSlot'
    BY <1>1, <2>1 DEF AtSlot
  <2> QED
    BY <1>1, <2>1, <2>2 DEF OInv, Round, AtSlot
<1>13. FailsAfterReset'
  BY <1>1, <1>6 DEF OInv, FailsAfterReset
<1> QED
  BY <1>9, <1>10, <1>11, <1>12, <1>13 DEF OInv

\* A thread passes the event on to the vector.
LEMMA OInvAsync == ASSUME TInv, OInv, NEW t \in Threads, Async(t) PROVE OInv'
<1>0. TypeOK /\ HoldsWhileBusy
  BY DEF TInv
<1>1. UNCHANGED <<have, mpc, fds, mi, mn, gone, m_Sd, hold, link, peer, readFailed>>
  BY DEF Async, env, objs, mgr
<1>2. FailsAfterReset'
  BY <1>1 DEF OInv, FailsAfterReset
<1>3. CASE GrowBegin(t)
  <2>1. want' = want /\ tpc[t] = "append" /\ tpc' = [tpc EXCEPT ![t] = "grow"]
    BY <1>3 DEF GrowBegin
  <2>2. \A u \in Threads : Busy(u)' => Busy(u)
    BY <1>0, <2>1 DEF Busy, TypeOK
  <2> QED
    BY <1>1, <1>2, <2>1, <2>2, OInvFrame
<1>4. CASE AppendInPlace(t) \/ GrowEnd(t)
  <2>1. Busy(t) /\ want' = Queued(t) /\ tpc' = [tpc EXCEPT ![t] = "release"]
    BY <1>4 DEF AppendInPlace, GrowEnd, Busy
  <2>2. \A u \in Threads : ~ Busy(u)'
    <3> SUFFICES ASSUME NEW u \in Threads, Busy(u)' PROVE FALSE
      OBVIOUS
    <3>1. u # t /\ Busy(u)
      BY <1>0, <2>1 DEF Busy, TypeOK
    <3> QED
      BY <2>1, <3>1 DEF OInv, OneEvent
  <2>3. hold[t] # NoConn /\ hold[t] # BadConn
    BY <1>0, <2>1 DEF OInv, Referenced, Busy, HoldsWhileBusy
  <2>4. [conn |-> hold[t], op |-> op[t]] \in Event
    BY <1>0, <2>3 DEF TypeOK, Event
  <2>5. want \in Seq(Event) /\ Len(want) \in Nat
    BY <1>0 DEF TypeOK
  <2>6. want' = Append(want, [conn |-> hold[t], op |-> op[t]])
    BY <2>1 DEF Queued
  <2>7. Len(want') = Len(want) + 1
    BY <2>4, <2>5, <2>6, AppendElements
  <2>8. Len(want) = Copies /\ Len(have) = 0 /\ Copies' = Copies /\ Copies \in Nat
    BY <1>1, <2>1 DEF OInv, OneEvent, Copies
  <2>9. OneEvent'
    BY <1>1, <2>2, <2>7, <2>8 DEF OneEvent
  <2>10. NoneBefore'
    BY <1>1, <2>1 DEF OInv, NoneBefore
  <2>11. ~ Referenced(BadConn)'
    <3>1. ~ Holds(want', BadConn)
      BY <2>3, <2>4, <2>5, <2>6, AppendRefs DEF OInv, Referenced
    <3> QED
      BY <1>1, <3>1 DEF OInv, Referenced, Holds
  <2>12. Round'
    <3>1. Len(want') # 0
      BY <2>5, <2>7
    <3> QED
      BY <1>1, <3>1 DEF OInv, Round, AtSlot
  <2> QED
    BY <1>2, <2>9, <2>10, <2>11, <2>12 DEF OInv
<1> QED
  BY <1>3, <1>4 DEF Async

\* The end of an event keeps the others.
LEMMA OInvRelease == ASSUME TInv, OInv, NEW t \in Threads, Release(t) PROVE OInv'
<1>1. UNCHANGED <<want, have, mpc, fds, mi, mn, gone, m_Sd, link, peer, readFailed>>
  BY DEF Release, env, objs, wq, mgr
<1>2. FailsAfterReset'
  BY <1>1 DEF OInv, FailsAfterReset
<1>3. \A u \in Threads : Busy(u)' => Busy(u)
  BY DEF Release, Busy, TInv, TypeOK
<1>4. \A u \in Threads : hold'[u] = BadConn => hold[u] = BadConn
  BY ConnsAssumption DEF Release, TInv, TypeOK
<1> QED
  BY <1>1, <1>2, <1>3, <1>4, OInvFrame

\* A worker takes the event and keeps it; its read() fails only after a reset.
LEMMA OInvWorker == ASSUME OneClient, TInv, DInv, OInv, NEW w \in Workers, Worker(w) PROVE OInv'
<1>0. TypeOK /\ HoldsWhileBusy /\ w \in Threads
  BY DEF TInv, Threads
<1>1. UNCHANGED <<want, fds, mi, mn, gone, m_Sd, link, peer>>
  BY DEF Worker, Start, Pop, Read, ReadData, ReadEof, ReadError, CloseAfterError, Write,
    env, objs, wq, mgr
<1>2. CASE Start(w)
  <2>1. UNCHANGED <<have, hold, readFailed>> /\ tpc' = [tpc EXCEPT ![w] = "pop"]
    BY <1>2 DEF Start
  <2>2. \A u \in Threads : Busy(u)' => Busy(u)
    BY <1>0, <2>1 DEF Busy, TypeOK
  <2>3. mpc' = mpc \/ (mpc = "off" /\ mpc' = "idle")
    BY <1>2 DEF Start
  <2>4. Copies' = Copies /\ (AtSlot' <=> AtSlot)
    BY <1>1, <2>3 DEF Copies, AtSlot
  <2>5. OneEvent'
    BY <1>1, <2>1, <2>2, <2>4 DEF OInv, OneEvent
  <2>6. NoneBefore'
    BY <1>1, <2>1, <2>2 DEF OInv, NoneBefore
  <2>7. ~ Referenced(BadConn)'
    BY <1>1, <2>1 DEF OInv, Referenced, Holds
  <2>8. Round'
    BY <1>1, <2>3, <2>4 DEF OInv, Round
  <2> QED
    BY <1>1, <2>1, <2>5, <2>6, <2>7, <2>8 DEF OInv, FailsAfterReset
<1>3. CASE Pop(w)
  <2>1. /\ have # << >> /\ have' = Tail(have)
        /\ hold' = [hold EXCEPT ![w] = Head(have).conn]
        /\ tpc' = [tpc EXCEPT ![w] = "io"]
        /\ UNCHANGED <<mpc, readFailed>>
    BY <1>3 DEF Pop, mgr
  <2>2. have \in Seq(Event) /\ Len(have) = 1 /\ Len(want) = Copies
    <3>1. Len(have) # 0
      BY <2>1, Lengths
    <3> QED
      BY <1>0, <3>1 DEF OInv, OneEvent, TypeOK
  <2>3. Len(have') = 0
    BY <2>1, <2>2, TailElements
  <2>4. \A u \in Threads : Busy(u)' => u = w
    <3>1. \A u \in Threads : ~ Busy(u)
      BY <2>2 DEF OInv, OneEvent
    <3> QED
      BY <1>0, <2>1, <3>1 DEF Busy, TypeOK
  <2>5. Copies' = Copies /\ (AtSlot' <=> AtSlot)
    BY <1>1, <2>1 DEF Copies, AtSlot
  <2>6. OneEvent'
    BY <1>1, <2>2, <2>3, <2>4, <2>5 DEF OInv, OneEvent
  <2>7. NoneBefore'
    BY <1>1, <2>2 DEF OInv, NoneBefore
  <2>8. ~ Referenced(BadConn)'
    <3>1. ~ Holds(have', BadConn) /\ Head(have).conn # BadConn
      BY <2>1, <2>2, TailRefs DEF OInv, Referenced
    <3>2. \A u \in Threads : hold'[u] # BadConn
      BY <1>0, <2>1, <3>1 DEF OInv, Referenced, TypeOK
    <3> QED
      BY <1>1, <3>1, <3>2 DEF OInv, Referenced, Holds
  <2>9. Round'
    BY <1>1, <2>1, <2>5 DEF OInv, Round
  <2> QED
    BY <1>1, <2>1, <2>6, <2>7, <2>8, <2>9 DEF OInv, FailsAfterReset
<1>4. CASE Read(w) \/ CloseAfterError(w) \/ Write(w)
  <2>1. UNCHANGED <<have, mpc, hold>>
    BY <1>4 DEF Read, CloseAfterError, Write, mgr
  <2>2. Busy(w) /\ \A u \in Threads : u # w => tpc'[u] = tpc[u]
    BY <1>0, <1>4 DEF Read, ReadData, ReadEof, ReadError, CloseAfterError, Write, WriteReturns,
      WriteSigpipe, Busy, TypeOK
  <2>3. \A u \in Threads : Busy(u)' => Busy(u)
    BY <2>2 DEF Busy
  <2>4. CASE readFailed' = readFailed
    <3>1. FailsAfterReset'
      BY <1>1, <2>4 DEF OInv, FailsAfterReset
    <3> QED
      BY <1>1, <2>1, <2>3, <3>1, OInvFrame
  <2>5. CASE ReadError(w) /\ ~ readFailed
    <3>1. hold[w] \in Conns
      BY <1>0, <2>2 DEF Busy, HoldsWhileBusy, TypeOK, OInv, Referenced
    <3>2. Target(w) = hold[w]
      <4>1. SocketAt(m_Sd[hold[w]]) = hold[w]
        BY <1>0, <2>5, <3>1 DEF DInv, DescriptorOwned, Referenced
      <4> QED
        BY <3>1, <4>1 DEF Target, SdOf
    <3>3. peer[hold[w]] = "rst"
      BY <2>5, <3>1, <3>2, SocketsAssumption DEF ReadError, AtReset
    <3>4. FailsAfterReset'
      BY <1>1, <3>1, <3>3 DEF OneClient, FailsAfterReset
    <3> QED
      BY <1>1, <2>1, <2>3, <3>4, OInvFrame
  <2>6. CASE ReadError(w) /\ readFailed
    <3>1. FailsAfterReset'
      BY <1>1, <2>6 DEF OInv, FailsAfterReset
    <3> QED
      BY <1>1, <2>1, <2>3, <3>1, OInvFrame
  <2>7. readFailed' = readFailed \/ ReadError(w)
    BY <1>4 DEF Read, ReadData, ReadEof, CloseAfterError, Write
  <2> QED
    BY <2>4, <2>5, <2>6, <2>7
<1> QED
  BY <1>2, <1>3, <1>4 DEF Worker

\* The events of the vector are the client's.
LEMMA WantedIsClient ==
  ASSUME TInv, OInv, Len(want) # 0
  PROVE  /\ want \in Seq(Event) /\ 1 \in DOMAIN want /\ want[1].conn \in Conns
         /\ SdOf(want[1].conn) = m_Sd[want[1].conn] /\ Referenced(want[1].conn)
<1>1. want \in Seq(Event) /\ 1 \in DOMAIN want
  BY DEF TInv, TypeOK
<1>2. want[1] \in Event
  BY <1>1
<1>3. want[1].conn # BadConn
  BY <1>1 DEF OInv, Referenced, Holds
<1> QED
  BY <1>1, <1>2, <1>3 DEF Event, SdOf, Referenced, Holds

\* deleteClient erases the client's event, the first one: its assertion holds.
LEMMA DeleteFirst ==
  ASSUME TInv, OInv, Len(want) # 0, NEW s, \A c \in Conns : s = m_Sd[c], deleteClient(s)
  PROVE  want' = RemoveAt(want, 1) /\ Len(want') = Len(want) - 1 /\ status' = status
<1>1. /\ want \in Seq(Event) /\ 1 \in DOMAIN want /\ DOMAIN want = 1 .. Len(want)
      /\ SdOf(want[1].conn) = s
  BY WantedIsClient
<1>2. Erase(s)
  BY <1>1 DEF deleteClient, AssertFails
<1>3. PICK k \in DOMAIN want : IsFirst(s, k) /\ want' = RemoveAt(want, k) /\ status' = status
  BY <1>2 DEF Erase
<1>4. k = 1
  <2>1. k \in Nat /\ 1 <= k
    BY <1>1, <1>3
  <2>2. 1 \notin 1 .. (k - 1)
    BY <1>1, <1>3 DEF IsFirst
  <2> QED
    BY <2>1, <2>2
<1> QED
  BY <1>1, <1>3, <1>4, RemoveElements

\* What poll() says of a client that is gone.
LEMMA GoneIsReset ==
  ASSUME OneClient, TInv, DInv, OInv, Len(want) # 0, NEW s,
         \A c \in Conns : s.fd = m_Sd[c], Revents(s) \in {"HUP", "NVAL"}
  PROVE  \A c \in Conns : peer[c] = "rst"
<1> DEFINE c == want[1].conn
<1>1. c \in Conns /\ Referenced(c) /\ s.fd = m_Sd[c]
  BY WantedIsClient
<1> HIDE DEF c
<1>2. s.fd \in Fds
  BY DEF Revents, PollEvents
<1>3. CASE readFailed
  BY <1>3 DEF OInv, FailsAfterReset
<1>4. CASE ~ readFailed
  <2>1. fdt[s.fd] = c
    BY <1>1, <1>2, <1>4 DEF DInv, DescriptorOwned, SocketAt
  <2>2. c # NoConn
    BY <1>1, SocketsAssumption
  <2>3. peer[c] = "rst"
    BY <1>2, <2>1, <2>2 DEF Revents, PollEvents
  <2> QED
    BY <1>1, <2>3 DEF OneClient
<1> QED
  BY <1>3, <1>4

\* A round of the manager keeps the event single, and no assertion fails.
LEMMA OInvManager ==
  ASSUME OneClient, TInv, DInv, OInv, AssertHolds, Manager PROVE OInv' /\ AssertHolds'
<1>0. TypeOK /\ OneEvent /\ NoneBefore /\ ~ Referenced(BadConn) /\ Round
  BY DEF TInv, OInv
<1>e. UNCHANGED <<link, peer, m_Sd, tpc, hold, readFailed>>
  BY DEF Manager, env, objs, thr
<1>f. FailsAfterReset'
  BY <1>e DEF OInv, FailsAfterReset
<1>b. \A t \in Threads : Busy(t)' <=> Busy(t)
  BY <1>e DEF Busy
<1>l. /\ Len(want) \in Nat /\ Len(have) \in Nat /\ Len(fds) \in Nat /\ Len(gone) \in Nat
      /\ want \in Seq(Event) /\ have \in Seq(Event) /\ gone \in Seq(Fds \cup {-1})
  BY <1>0, Lengths DEF TypeOK
<1>same. ASSUME want' = want, have' = have, Copies' = Copies
         PROVE  OneEvent' /\ NoneBefore' /\ ~ Referenced(BadConn)'
  <2>1. OneEvent'
    BY <1>0, <1>b, <1>same DEF OneEvent
  <2>2. NoneBefore'
    BY <1>0, <1>b, <1>e, <1>same DEF NoneBefore
  <2>3. ~ Referenced(BadConn)'
    BY <1>0, <1>e, <1>same DEF Referenced, Holds
  <2> QED
    BY <2>1, <2>2, <2>3
<1>1. CASE Fill
  <2>1. /\ mpc = "idle" /\ mpc' = "poll" /\ want # << >>
        /\ UNCHANGED <<status, want, have, mi, mn, gone>>
    BY <1>1 DEF Fill
  <2>2. Copies' = Copies
    BY <2>1 DEF Copies
  <2>3. Len(want) # 0 /\ mi = 1 /\ Len(gone) = 0
    BY <1>0, <1>l, <2>1, Lengths DEF Round
  <2>4. Len(fds') # 0 /\ fds'[1].fd = SdOf(want[1].conn)
    <3>1. PICK n \in Nat :
            /\ n # 0
            /\ fds' = [i \in 1 .. n |->
                         IF i <= Len(want)
                         THEN [fd |-> SdOf(want[i].conn), events |-> want[i].op, revents |-> "0"]
                         ELSE fds[i]]
      BY <1>1, <1>l, <2>3 DEF Fill
    <3>2. 1 \in 1 .. n /\ 1 <= Len(want) /\ DOMAIN fds' = 1 .. n
      BY <1>l, <2>3, <3>1
    <3>3. fds'[1] = [fd |-> SdOf(want[1].conn), events |-> want[1].op, revents |-> "0"]
      BY <3>1, <3>2
    <3>4. Len(fds') = n
      BY <3>1, <3>2
    <3> QED
      BY <3>1, <3>3, <3>4
  <2>5. \A c \in Conns : fds'[1].fd = m_Sd[c]
    BY <2>3, <2>4, WantedIsClient DEF OneClient
  <2>6. Round'
    BY <1>0, <1>e, <2>1, <2>3, <2>4, <2>5 DEF Round, AtSlot
  <2> QED
    BY <1>f, <1>same, <2>1, <2>2, <2>6 DEF OInv, AssertHolds
<1>2. CASE PollCall
  <2>1. /\ mpc = "poll" /\ mpc' = "wait" /\ mn' = Len(want)
        /\ UNCHANGED <<status, want, have, fds, mi, gone>>
    BY <1>2 DEF PollCall
  <2>2. Copies = 0 /\ Copies' = Copies /\ AtSlot /\ AtSlot'
    BY <2>1 DEF Copies, AtSlot
  <2>3. Len(want) = 1
    BY <1>0, <2>2 DEF Round, OneEvent
  <2>4. Round'
    BY <1>0, <1>e, <2>1, <2>2, <2>3 DEF Round
  <2> QED
    BY <1>f, <1>same, <2>1, <2>2, <2>4 DEF OInv, AssertHolds
<1>3. CASE PollReturn
  <2>1. /\ mpc = "wait" /\ mpc' \in {"idle", "dispatch"}
        /\ UNCHANGED <<status, want, have, mi, gone>>
    BY <1>3 DEF PollReturn
  <2>2. Copies' = Copies /\ AtSlot
    BY <2>1 DEF Copies, AtSlot
  <2>3. /\ mi = 1 /\ mn = 1 /\ Len(gone) = 0 /\ Len(want) # 0 /\ Len(fds) # 0
        /\ \A c \in Conns : fds[1].fd = m_Sd[c]
    BY <1>0, <2>1, <2>2 DEF Round
  <2>4. /\ Len(fds') = Len(fds) /\ fds'[1].fd = fds[1].fd
        /\ fds'[1].revents = Revents(fds[1])
    <3>1. fds \in Seq(SlotType) /\ DOMAIN fds = 1 .. Len(fds) /\ 1 \in DOMAIN fds
      BY <1>0, <1>l, <2>3 DEF TypeOK, SlotType
    <3>2. fds[1] \in SlotType
      BY <3>1
    <3>3. DOMAIN fds' = 1 .. Len(fds) /\ fds'[1] = [fds[1] EXCEPT !.revents = Revents(fds[1])]
      BY <1>3, <2>3, <3>1 DEF PollReturn
    <3>4. fds' \in Seq(SlotType)
      BY TInvManager DEF TInv, TypeOK, SlotType
    <3> QED
      BY <1>l, <3>2, <3>3, <3>4 DEF SlotType
  <2>5. fds'[1].revents \in {"HUP", "NVAL"} => \A c \in Conns : peer[c] = "rst"
    BY <2>3, <2>4, GoneIsReset
  <2>6. Round'
    BY <1>e, <2>1, <2>3, <2>4, <2>5 DEF Round, AtSlot
  <2> QED
    BY <1>f, <1>same, <2>1, <2>2, <2>6 DEF OInv, AssertHolds
<1>4. CASE PollError
  <2>1. /\ mpc = "wait" /\ mpc' = "exited" /\ UNCHANGED <<status, want, have, gone>>
    BY <1>4 DEF PollError
  <2>2. Copies' = Copies
    BY <2>1 DEF Copies
  <2>3. Round'
    BY <1>0, <1>e, <2>1 DEF Round, AtSlot
  <2>4. status' = status /\ have' = have /\ want' = want
    BY <2>1
  <2> QED
    BY <1>f, <1>same, <2>2, <2>3, <2>4 DEF OInv, AssertHolds
<1>d. ASSUME mpc = "dispatch", mi <= Len(want)
      PROVE  /\ mi = 1 /\ AtSlot /\ Copies = 0 /\ Len(want) = 1 /\ Len(gone) = 0 /\ Len(fds) # 0
             /\ Slot(mi) = fds[1] /\ \A c \in Conns : fds[1].fd = m_Sd[c]
  <2>1. Copies = 0 /\ Len(want) \in {0, 1} /\ mi \in {1, 2}
    <3>1. Copies = 0
      BY <1>d DEF Copies
    <3>2. mi \in {1, 2}
      BY <1>0, <1>d DEF Round
    <3>3. Len(want) \in {Copies, Copies + 1}
      BY <1>0 DEF OneEvent
    <3> QED
      BY <3>1, <3>2, <3>3
  <2>2. mi = 1 /\ AtSlot
    <3>1. mi = 1
      BY <1>d, <2>1
    <3> QED
      BY <1>d, <3>1 DEF AtSlot
  <2>3. /\ Len(gone) = 0 /\ Len(want) # 0 /\ Len(fds) # 0
        /\ \A c \in Conns : fds[1].fd = m_Sd[c]
    BY <1>0, <2>2 DEF Round
  <2>4. Slot(mi) = fds[1]
    BY <1>l, <2>2, <2>3 DEF Slot
  <2> QED
    BY <2>1, <2>2, <2>3, <2>4
<1>5. CASE DispatchSkip
  <2>1. /\ mpc = "dispatch" /\ mi <= Len(want) /\ mi' = mi + 1
        /\ UNCHANGED <<status, want, have, mpc, fds, mn, gone>>
    BY <1>5 DEF DispatchSkip
  <2>2. Copies' = Copies /\ mi' = 2 /\ ~ AtSlot' /\ Len(gone) = 0
    BY <1>d, <2>1 DEF Copies, AtSlot
  <2>3. Round'
    BY <1>e, <2>1, <2>2 DEF Round
  <2> QED
    BY <1>f, <1>same, <2>1, <2>2, <2>3 DEF OInv, AssertHolds
<1>6. CASE DispatchGone
  <2>1. /\ mpc = "dispatch" /\ mi <= Len(want) /\ mi' = mi + 1
        /\ Slot(mi).revents \in {"HUP", "NVAL"} /\ gone' = Append(gone, Slot(mi).fd)
        /\ UNCHANGED <<status, want, have, mpc, fds, mn>>
    BY <1>6 DEF DispatchGone
  <2>2. /\ mi = 1 /\ Len(want) = 1 /\ Len(gone) = 0 /\ Slot(mi) = fds[1]
        /\ \A c \in Conns : fds[1].fd = m_Sd[c]
    BY <1>d, <2>1
  <2>3. Copies' = Copies /\ mi' = 2 /\ ~ AtSlot'
    BY <2>1, <2>2 DEF Copies, AtSlot
  <2>4. \A c \in Conns : peer[c] = "rst"
    BY <1>0, <2>1, <2>2 DEF Round
  <2>5. Len(gone') = 1 /\ gone'[1] = fds[1].fd
    BY <1>l, <2>1, <2>2
  <2>6. Round'
    BY <1>e, <2>1, <2>2, <2>3, <2>4, <2>5 DEF Round
  <2> QED
    BY <1>f, <1>same, <2>1, <2>3, <2>6 DEF OInv, AssertHolds
<1>7. CASE DispatchPush
  <2>1. /\ mpc = "dispatch" /\ mi <= Len(want) /\ mpc' = "delete" /\ have' = Append(have, want[mi])
        /\ UNCHANGED <<status, want, fds, mi, mn, gone>>
    BY <1>7 DEF DispatchPush
  <2>2. /\ mi = 1 /\ Copies = 0 /\ Len(want) = 1 /\ Len(gone) = 0 /\ Len(fds) # 0
        /\ \A c \in Conns : fds[1].fd = m_Sd[c]
    BY <1>d, <2>1
  <2>3. Len(have) = 0 /\ \A t \in Threads : ~ Busy(t)
    BY <1>0, <2>2 DEF OneEvent
  <2>4. want[1] \in Event /\ want[1].conn # BadConn
    <3>1. 1 \in DOMAIN want /\ want[1].conn \in Conns
      BY <2>2, WantedIsClient
    <3>2. want[1] \in Event
      BY <1>l, <3>1
    <3> QED
      BY <3>1, <3>2, ConnsAssumption
  <2>5. Len(have') = 1 /\ ~ Holds(have', BadConn)
    <3>1. have' = Append(have, want[1]) /\ ~ Holds(have, BadConn)
      BY <1>0, <2>1, <2>2 DEF Referenced
    <3>2. Len(have') = Len(have) + 1
      BY <1>l, <2>4, <3>1, AppendElements
    <3>3. ~ Holds(have', BadConn)
      BY <1>l, <2>4, <3>1, AppendRefs
    <3> QED
      BY <2>3, <3>2, <3>3
  <2>6. Copies' = 1 /\ AtSlot'
    BY <2>1 DEF Copies, AtSlot
  <2>7. OneEvent'
    BY <1>b, <2>1, <2>2, <2>3, <2>5, <2>6 DEF OneEvent
  <2>8. NoneBefore'
    BY <1>0, <1>e, <2>2 DEF NoneBefore
  <2>9. ~ Referenced(BadConn)'
    BY <1>0, <1>e, <2>1, <2>5 DEF Referenced, Holds
  <2>10. Round'
    BY <1>e, <2>1, <2>2, <2>6 DEF Round
  <2> QED
    BY <1>f, <2>1, <2>7, <2>8, <2>9, <2>10 DEF OInv, AssertHolds
<1>8. CASE DispatchEnd
  <2>1. /\ mpc = "dispatch" /\ mi > Len(want) /\ mi' = 1 /\ mpc' = "cleanup"
        /\ UNCHANGED <<status, want, have, fds, mn, gone>>
    BY <1>8 DEF DispatchEnd
  <2>2. Copies' = Copies /\ ~ AtSlot'
    BY <2>1 DEF Copies, AtSlot
  <2>3. Round'
    BY <1>0, <1>e, <2>1, <2>2 DEF Round
  <2> QED
    BY <1>f, <1>same, <2>1, <2>2, <2>3 DEF OInv, AssertHolds
<1>r. ASSUME NEW s, Len(want) # 0, \A c \in Conns : s = m_Sd[c], deleteClient(s)
      PROVE  Len(want') = Len(want) - 1 /\ ~ Holds(want', BadConn) /\ status' = status
  <2>1. want' = RemoveAt(want, 1) /\ Len(want') = Len(want) - 1 /\ status' = status
    BY <1>r, DeleteFirst
  <2>2. 1 \in DOMAIN want
    BY <1>r, WantedIsClient
  <2> QED
    BY <1>0, <1>l, <2>1, <2>2, RemoveRefs DEF Referenced
<1>9. CASE DispatchDelete
  <2>1. /\ mpc = "delete" /\ deleteClient(Slot(mi).fd) /\ mi' = mi + 1 /\ mpc' = "dispatch"
        /\ UNCHANGED <<have, fds, mn, gone>>
    BY <1>9 DEF DispatchDelete
  <2>2. Copies = 1 /\ Copies' = 0 /\ AtSlot
    BY <2>1 DEF Copies, AtSlot
  <2>3. /\ mi = 1 /\ Len(want) # 0 /\ Len(gone) = 0 /\ Len(fds) # 0
        /\ \A c \in Conns : fds[1].fd = m_Sd[c]
    BY <1>0, <2>1, <2>2 DEF Round
  <2>4. Slot(mi) = fds[1]
    BY <1>l, <2>3 DEF Slot
  <2>5. Len(want') = Len(want) - 1 /\ ~ Holds(want', BadConn) /\ status' = status
    BY <1>r, <2>1, <2>3, <2>4
  <2>6. OneEvent'
    BY <1>0, <1>b, <1>l, <2>1, <2>2, <2>5 DEF OneEvent
  <2>7. NoneBefore'
    BY <1>0, <1>e, <2>3 DEF NoneBefore
  <2>8. ~ Referenced(BadConn)'
    BY <1>0, <1>e, <2>1, <2>5 DEF Referenced, Holds
  <2>9. Round'
    <3>1. mi' = 2 /\ ~ AtSlot'
      BY <2>1, <2>3 DEF AtSlot
    <3> QED
      BY <2>1, <2>3, <3>1 DEF Round
  <2> QED
    BY <1>f, <2>5, <2>6, <2>7, <2>8, <2>9 DEF OInv, AssertHolds
<1>10. CASE Cleanup
  <2>1. /\ mpc = "cleanup" /\ gone # << >> /\ deleteClient(Head(gone)) /\ gone' = Tail(gone)
        /\ UNCHANGED <<have, mpc, fds, mi, mn>>
    BY <1>10 DEF Cleanup
  <2>2. Copies = 0 /\ Copies' = 0 /\ ~ AtSlot'
    BY <2>1 DEF Copies, AtSlot
  <2>3. Len(gone) # 0
    BY <2>1, Lengths
  <2>4. Len(gone) = 1 /\ Len(want) # 0 /\ \A c \in Conns : gone[1] = m_Sd[c]
    BY <1>0, <2>3 DEF Round
  <2>5. Head(gone) = gone[1] /\ Len(gone') = 0
    BY <1>l, <2>1, <2>4
  <2>6. Len(want') = Len(want) - 1 /\ ~ Holds(want', BadConn) /\ status' = status
    BY <1>r, <2>1, <2>4, <2>5
  <2>7. OneEvent'
    BY <1>0, <1>b, <1>l, <2>1, <2>2, <2>4, <2>6 DEF OneEvent
  <2>8. NoneBefore'
    BY <1>0, <1>e, <2>4 DEF NoneBefore
  <2>9. ~ Referenced(BadConn)'
    BY <1>0, <1>e, <2>1, <2>6 DEF Referenced, Holds
  <2>10. Round'
    BY <1>0, <2>1, <2>2, <2>5 DEF Round
  <2> QED
    BY <1>f, <2>6, <2>7, <2>8, <2>9, <2>10 DEF OInv, AssertHolds
<1>11. CASE CleanupEnd
  <2>1. /\ mpc = "cleanup" /\ gone = << >> /\ mpc' = "idle"
        /\ UNCHANGED <<status, want, have, fds, mi, mn, gone>>
    BY <1>11 DEF CleanupEnd
  <2>2. Copies' = Copies /\ ~ AtSlot' /\ Len(gone) = 0
    BY <2>1, Lengths DEF Copies, AtSlot
  <2>3. Round'
    BY <1>0, <2>1, <2>2 DEF Round
  <2> QED
    BY <1>f, <1>same, <2>1, <2>2, <2>3 DEF OInv, AssertHolds
<1> QED
  BY <1>1, <1>2, <1>3, <1>4, <1>5, <1>6, <1>7, <1>8, <1>9, <1>10, <1>11 DEF Manager

\* Every step keeps the event single and the assertion true.
LEMMA OInvStep ==
  OneClient /\ TInv /\ DInv /\ OInv /\ AssertHolds /\ [Next]_vars => OInv' /\ AssertHolds'
<1> SUFFICES ASSUME OneClient, TInv, DInv, OInv, AssertHolds, [Next]_vars
             PROVE  OInv' /\ AssertHolds'
  OBVIOUS
<1>1. CASE Crash \/ UNCHANGED vars
  <2>1. /\ UNCHANGED <<want, have, mpc, fds, mi, mn, gone, m_Sd, tpc, hold, link, peer, readFailed>>
        /\ (status' = "crashed" \/ status' = status)
    BY <1>1 DEF Crash, vars, env, objs, wq, mgr, thr
  <2>2. FailsAfterReset'
    BY <2>1 DEF OInv, FailsAfterReset
  <2>3. OInv'
    BY <2>1, <2>2, OInvFrame DEF Busy
  <2> QED
    BY <2>1, <2>3 DEF AssertHolds
<1>2. CASE Manager
  BY <1>2, OInvManager
<1>3. ASSUME NEW c \in Conns, Client(c) PROVE OInv' /\ AssertHolds'
  <2>1. status' = status
    BY <1>3 DEF Client
  <2> QED
    BY <1>3, <2>1, OInvClient DEF AssertHolds
<1>4. CASE Accept
  <2>1. status' = status
    BY <1>4 DEF Accept
  <2> QED
    BY <1>4, <2>1, OInvAccept DEF AssertHolds
<1>5. ASSUME NEW t \in Threads, Async(t) \/ Release(t) PROVE OInv' /\ AssertHolds'
  <2>1. status' = status
    BY <1>5 DEF Async, Release
  <2> QED
    BY <1>5, <2>1, OInvAsync, OInvRelease DEF AssertHolds
<1>6. ASSUME NEW w \in Workers, Worker(w) PROVE OInv' /\ AssertHolds'
  <2>1. status' = status \/ status' = "sigpipe"
    BY <1>6 DEF Worker, Start, Pop, Read, CloseAfterError, Write, WriteReturns, WriteSigpipe
  <2> QED
    BY <1>6, <2>1, OInvWorker DEF AssertHolds
<1> QED
  BY <1>1, <1>2, <1>3, <1>4, <1>5, <1>6 DEF Next

\* With one client, however many workers there are and whatever is sent, deleteClient
\* always finds the descriptor it is to erase.
THEOREM AssertionHolds == OneClient /\ Spec => []AssertHolds
<1>1. Init => AssertHolds
  BY DEF Init, AssertHolds
<1>2. OneClient => OneClient'
  BY DEF OneClient
<1> QED
  BY <1>1, <1>2, TInvInit, TInvStep, DInvInit, DInvStep, OInvInit, OInvStep, PTL DEF Spec

\* With one client, no two workers ever use the buffers of its Connection.
THEOREM WorkersDoNotMeet == OneClient /\ Spec => []OneWorkerPerConnection
<1>1. Init => AssertHolds
  BY DEF Init, AssertHolds
<1>2. OneClient => OneClient'
  BY DEF OneClient
<1>3. OInv => OneWorkerPerConnection
  BY DEF OInv, OneEvent, OneWorkerPerConnection, BufferRace, Busy, Threads
<1> QED
  BY <1>1, <1>2, <1>3, TInvInit, TInvStep, DInvInit, DInvStep, OInvInit, OInvStep, PTL DEF Spec

\* What was read is to be written.
Writing ==
  \/ \E t \in Threads : Busy(t) /\ op[t] = "W"
  \/ \E i \in DOMAIN have : have[i].op = "W"
  \/ \E i \in DOMAIN want : i > Copies /\ want[i].op = "W"

\* s lists the requests of c from the one after the n-th on.
Follows(s, c, n) == \A i \in DOMAIN s : s[i] = <<c, n + i>>

\* What was read and not written yet.
Unsent(c) == IF Writing THEN m_WriteBuf[c] ELSE << >>

\* Until a reset, what was echoed, what will be and what was not read yet are the
\* requests sent, in that order.
InOrder(c) ==
  LET n == Len(replied[c])  b == Unsent(c) IN
  peer[c] # "rst" =>
    /\ Follows(b, c, n) /\ Follows(inbox[c], c, n + Len(b))
    /\ sent[c] = n + Len(b) + Len(inbox[c])

Ordered == \A c \in Conns : Follows(replied[c], c, 0) /\ InOrder(c)

\* Requests in order stay so when one is appended, when some are taken and when more
\* follow.
LEMMA FollowsMore ==
  ASSUME NEW s \in Seq(Request), NEW c \in Conns, NEW n \in Nat, Follows(s, c, n)
  PROVE  Follows(Append(s, <<c, n + Len(s) + 1>>), c, n)
<1> DEFINE x == <<c, n + Len(s) + 1>>
<1>1. Len(s) \in Nat /\ DOMAIN s = 1 .. Len(s) /\ x \in Request
  OBVIOUS
<1> HIDE DEF x
<1>2. \A i \in DOMAIN Append(s, x) : \/ i \in DOMAIN s /\ Append(s, x)[i] = s[i]
                                     \/ i = Len(s) + 1 /\ Append(s, x)[i] = x
  BY <1>1, AppendElements
<1>3. ASSUME NEW i \in DOMAIN Append(s, x) PROVE Append(s, x)[i] = <<c, n + i>>
  <2>1. CASE i \in DOMAIN s /\ Append(s, x)[i] = s[i]
    BY <2>1 DEF Follows
  <2>2. CASE i = Len(s) + 1 /\ Append(s, x)[i] = x
    <3>1. n + i = n + Len(s) + 1
      BY <1>1, <2>2
    <3> QED
      BY <2>2, <3>1 DEF x
  <2> QED
    BY <1>2, <2>1, <2>2
<1> QED
  BY <1>3 DEF Follows, x

\* Both parts of a run of a client's requests, cut anywhere, are runs again:
\* what one read() takes and what it leaves.
LEMMA FollowsCut ==
  ASSUME NEW s \in Seq(Request), NEW c, NEW n \in Nat, Follows(s, c, n), NEW k \in 1 .. Len(s)
  PROVE  /\ SubSeq(s, 1, k) \in Seq(Request) /\ Len(SubSeq(s, 1, k)) = k
         /\ SubSeq(s, k + 1, Len(s)) \in Seq(Request) /\ Len(SubSeq(s, k + 1, Len(s))) = Len(s) - k
         /\ Follows(SubSeq(s, 1, k), c, n) /\ Follows(SubSeq(s, k + 1, Len(s)), c, n + k)
<1> DEFINE a == SubSeq(s, 1, k)
           b == SubSeq(s, k + 1, Len(s))
           l == Len(s)
<1>1. l \in Nat /\ DOMAIN s = 1 .. l /\ k \in 1 .. l
  OBVIOUS
<1>2. /\ a \in Seq(Request) /\ Len(a) = k /\ DOMAIN a = 1 .. k
      /\ \A i \in 1 .. k : a[i] = s[i]
  BY <1>1
<1>3. /\ b \in Seq(Request) /\ Len(b) = l - k /\ DOMAIN b = 1 .. (l - k)
      /\ \A i \in 1 .. (l - k) : b[i] = s[k + i]
  <2>1. k + 1 \in 1 .. (Len(s) + 1) /\ Len(s) \in (k + 1) - 1 .. Len(s)
    BY <1>1
  <2>2. /\ b \in Seq(Request) /\ Len(b) = Len(s) - (k + 1) + 1
        /\ \A i \in 1 .. (Len(s) - (k + 1) + 1) : b[i] = s[(k + 1) + i - 1]
    BY <2>1, SubSeqProperties
  <2> HIDE DEF b
  <2>3. Len(s) - (k + 1) + 1 = l - k /\ \A i \in 1 .. (l - k) : (k + 1) + i - 1 = k + i
    BY <1>1
  <2>4. b \in Seq(Request) /\ Len(b) = l - k
    BY <2>2, <2>3
  <2>5. \A i \in 1 .. (l - k) : b[i] = s[(k + 1) + i - 1]
    BY <2>2, <2>3
  <2> HIDE DEF l
  <2>6. \A i \in 1 .. (l - k) : b[i] = s[k + i]
    BY <2>3, <2>5
  <2>7. DOMAIN b = 1 .. (l - k)
    BY <2>4
  <2> QED
    BY <2>4, <2>6, <2>7
<1>4. \A i \in 1 .. l : s[i] = <<c, n + i>>
  BY <1>1 DEF Follows
<1> HIDE DEF a, b, l
<1>5. Follows(a, c, n)
  BY <1>1, <1>2, <1>4 DEF Follows
<1>6. Follows(b, c, n + k)
  <2> SUFFICES ASSUME NEW i \in 1 .. (l - k) PROVE b[i] = <<c, n + k + i>>
    BY <1>3 DEF Follows
  <2>1. k + i \in 1 .. l /\ n + (k + i) = n + k + i
    BY <1>1
  <2> QED
    BY <1>3, <1>4, <2>1
<1> QED
  BY <1>2, <1>3, <1>5, <1>6 DEF a, b, l

\* A run followed by the run that starts where it ends is one run: a write()
\* after the earlier ones.
LEMMA FollowsOn ==
  ASSUME NEW a \in Seq(Request), NEW b \in Seq(Request), NEW c,
         Follows(a, c, 0), Follows(b, c, Len(a))
  PROVE  Follows(a \o b, c, 0) /\ Len(a \o b) = Len(a) + Len(b)
<1> DEFINE m == Len(a)
           l == Len(b)
           s == a \o b
<1>1. m \in Nat /\ l \in Nat /\ DOMAIN a = 1 .. m /\ DOMAIN b = 1 .. l
  OBVIOUS
<1>2. /\ s \in Seq(Request) /\ Len(s) = m + l /\ DOMAIN s = 1 .. (m + l)
      /\ \A i \in 1 .. (m + l) : s[i] = IF i <= m THEN a[i] ELSE b[i - m]
  BY ConcatProperties
<1>3. /\ \A i \in 1 .. m : a[i] = <<c, 0 + i>>
      /\ \A i \in 1 .. l : b[i] = <<c, m + i>>
  BY <1>1 DEF Follows
<1> HIDE DEF m, l, s
<1>4. ASSUME NEW i \in 1 .. (m + l) PROVE s[i] = <<c, 0 + i>>
  <2>1. CASE i <= m
    BY <1>1, <1>2, <1>3, <2>1
  <2>2. CASE ~ (i <= m)
    <3>1. i - m \in 1 .. l /\ m + (i - m) = 0 + i
      BY <1>1, <2>2
    <3> QED
      BY <1>2, <1>3, <2>2, <3>1
  <2> QED
    BY <2>1, <2>2
<1> QED
  BY <1>2, <1>4 DEF Follows, m, l, s

\* Nothing has been sent initially.
LEMMA OrderedInit == Init => Ordered
<1> SUFFICES ASSUME Init, NEW c \in Conns PROVE Follows(replied[c], c, 0) /\ InOrder(c)
  BY DEF Ordered
<1>1. replied[c] = << >> /\ inbox[c] = << >> /\ sent[c] = 0 /\ m_WriteBuf[c] = << >>
  BY DEF Init
<1>2. Unsent(c) = << >> /\ Len(<< >>) = 0
  BY <1>1 DEF Unsent
<1>3. \A n : Follows(<< >>, c, n)
  BY DEF Follows
<1> QED
  BY <1>1, <1>2, <1>3 DEF InOrder

\* A step that touches no buffer and, short of a reset, passes on what was read.
LEMMA OrderedFrame ==
  ASSUME Ordered, UNCHANGED <<replied, inbox, sent, m_WriteBuf>>,
         \A c \in Conns : peer[c] = "rst" => peer'[c] = "rst",
         \A c \in Conns : peer'[c] # "rst" => (Writing' <=> Writing)
  PROVE  Ordered'
<1> SUFFICES ASSUME NEW c \in Conns PROVE Follows(replied'[c], c, 0) /\ InOrder(c)'
  BY DEF Ordered
<1>1. Follows(replied[c], c, 0) /\ InOrder(c)
  BY DEF Ordered
<1>2. CASE peer'[c] = "rst"
  BY <1>1, <1>2 DEF InOrder
<1>3. CASE peer'[c] # "rst"
  <2>1. peer[c] # "rst" /\ Unsent(c)' = Unsent(c)
    BY <1>3 DEF Unsent
  <2> QED
    BY <1>1, <1>3, <2>1 DEF InOrder
<1> QED
  BY <1>2, <1>3

\* Sending appends to what was not read.
LEMMA OrderedClient == ASSUME OneClient, TInv, Ordered, NEW c \in Conns, Client(c) PROVE Ordered'
<1>0. TypeOK
  BY DEF TInv
<1>1. UNCHANGED <<want, have, mpc, tpc, op, m_WriteBuf, replied>>
  BY DEF Client, ClientStep, Connect, Send, Finish, Reset, objs, wq, mgr, thr
<1>2. Writing' <=> Writing
  BY <1>1 DEF Writing, Busy, Copies
<1>3. \A d \in Conns : peer[d] = "rst" => peer'[d] = "rst"
  BY <1>0 DEF Client, ClientStep, Connect, Send, Finish, Reset, TypeOK
<1>4. CASE Send(c)
  <2> SUFFICES ASSUME NEW d \in Conns PROVE Follows(replied'[d], d, 0) /\ InOrder(d)'
    BY DEF Ordered
  <2>1. d = c /\ peer' = peer
    BY <1>4 DEF OneClient, Send
  <2>2. Follows(replied[c], c, 0) /\ InOrder(c)
    BY DEF Ordered
  <2>3. CASE peer[c] = "rst"
    BY <1>1, <2>1, <2>2, <2>3 DEF InOrder
  <2>4. CASE peer[c] # "rst"
    <3> DEFINE n == Len(replied[c])
               b == Unsent(c)
    <3>1. /\ Follows(b, c, n) /\ Follows(inbox[c], c, n + Len(b))
          /\ sent[c] = n + Len(b) + Len(inbox[c])
      BY <2>2, <2>4 DEF InOrder
    <3>2. /\ inbox[c] \in Seq(Request) /\ Len(inbox[c]) \in Nat /\ n \in Nat /\ Len(b) \in Nat
          /\ sent[c] \in Nat
      BY <1>0 DEF TypeOK, Unsent
    <3>3. sent'[c] = sent[c] + 1 /\ inbox'[c] = Append(inbox[c], <<c, sent[c] + 1>>)
      BY <1>0, <1>4 DEF Send, TypeOK
    <3>4. Unsent(c)' = b /\ Len(replied'[c]) = n
      BY <1>1, <1>2 DEF Unsent
    <3> HIDE DEF n, b
    <3>5. Follows(inbox'[c], c, n + Len(b))
      <4>1. n + Len(b) \in Nat
        BY <3>2
      <4> QED
        BY <3>1, <3>2, <3>3, <4>1, FollowsMore
    <3>6. Len(inbox'[c]) = Len(inbox[c]) + 1
      <4>1. <<c, sent[c] + 1>> \in Request
        BY <3>2
      <4> QED
        BY <3>2, <3>3, <4>1, AppendElements
    <3>7. sent'[c] = n + Len(b) + Len(inbox'[c])
      BY <3>1, <3>2, <3>3, <3>6
    <3> QED
      BY <1>1, <2>1, <2>2, <3>1, <3>4, <3>5, <3>7 DEF InOrder
  <2> QED
    BY <2>3, <2>4
<1>5. CASE ~ Send(c)
  <2>1. UNCHANGED <<inbox, sent>>
    BY <1>5 DEF Client, ClientStep, Connect, Finish, Reset
  <2> QED
    BY <1>1, <1>2, <1>3, <2>1, OrderedFrame
<1> QED
  BY <1>4, <1>5

\* The event of a busy thread is the only one.
LEMMA OnlyBusy ==
  ASSUME TInv, OInv, NEW t \in Threads, Busy(t)
  PROVE  Writing <=> op[t] = "W"
<1>1. /\ \A u \in Threads : Busy(u) => u = t
      /\ Len(have) = 0 /\ Len(want) = Copies
  BY DEF OInv, OneEvent
<1>2. have = << >> /\ DOMAIN have = {}
  BY <1>1, Lengths
<1>3. \A i \in DOMAIN want : ~ (i > Copies)
  BY <1>1 DEF TInv, TypeOK, Copies
<1> QED
  BY <1>1, <1>2, <1>3 DEF Writing

\* The event of the client moves from the acceptor or a worker to the vector, or is
\* dropped by a thread that had passed it on.
LEMMA OrderedThread ==
  ASSUME OneClient, TInv, DInv, OInv, Ordered,
         Accept \/ \E t \in Threads : Async(t) \/ Release(t)
  PROVE  Ordered'
<1>0. TypeOK /\ Acceptor \in Threads
  BY DEF TInv, Threads
<1>1. UNCHANGED <<replied, inbox, sent, m_WriteBuf, peer, have, mpc>>
  BY DEF Accept, AcceptOk, AcceptAs, AcceptFails, Async, Release, env, objs, mgr
<1>2. Copies' = Copies
  BY <1>1 DEF Copies
<1>3. CASE Accept
  <2>1. /\ op' = [op EXCEPT ![Acceptor] = "R"] /\ tpc' = [tpc EXCEPT ![Acceptor] = "append"]
        /\ tpc[Acceptor] = "accept" /\ want' = want
    BY <1>3 DEF Accept, wq
  <2>2. \A t \in Threads : Busy(t)' /\ op'[t] = "W" <=> Busy(t) /\ op[t] = "W"
    BY <1>0, <2>1 DEF TypeOK, Busy
  <2>3. Writing' <=> Writing
    BY <1>1, <1>2, <2>1, <2>2 DEF Writing
  <2> QED
    BY <1>1, <2>3, OrderedFrame
<1>4. ASSUME NEW t \in Threads, Release(t) PROVE Ordered'
  <2>1. /\ op' = [op EXCEPT ![t] = "R"] /\ want' = want /\ tpc[t] = "release"
        /\ tpc' = [tpc EXCEPT ![t] = IF t = Acceptor THEN "accept" ELSE "pop"]
    BY <1>4 DEF Release, wq
  <2>2. \A u \in Threads : Busy(u)' /\ op'[u] = "W" <=> Busy(u) /\ op[u] = "W"
    BY <1>0, <2>1 DEF TypeOK, Busy
  <2>3. Writing' <=> Writing
    BY <1>1, <1>2, <2>1, <2>2 DEF Writing
  <2> QED
    BY <1>1, <2>3, OrderedFrame
<1>5. ASSUME NEW t \in Threads, Async(t) PROVE Ordered'
  <2>1. op' = op
    BY <1>5 DEF Async
  <2>2. CASE GrowBegin(t)
    <3>1. want' = want /\ tpc' = [tpc EXCEPT ![t] = "grow"] /\ tpc[t] = "append"
      BY <2>2 DEF GrowBegin
    <3>2. \A u \in Threads : Busy(u)' <=> Busy(u)
      BY <1>0, <3>1 DEF TypeOK, Busy
    <3>3. Writing' <=> Writing
      BY <1>1, <1>2, <2>1, <3>1, <3>2 DEF Writing
    <3> QED
      BY <1>1, <3>3, OrderedFrame
  <2>3. CASE AppendInPlace(t) \/ GrowEnd(t)
    <3>1. Busy(t) /\ want' = Queued(t) /\ tpc' = [tpc EXCEPT ![t] = "release"]
      BY <2>3 DEF AppendInPlace, GrowEnd, Busy
    <3>2. \A u \in Threads : ~ Busy(u)'
      <4> SUFFICES ASSUME NEW u \in Threads, Busy(u)' PROVE FALSE
        OBVIOUS
      <4>1. u # t /\ Busy(u)
        BY <1>0, <3>1 DEF Busy, TypeOK
      <4> QED
        BY <3>1, <4>1 DEF OInv, OneEvent
    <3>3. have = << >> /\ Len(want) = Copies /\ Copies \in Nat
      BY <3>1, Lengths DEF OInv, OneEvent, Copies
    <3> DEFINE e == [conn |-> hold[t], op |-> op[t]]
    <3>4. e \in Event /\ want \in Seq(Event) /\ e.op = op[t]
      BY <1>0, <3>1 DEF TInv, HoldsWhileBusy, Busy, TypeOK, Event
    <3>5. want' = Append(want, e)
      BY <3>1 DEF Queued
    <3> HIDE DEF e
    <3>6. DOMAIN want' = 1 .. (Copies + 1) /\ want'[Copies + 1] = e
      BY <3>3, <3>4, <3>5
    <3>7. Writing' <=> op[t] = "W"
      <4>1. Writing' <=> \E i \in DOMAIN want' : i > Copies /\ want'[i].op = "W"
        BY <1>1, <1>2, <3>2, <3>3 DEF Writing
      <4>2. \A i \in DOMAIN want' : i > Copies <=> i = Copies + 1
        BY <3>3, <3>6
      <4>3. Copies + 1 \in DOMAIN want'
        BY <3>3, <3>6
      <4> QED
        BY <3>4, <3>6, <4>1, <4>2, <4>3
    <3>8. Writing' <=> Writing
      BY <3>1, <3>7, OnlyBusy
    <3> QED
      BY <1>1, <3>8, OrderedFrame
  <2> QED
    BY <1>5, <2>2, <2>3 DEF Async
<1> QED
  BY <1>3, <1>4, <1>5

\* The manager queues the event before it erases the copy; it drops one only after
\* a reset.
LEMMA OrderedManager ==
  ASSUME OneClient, TInv, DInv, OInv, Ordered, AssertHolds, Manager PROVE Ordered'
<1>0. TypeOK /\ OneEvent /\ Round
  BY DEF TInv, OInv
<1>1. UNCHANGED <<replied, inbox, sent, m_WriteBuf, peer, tpc, op>>
  BY DEF Manager, env, objs, thr
<1>2. \A t \in Threads : Busy(t)' <=> Busy(t)
  BY <1>1 DEF Busy
<1>3. CASE UNCHANGED <<want, have>> /\ mpc # "delete" /\ mpc' # "delete"
  <2>1. Copies' = Copies
    BY <1>3 DEF Copies
  <2>2. Writing' <=> Writing
    BY <1>1, <1>2, <1>3, <2>1 DEF Writing
  <2> QED
    BY <1>1, <2>2, OrderedFrame
<1>4. CASE DispatchPush
  <2>1. /\ mpc = "dispatch" /\ mi <= Len(want) /\ mpc' = "delete" /\ want' = want
        /\ have' = Append(have, want[mi])
    BY <1>4 DEF DispatchPush
  <2>2. Copies = 0 /\ Copies' = 1 /\ mi \in {1, 2} /\ Len(want) \in {0, 1}
    BY <1>0, <2>1 DEF Copies, Round, OneEvent
  <2>3. mi = 1 /\ Len(want) = 1
    BY <2>1, <2>2
  <2>4. have = << >> /\ \A t \in Threads : ~ Busy(t)
    BY <1>0, <2>2, <2>3, Lengths DEF OneEvent
  <2>5. want \in Seq(Event) /\ DOMAIN want = {1} /\ have' = <<want[1]>>
    BY <1>0, <2>1, <2>3, <2>4 DEF TypeOK
  <2>6. Writing <=> want[1].op = "W"
    BY <2>2, <2>4, <2>5 DEF Writing
  <2>7. Writing' <=> want[1].op = "W"
    <3>1. DOMAIN have' = {1} /\ have'[1] = want[1]
      BY <2>5
    <3>2. Writing' <=> \E i \in DOMAIN have' : have'[i].op = "W"
      BY <1>2, <2>1, <2>2, <2>4, <2>5 DEF Writing
    <3> QED
      BY <3>1, <3>2
  <2> QED
    BY <1>1, <2>6, <2>7, OrderedFrame
<1>5. CASE DispatchDelete
  <2>1. /\ mpc = "delete" /\ deleteClient(Slot(mi).fd) /\ mpc' = "dispatch" /\ have' = have
    BY <1>5 DEF DispatchDelete
  <2>2. Copies = 1 /\ Copies' = 0 /\ AtSlot
    BY <2>1 DEF Copies, AtSlot
  <2>3. mi = 1 /\ Len(want) # 0 /\ Len(fds) # 0 /\ \A c \in Conns : fds[1].fd = m_Sd[c]
    BY <1>0, <2>1, <2>2 DEF Round
  <2>4. Slot(mi) = fds[1]
    BY <2>3, Lengths DEF Slot
  <2>5. want' = RemoveAt(want, 1) /\ want \in Seq(Event) /\ 1 \in DOMAIN want
    BY <2>1, <2>3, <2>4, DeleteFirst, WantedIsClient
  <2>6. /\ \A i \in DOMAIN want : i > 1 => i - 1 \in DOMAIN want' /\ want'[i - 1] = want[i]
        /\ \A i \in DOMAIN want' : i \in Nat /\ i + 1 \in DOMAIN want /\ want'[i] = want[i + 1]
        /\ DOMAIN want' = 1 .. (Len(want) - 1) /\ DOMAIN want = 1 .. Len(want)
    <3>1. /\ want' \in Seq(Event) /\ Len(want') = Len(want) - 1
          /\ \A i \in DOMAIN want : i > 1 => i - 1 \in DOMAIN want' /\ want'[i - 1] = want[i]
          /\ \A i \in DOMAIN want' :
              \/ i < 1 /\ i \in DOMAIN want
              \/ i >= 1 /\ i \in Nat /\ i + 1 \in DOMAIN want /\ want'[i] = want[i + 1]
      BY <2>5, RemoveElements
    <3>2. DOMAIN want' = 1 .. (Len(want) - 1) /\ DOMAIN want = 1 .. Len(want)
      BY <2>5, <3>1
    <3> QED
      BY <3>1, <3>2
  <2>7. (\E i \in DOMAIN want' : i > 0 /\ want'[i].op = "W") <=>
        (\E i \in DOMAIN want : i > 1 /\ want[i].op = "W")
    <3>1. ASSUME NEW i \in DOMAIN want', want'[i].op = "W"
          PROVE  \E j \in DOMAIN want : j > 1 /\ want[j].op = "W"
      <4>1. i + 1 \in DOMAIN want /\ i + 1 > 1
        BY <2>6
      <4> QED
        BY <2>6, <3>1, <4>1
    <3>2. ASSUME NEW i \in DOMAIN want, i > 1, want[i].op = "W"
          PROVE  \E j \in DOMAIN want' : j > 0 /\ want'[j].op = "W"
      <4>1. i - 1 \in DOMAIN want' /\ i - 1 > 0
        BY <2>6, <3>2
      <4> QED
        BY <2>6, <3>2, <4>1
    <3> QED
      BY <3>1, <3>2
  <2>8. Writing' <=> Writing
    BY <1>1, <1>2, <2>1, <2>2, <2>7 DEF Writing
  <2> QED
    BY <1>1, <2>8, OrderedFrame
<1>6. CASE Cleanup
  <2>1. Len(gone) # 0
    BY <1>6, Lengths DEF Cleanup
  <2>2. \A c \in Conns : peer'[c] = "rst"
    BY <1>0, <1>1, <2>1 DEF Round
  <2> QED
    BY <1>1, <2>2, OrderedFrame
<1>7. CASE \/ Fill \/ PollCall \/ PollReturn \/ PollError
           \/ DispatchSkip \/ DispatchGone \/ DispatchEnd \/ CleanupEnd
  BY <1>3, <1>7 DEF Fill, PollCall, PollReturn, PollError, DispatchSkip, DispatchGone, DispatchEnd,
    CleanupEnd
<1> QED
  BY <1>4, <1>5, <1>6, <1>7 DEF Manager

\* read() takes from the front of what was not read, write() sends what was read.
LEMMA OrderedWorker ==
  ASSUME OneClient, TInv, DInv, OInv, Ordered, NEW w \in Workers, Worker(w) PROVE Ordered'
<1>0. TypeOK /\ w \in Threads
  BY DEF TInv, Threads
<1>1. UNCHANGED <<want, peer, sent>>
  BY DEF Worker, Start, Pop, Read, ReadData, ReadEof, ReadError, CloseAfterError, Write, env, wq
<1>2. CASE Start(w)
  <2>1. /\ UNCHANGED <<have, op, inbox, replied, m_WriteBuf>>
        /\ tpc' = [tpc EXCEPT ![w] = "pop"] /\ tpc[w] = "start"
        /\ (mpc' = mpc \/ (mpc = "off" /\ mpc' = "idle"))
    BY <1>2 DEF Start, env, objs
  <2>2. Copies' = Copies /\ \A u \in Threads : Busy(u)' <=> Busy(u)
    BY <1>0, <2>1 DEF TypeOK, Busy, Copies
  <2>3. Writing' <=> Writing
    BY <1>1, <2>1, <2>2 DEF Writing
  <2> QED
    BY <1>1, <2>1, <2>3, OrderedFrame
<1>3. CASE Pop(w)
  <2>1. /\ UNCHANGED <<mpc, inbox, replied, m_WriteBuf>> /\ have # << >> /\ have' = Tail(have)
        /\ tpc' = [tpc EXCEPT ![w] = "io"] /\ op' = [op EXCEPT ![w] = Head(have).op]
    BY <1>3 DEF Pop, env, objs, mgr
  <2>2. Len(have) = 1 /\ Len(want) = Copies /\ \A t \in Threads : ~ Busy(t)
    BY <2>1, Lengths DEF OInv, OneEvent
  <2>3. have \in Seq(Event) /\ DOMAIN have = {1} /\ Head(have) = have[1]
    BY <1>0, <2>1, <2>2 DEF TypeOK
  <2>4. \A i \in DOMAIN want : ~ (i > Copies)
    BY <1>0, <2>2 DEF TypeOK, Copies
  <2>5. Writing <=> have[1].op = "W"
    BY <2>2, <2>3, <2>4 DEF Writing
  <2>6. Busy(w)' /\ op'[w] = have[1].op
    BY <1>0, <2>1, <2>3 DEF TypeOK, Busy
  <2>7. OInv' /\ TInv'
    BY OInvWorker, TInvWorker
  <2>8. Writing' <=> op'[w] = "W"
    <3>1. have' = << >>
      BY <2>1, <2>2, <2>3
    <3>2. Copies' = Copies /\ \A u \in Threads : Busy(u)' => u = w
      BY <1>0, <2>1, <2>2 DEF Copies, Busy, TypeOK
    <3> QED
      BY <1>0, <1>1, <2>4, <2>6, <3>1, <3>2 DEF Writing
  <2> QED
    BY <1>1, <2>1, <2>5, <2>6, <2>8, OrderedFrame
<1>4. ASSUME Busy(w), UNCHANGED <<have, mpc>>, \A u \in Threads : u # w => tpc'[u] = tpc[u]
      PROVE  Writing' <=> Busy(w)' /\ op'[w] = "W"
  <2>1. Len(have) = 0 /\ Len(want) = Copies /\ \A u \in Threads : Busy(u) => u = w
    BY <1>0, <1>4 DEF OInv, OneEvent
  <2>2. \A i \in DOMAIN want : ~ (i > Copies)
    BY <1>0, <2>1 DEF TypeOK, Copies
  <2>3. have' = << >> /\ Copies' = Copies
    BY <1>4, <2>1, Lengths DEF Copies
  <2>4. \A u \in Threads : Busy(u)' => u = w
    BY <1>4, <2>1 DEF Busy
  <2> QED
    BY <1>0, <1>1, <2>2, <2>3, <2>4 DEF Writing
<1>5. CASE CloseAfterError(w)
  <2>1. /\ UNCHANGED <<have, mpc, inbox, replied, m_WriteBuf>> /\ tpc[w] = "close"
    BY <1>5 DEF CloseAfterError, env, objs, mgr
  <2>2. \A c \in Conns : peer'[c] = "rst"
    BY <1>0, <1>1, <2>1 DEF DInv, CloseAfterFailure, OInv, FailsAfterReset
  <2> QED
    BY <1>1, <2>1, <2>2, OrderedFrame
<1>6. CASE Read(w) /\ ~ ReadData(w)
  <2>1. /\ UNCHANGED <<have, mpc, inbox, replied, m_WriteBuf, op>>
        /\ Busy(w) /\ op[w] = "R" /\ \A u \in Threads : u # w => tpc'[u] = tpc[u]
    BY <1>0, <1>6 DEF Read, ReadEof, ReadError, env, mgr, Busy, TypeOK
  <2>2. ~ Writing /\ ~ Writing'
    BY <1>0, <1>4, <2>1, OnlyBusy
  <2> QED
    BY <1>1, <2>1, <2>2, OrderedFrame
<1>7. CASE Read(w) /\ ReadData(w)
  <2>0. hold' = hold
    BY <1>7 DEF Read
  <2>1. /\ UNCHANGED <<have, mpc, replied>> /\ tpc[w] = "io" /\ op[w] = "R"
        /\ op' = [op EXCEPT ![w] = "W"] /\ tpc' = [tpc EXCEPT ![w] = "append"]
    BY <1>7 DEF Read, ReadData, mgr
  <2>2. Busy(w) /\ Busy(w)' /\ op'[w] = "W" /\ \A u \in Threads : u # w => tpc'[u] = tpc[u]
    BY <1>0, <2>1 DEF Busy, TypeOK
  <2>3. ~ Writing /\ Writing'
    BY <1>0, <1>4, <2>1, <2>2, OnlyBusy
  <2>4. Target(w) # NoConn
    BY <1>7 DEF ReadData
  <2>5. hold[w] \in Conns /\ Target(w) = hold[w]
    BY <2>4, TargetType DEF OneClient
  <2> DEFINE c == hold[w]
             in == inbox[c]
             n == Len(replied[c])
  <2>6. PICK k \in 1 .. Len(in) :
          /\ m_WriteBuf'[c] = SubSeq(in, 1, k)
          /\ inbox'[c] = SubSeq(in, k + 1, Len(in))
    <3>1. PICK k \in 1 .. Len(inbox[Target(w)]) :
            /\ m_WriteBuf' = [m_WriteBuf EXCEPT ![hold[w]] = SubSeq(inbox[Target(w)], 1, k)]
            /\ inbox' = [inbox EXCEPT ![Target(w)] = SubSeq(@, k + 1, Len(@))]
      BY <1>7 DEF ReadData, Takes
    <3>2. hold[w] \in DOMAIN m_WriteBuf /\ hold[w] \in DOMAIN inbox
      BY <1>0, <2>5 DEF TypeOK
    <3> QED
      BY <2>5, <3>1, <3>2
  <2>7. c \in Conns /\ in \in Seq(Request) /\ n \in Nat /\ Len(in) \in Nat
    BY <1>0, <2>5 DEF TypeOK
  <2>8. Follows(replied[c], c, 0) /\ InOrder(c)
    BY <2>7 DEF Ordered
  <2>9. Unsent(c) = << >> /\ Unsent(c)' = SubSeq(in, 1, k)
    BY <2>0, <2>3, <2>6 DEF Unsent
  <2>10. InOrder(c)'
    <3> SUFFICES ASSUME peer[c] # "rst"
                 PROVE  /\ Follows(SubSeq(in, 1, k), c, n)
                        /\ Follows(inbox'[c], c, n + Len(SubSeq(in, 1, k)))
                        /\ sent[c] = n + Len(SubSeq(in, 1, k)) + Len(inbox'[c])
      BY <1>1, <2>1, <2>9, <2>0 DEF InOrder
    <3>1. Follows(in, c, n) /\ sent[c] = n + Len(in)
      <4>1. Len(<< >>) = 0 /\ n + 0 = n
        BY <2>7
      <4> QED
        BY <2>7, <2>8, <2>9, <4>1 DEF InOrder
    <3> HIDE DEF in, n, c
    <3>2. /\ Len(SubSeq(in, 1, k)) = k /\ Len(SubSeq(in, k + 1, Len(in))) = Len(in) - k
          /\ Follows(SubSeq(in, 1, k), c, n) /\ Follows(SubSeq(in, k + 1, Len(in)), c, n + k)
      BY <2>6, <2>7, <3>1, FollowsCut
    <3>3. n + Len(in) = n + k + (Len(in) - k)
      BY <2>6, <2>7
    <3> QED
      BY <2>6, <3>1, <3>2, <3>3
  <2> QED
    BY <2>1, <2>7, <2>8, <2>0, <2>10 DEF Ordered, OneClient
<1>8. CASE Write(w) /\ WriteSigpipe(w)
  <2>1. UNCHANGED <<have, mpc, inbox, replied, m_WriteBuf, op, tpc>>
    BY <1>8 DEF Write, WriteSigpipe, objs, mgr
  <2>2. Writing' <=> Writing
    BY <1>1, <2>1 DEF Writing, Busy, Copies
  <2> QED
    BY <1>1, <2>1, <2>2, OrderedFrame
<1>9. CASE Write(w) /\ WriteReturns(w)
  <2>1. /\ UNCHANGED <<have, mpc, inbox, m_WriteBuf, hold>> /\ tpc[w] = "io" /\ op[w] = "W"
        /\ op' = [op EXCEPT ![w] = "R"] /\ tpc' = [tpc EXCEPT ![w] = "append"]
        /\ WriteTo(Target(w), m_WriteBuf[hold[w]])
    BY <1>9 DEF Write, WriteReturns, objs, mgr
  <2>2. Busy(w) /\ op'[w] = "R" /\ \A u \in Threads : u # w => tpc'[u] = tpc[u]
    BY <1>0, <2>1 DEF Busy, TypeOK
  <2>3. Writing /\ ~ Writing'
    BY <1>0, <1>4, <2>1, <2>2, OnlyBusy
  <2>4. hold[w] \in Conns
    BY <1>0, <2>2 DEF TInv, HoldsWhileBusy, Busy, TypeOK, OInv, Referenced
  <2> DEFINE c == hold[w]
             b == m_WriteBuf[c]
             n == Len(replied[c])
  <2>5. /\ c \in Conns /\ b \in Seq(Request) /\ replied[c] \in Seq(Request)
        /\ n \in Nat /\ Len(b) \in Nat /\ Len(inbox[c]) \in Nat
    BY <1>0, <2>4 DEF TypeOK
  <2>6. Follows(replied[c], c, 0) /\ InOrder(c) /\ Unsent(c) = b /\ Unsent(c)' = << >>
    BY <2>1, <2>3, <2>5 DEF Ordered, Unsent
  <2>7. CASE peer[c] = "rst"
    <3>1. Target(w) = NoConn \/ Target(w) = c
      BY <2>4, TargetType DEF OneClient
    <3>2. replied' = replied
      BY <2>1, <2>7, <3>1 DEF WriteTo
    <3>3. \A d \in Conns : d = c /\ peer'[d] = "rst"
      BY <1>1, <2>4, <2>7 DEF OneClient
    <3> QED
      BY <1>1, <2>1, <3>2, <3>3, OrderedFrame
  <2>8. CASE peer[c] # "rst"
    <3>1. Target(w) = c
      <4>1. ~ readFailed
        BY <2>5, <2>8 DEF OInv, FailsAfterReset
      <4>2. SocketAt(m_Sd[c]) = c
        BY <1>0, <2>5, <4>1 DEF DInv, DescriptorOwned, Referenced
      <4> QED
        BY <2>5, <4>2 DEF Target, SdOf
    <3>2. replied'[c] = replied[c] \o b
      BY <1>0, <2>1, <2>5, <2>8, <3>1, SocketsAssumption DEF WriteTo, TypeOK
    <3>3. /\ Follows(b, c, n) /\ Follows(inbox[c], c, n + Len(b))
          /\ sent[c] = n + Len(b) + Len(inbox[c])
      BY <2>6, <2>8 DEF InOrder
    <3>4. Follows(replied'[c], c, 0) /\ Len(replied'[c]) = n + Len(b)
      <4> HIDE DEF b, c
      <4> QED
        BY <2>5, <2>6, <3>2, <3>3, FollowsOn
    <3>5. InOrder(c)'
      <4>1. Len(<< >>) = 0 /\ (n + Len(b)) + 0 = n + Len(b) /\ Follows(<< >>, c, n + Len(b))
        BY <2>5 DEF Follows
      <4> QED
        BY <1>1, <2>1, <2>6, <3>3, <3>4, <4>1 DEF InOrder
    <3> QED
      BY <2>1, <2>5, <3>4, <3>5 DEF Ordered, OneClient
  <2> QED
    BY <2>7, <2>8
<1> QED
  BY <1>2, <1>3, <1>5, <1>6, <1>7, <1>8, <1>9 DEF Worker, Write

\* Every step keeps the requests in order.
LEMMA OrderedStep ==
  OneClient /\ TInv /\ DInv /\ OInv /\ AssertHolds /\ Ordered /\ [Next]_vars => Ordered'
<1> SUFFICES ASSUME OneClient, TInv, DInv, OInv, AssertHolds, Ordered, [Next]_vars PROVE Ordered'
  OBVIOUS
<1>1. CASE Crash \/ UNCHANGED vars
  <2>1. UNCHANGED <<want, have, mpc, tpc, op, peer, replied, inbox, sent, m_WriteBuf>>
    BY <1>1 DEF Crash, vars, env, objs, wq, mgr, thr
  <2>2. Writing' <=> Writing
    BY <2>1 DEF Writing, Busy, Copies
  <2> QED
    BY <2>1, <2>2, OrderedFrame
<1> QED
  BY <1>1, OrderedClient, OrderedThread, OrderedWorker, OrderedManager DEF Next

\* With one client, its requests are echoed once each and in the order it sent them,
\* however they arrive and whichever workers handle them.
THEOREM EchoesInOrder == OneClient /\ Spec => []EchoedInOrder
<1>1. Init => AssertHolds
  BY DEF Init, AssertHolds
<1>2. OneClient => OneClient'
  BY DEF OneClient
<1>3. TInv /\ Ordered => EchoedInOrder
  <2> SUFFICES ASSUME TInv, Ordered, NEW c \in Conns, NEW i \in DOMAIN replied[c]
               PROVE  replied[c][i] = <<c, i>>
    BY DEF EchoedInOrder
  <2>1. replied[c][i] = <<c, 0 + i>>
    BY DEF Ordered, Follows
  <2>2. 0 + i = i
    BY DEF TInv, TypeOK
  <2> QED
    BY <2>1, <2>2
<1> QED
  BY <1>1, <1>2, <1>3, TInvInit, TInvStep, DInvInit, DInvStep, OInvInit, OInvStep, OrderedInit,
    OrderedStep, PTL DEF Spec

=============================================================================
