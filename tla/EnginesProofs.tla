--------------------------- MODULE EnginesProofs ---------------------------
(***************************************************************************)
(* Theorems about the select() and epoll servers, for every set of clients *)
(* and every number of descriptors: no Client is used after its delete,    *)
(* and both servers implement Session.                                     *)
(***************************************************************************)
EXTENDS MCEngines, SequenceLemmas

\* What the clients see of the running server, before Shown hides the poll()
\* server: Promise with its views taken as they are.
Unanswered == IF server = "epoll" THEN eServed ELSE SelectPending

View == INSTANCE Session WITH
  up <- status = "running", phase <- Phase, pending <- Unanswered

(***************************************************************************)
(* The epoll server.                                                       *)
(***************************************************************************)
\* An open descriptor belongs to the live Client that records it and epoll
\* watches for what that Client wants; no live Client is without descriptor.
EpollTable ==
  /\ \A f \in E!Fds : fdt[f] # NoConn =>
       /\ link[fdt[f]] = "accepted" /\ state[fdt[f]] # "none"
       /\ sd[fdt[f]] = f /\ interest[f] = state[fdt[f]]
  /\ \A c \in Conns : state[c] # "none" => sd[c] \in E!Fds /\ fdt[sd[c]] = c

\* A Client wants to write exactly when it owes an answer.
EpollOwes == \A c \in Conns : state[c] = "W" <=> eServed[c] # << >>

\* The pointers of the batch: each once, each to a live Client that is not
\* already on disconnected_clients, a hang-up only after a reset.
EpollBatch ==
  /\ \A e \in events : e.ptr \in Conns =>
       /\ state[e.ptr] # "none"
       /\ e.ev = "HUP" => peer[e.ptr] = "rst"
       /\ \A i \in DOMAIN eGone : eGone[i] # e.ptr
  /\ \A e, d \in events : e.ptr = d.ptr => e = d
  /\ epc # "loop" => events = {}

\* disconnected_clients: live Clients whose far end left, each once.
EpollGone ==
  /\ \A i \in DOMAIN eGone : state[eGone[i]] # "none" /\ peer[eGone[i]] # "open"
  /\ \A i, j \in DOMAIN eGone : eGone[i] = eGone[j] => i = j
  /\ epc = "wait" => eGone = << >>

\* While the far end is open every request sent is in exactly one place.
EpollCounts ==
  \A c \in Conns : peer[c] = "open" =>
    sent[c] = Len(replied[c]) + Len(eServed[c]) + Len(inbox[c])

\* The inductive invariant of the epoll server.
EpollInv ==
  /\ E!TypeOK /\ ~ misused
  /\ EpollTable /\ EpollOwes /\ EpollBatch /\ EpollGone /\ EpollCounts

(***************************************************************************)
(* The select() server.                                                    *)
(***************************************************************************)
\* The listener is the first entry, the others are open descriptors, each once,
\* and every open descriptor has an entry and an accepted client of its own.
SelectTable ==
  /\ sClients # << >> /\ sClients[1] = S!Listener
  /\ \A i \in DOMAIN sClients : i # 1 => sClients[i] \in S!Fds /\ fdt[sClients[i]] # NoConn
  /\ \A i, j \in DOMAIN sClients : sClients[i] = sClients[j] => i = j
  /\ \A f \in S!Fds : fdt[f] # NoConn => link[fdt[f]] = "accepted"
  /\ \A f, g \in S!Fds : fdt[f] # NoConn /\ fdt[f] = fdt[g] => f = g

\* disconnected_clients: entries already passed by the loop, each once, whose
\* far end left.
SelectGone ==
  /\ \A i \in DOMAIN sGone :
       /\ sGone[i] \in S!Fds /\ fdt[sGone[i]] # NoConn /\ peer[fdt[sGone[i]]] # "open"
       /\ \E j \in DOMAIN sClients :
            sClients[j] = sGone[i] /\ (spc \in {"loop", "write"} => j < si)
  /\ \A i, j \in DOMAIN sGone : sGone[i] = sGone[j] => i = j
  /\ spc = "select" => sGone = << >>

\* What was read is for the client the loop stands at.
SelectBuf ==
  /\ buf # << >> <=> spc = "write"
  /\ spc = "write" => si <= Len(sClients) /\ si # 1

\* While the far end is open every request sent is in exactly one place.
SelectCounts ==
  \A c \in Conns : peer[c] = "open" =>
    sent[c] = Len(replied[c]) + Len(SelectPending[c]) + Len(inbox[c])

\* The inductive invariant of the select() server.
SelectInv ==
  /\ S!TypeOK /\ status \in {"running", "sigpipe"}
  /\ SelectTable /\ SelectGone /\ SelectBuf /\ SelectCounts

\* The invariant of the server this behaviour runs.
EnginesInv ==
  /\ server \in {"select", "poll", "epoll"}
  /\ server = "epoll" => EpollInv
  /\ server = "select" => SelectInv
  /\ server # "epoll" => ~ misused

(***************************************************************************)
(* Facts about the environment.                                            *)
(***************************************************************************)
\* The instances see the same descriptors.
LEMMA SameFds == E!Fds = Fds /\ S!Fds = Fds /\ Fds \subseteq Int /\ -1 \notin Fds
BY SocketsAssumption DEF E!Fds, S!Fds, Fds

\* A step that touches neither the backlog nor the table leaves the phases alone.
LEMMA PhaseKept == ASSUME UNCHANGED <<link, fdt>> PROVE Phase' = Phase
BY DEF Phase, Reachable

\* A request that is sent is in one more place.
LEMMA OneMore ==
  ASSUME NEW n \in Nat, NEW r \in Seq(E!Request), NEW p \in Seq(E!Request), NEW q \in Seq(E!Request),
         n = Len(r) + Len(p) + Len(q), NEW n1, NEW q1,
         \/ n1 = n /\ q1 = q
         \/ n1 = n + 1 /\ Len(q1) = Len(q) + 1
  PROVE  n1 = Len(r) + Len(p) + Len(q1)
<1> DEFINE i == Len(r)  j == Len(p)  k == Len(q)  k1 == Len(q1)
<1>1. i \in Nat /\ j \in Nat /\ k \in Nat
  OBVIOUS
<1>2. n = i + j + k
  OBVIOUS
<1>4. CASE n1 = n /\ q1 = q
  BY <1>4
<1>5. CASE n1 = n + 1 /\ k1 = k + 1
  <2> HIDE DEF i, j, k, k1
  <2> QED
    BY <1>1, <1>2, <1>5
<1>3. n1 = i + j + k1
  BY <1>4, <1>5
<1> QED
  BY <1>3

\* What the steps of the clients do.
LEMMA ClientSteps ==
  ASSUME E!SocketsType, NEW c \in Conns, E!ClientStep(c)
  PROVE  /\ E!SocketsType'
         /\ UNCHANGED <<replied, fdt>>
         /\ \A d \in Conns : d # c =>
              link'[d] = link[d] /\ peer'[d] = peer[d] /\ sent'[d] = sent[d] /\ inbox'[d] = inbox[d]
         /\ link[c] = "accepted" => link'[c] = "accepted"
         /\ peer[c] # "open" => peer'[c] # "open"
         /\ peer[c] = "rst" => peer'[c] = "rst"
         /\ \/ sent'[c] = sent[c] /\ inbox' = inbox
            \/ sent'[c] = sent[c] + 1 /\ Len(inbox'[c]) = Len(inbox[c]) + 1
<1> USE DEF E!SocketsType, E!Request
<1>1. CASE E!Connect(c) /\ UNCHANGED fdt
  BY <1>1 DEF E!Connect
<1>2. CASE E!Send(c) /\ UNCHANGED fdt
  BY <1>2 DEF E!Send
<1>3. CASE E!Finish(c) /\ UNCHANGED fdt
  BY <1>3 DEF E!Finish
<1>4. CASE E!Reset(c) /\ UNCHANGED fdt
  BY <1>4 DEF E!Reset
<1> QED
  BY <1>1, <1>2, <1>3, <1>4 DEF E!ClientStep

\* A step of a client is one of Session, if its requests are numbered by the
\* answers, the unanswered and the unread ones.
LEMMA ClientView ==
  ASSUME E!SocketsType, NEW c \in Conns, E!ClientStep(c), status = "running",
         UNCHANGED <<status, Unanswered>>,
         peer[c] = "open" => sent[c] = Len(replied[c]) + Len(Unanswered[c]) + Len(inbox[c]),
         \A f \in Fds : fdt[f] # NoConn => link[fdt[f]] = "accepted"
  PROVE  View!Next
<1> USE SameFds DEF E!SocketsType, E!Request
<1>1. CASE E!Connect(c) /\ UNCHANGED fdt
  <2>1. Phase[c] = "none" /\ Phase' = [Phase EXCEPT ![c] = "open"]
    BY <1>1, SocketsAssumption DEF E!Connect, Phase, Reachable
  <2> QED
    BY <1>1, <2>1 DEF E!Connect, View!Arrive, View!Next
<1>5. E!Reachable(c) => Phase[c] = "open"
  BY SocketsAssumption DEF E!Reachable, Phase, Reachable
<1>2. CASE E!Send(c) /\ UNCHANGED fdt
  <2>1. Phase' = Phase
    BY <1>2, PhaseKept DEF E!Send
  <2> QED
    BY <1>2, <1>5, <2>1 DEF E!Send, View!Request, View!Next
<1>3. CASE E!Finish(c) /\ UNCHANGED fdt
  <2>1. Phase' = Phase
    BY <1>3, PhaseKept DEF E!Finish
  <2> QED
    BY <1>3, <1>5, <2>1 DEF E!Finish, View!Leave, View!Next
<1>4. CASE E!Reset(c) /\ UNCHANGED fdt
  <2>1. Phase' = Phase
    BY <1>4, PhaseKept DEF E!Reset
  <2> QED
    BY <1>4, <1>5, <2>1 DEF E!Reset, View!Leave, View!Next
<1> QED
  BY <1>1, <1>2, <1>3, <1>4 DEF E!ClientStep

(***************************************************************************)
(* Each step of the epoll server keeps its invariant and is a step of      *)
(* Session or invisible to the clients.                                    *)
(***************************************************************************)
\* A client's step.
LEMMA EpollClient ==
  ASSUME EpollInv, server = "epoll", server' = server, NEW c \in Conns, E!Client(c)
  PROVE  EpollInv' /\ View!Next
<1>1. /\ E!ClientStep(c) /\ status = "running" /\ status' = status
      /\ state' = state /\ sd' = sd /\ interest' = interest /\ events' = events /\ epc' = epc
      /\ eGone' = eGone /\ eServed' = eServed /\ misused' = misused
  BY DEF E!Client, E!local
<1>2. /\ E!SocketsType'
      /\ replied' = replied /\ fdt' = fdt
      /\ \A d \in Conns : d # c =>
           link'[d] = link[d] /\ peer'[d] = peer[d] /\ sent'[d] = sent[d] /\ inbox'[d] = inbox[d]
      /\ link[c] = "accepted" => link'[c] = "accepted"
      /\ peer[c] # "open" => peer'[c] # "open"
      /\ peer[c] = "rst" => peer'[c] = "rst"
      /\ \/ sent'[c] = sent[c] /\ inbox' = inbox
         \/ sent'[c] = sent[c] + 1 /\ Len(inbox'[c]) = Len(inbox[c]) + 1
  BY <1>1, ClientSteps DEF EpollInv, E!TypeOK
<1>3. E!TypeOK'
  BY <1>1, <1>2 DEF EpollInv, E!TypeOK
<1>4. EpollTable'
  BY <1>1, <1>2 DEF EpollInv, EpollTable, E!TypeOK, E!SocketsType
<1>5. \A d \in Conns : /\ peer[d] # "open" => peer'[d] # "open"
                       /\ peer[d] = "rst" => peer'[d] = "rst"
  BY <1>2
<1>6. EpollOwes' /\ EpollBatch'
  BY <1>1, <1>5 DEF EpollInv, EpollOwes, EpollBatch
<1>7. EpollGone'
  <2>1. \A i \in DOMAIN eGone : eGone[i] \in Conns
    BY DEF EpollInv, E!TypeOK
  <2> QED
    BY <1>1, <1>5, <2>1 DEF EpollInv, EpollGone
<1>8. EpollCounts'
  <2> SUFFICES ASSUME NEW d \in Conns, peer'[d] = "open"
               PROVE  sent'[d] = Len(replied'[d]) + Len(eServed'[d]) + Len(inbox'[d])
    BY DEF EpollCounts
  <2>1. sent[d] = Len(replied[d]) + Len(eServed[d]) + Len(inbox[d])
    BY <1>5 DEF EpollInv, EpollCounts
  <2>2. /\ sent[d] \in Nat /\ replied[d] \in Seq(E!Request) /\ eServed[d] \in Seq(E!Request)
        /\ inbox[d] \in Seq(E!Request)
    BY DEF EpollInv, E!TypeOK, E!SocketsType
  <2>3. replied'[d] = replied[d] /\ eServed'[d] = eServed[d]
    BY <1>1, <1>2
  <2>4. \/ sent'[d] = sent[d] /\ inbox'[d] = inbox[d]
        \/ sent'[d] = sent[d] + 1 /\ Len(inbox'[d]) = Len(inbox[d]) + 1
    BY <1>2
  <2> DEFINE i == Len(replied[d])  j == Len(eServed[d])  k == Len(inbox[d])  k1 == Len(inbox'[d])
  <2>5. i \in Nat /\ j \in Nat /\ k \in Nat /\ sent[d] = i + j + k
    BY <2>1, <2>2
  <2>6. \/ sent'[d] = sent[d] /\ k1 = k
        \/ sent'[d] = sent[d] + 1 /\ k1 = k + 1
    BY <2>4
  <2> HIDE DEF i, j, k, k1
  <2>7. sent'[d] = i + j + k1
    BY <2>5, <2>6
  <2> QED
    BY <2>3, <2>7 DEF i, j, k1
<1>9. View!Next
  BY <1>1, ClientView, SameFds DEF EpollInv, E!TypeOK, EpollTable, EpollCounts, Unanswered
<1> QED
  BY <1>1, <1>3, <1>4, <1>6, <1>7, <1>8, <1>9 DEF EpollInv

\* What epoll_wait() reports.
LEMMA EpollReady ==
  ASSUME EpollInv
  PROVE  \A e \in E!Ready :
           \/ e = [ptr |-> E!Listening, ev |-> "IN"]
           \/ \E f \in E!Fds :
                /\ fdt[f] # NoConn /\ e.ptr = fdt[f] /\ e = [ptr |-> fdt[f], ev |-> E!EpollEvents(f)]
                /\ e.ev \in {"IN", "OUT", "HUP"}
                /\ e.ev = "HUP" => peer[e.ptr] = "rst"
<1> SUFFICES ASSUME NEW e \in E!Ready, e # [ptr |-> E!Listening, ev |-> "IN"]
             PROVE  \E f \in E!Fds :
                      /\ fdt[f] # NoConn /\ e.ptr = fdt[f]
                      /\ e = [ptr |-> fdt[f], ev |-> E!EpollEvents(f)]
                      /\ e.ev \in {"IN", "OUT", "HUP"}
                      /\ e.ev = "HUP" => peer[e.ptr] = "rst"
  OBVIOUS
<1>1. PICK f \in E!Fds : E!EpollEvents(f) # "0" /\ e = [ptr |-> fdt[f], ev |-> E!EpollEvents(f)]
  BY DEF E!Ready
<1>2. /\ fdt[f] # NoConn /\ E!EpollEvents(f) \in {"IN", "OUT", "HUP"}
      /\ E!EpollEvents(f) = "HUP" => peer[fdt[f]] = "rst"
  BY <1>1 DEF E!EpollEvents, E!PollEvents
<1> QED
  BY <1>1, <1>2

\* epoll_wait(): the new batch points to live Clients only, each once.
LEMMA EpollWait ==
  ASSUME EpollInv, server = "epoll", server' = server, E!Wait
  PROVE  EpollInv' /\ UNCHANGED View!vars
<1>1. /\ epc = "wait" /\ epc' = "loop" /\ events' = E!Ready
      /\ link' = link /\ peer' = peer /\ sent' = sent /\ inbox' = inbox /\ replied' = replied
      /\ fdt' = fdt /\ status' = status /\ state' = state /\ sd' = sd /\ interest' = interest
      /\ eGone' = eGone /\ eServed' = eServed /\ misused' = misused
  BY DEF E!Wait, E!env
<1>2. \A f \in E!Fds : fdt[f] # NoConn => fdt[f] \in Conns
  BY DEF EpollInv, E!TypeOK, E!SocketsType
<1>3. E!TypeOK'
  <2>1. E!Ready \subseteq [ptr : Conns \cup {E!Listening}, ev : {"IN", "OUT", "HUP", "NVAL"}]
    <3> SUFFICES ASSUME NEW e \in E!Ready
                 PROVE  e \in [ptr : Conns \cup {E!Listening}, ev : {"IN", "OUT", "HUP", "NVAL"}]
      OBVIOUS
    <3>1. CASE e = [ptr |-> E!Listening, ev |-> "IN"]
      BY <3>1
    <3>2. CASE \E f \in E!Fds :
                 /\ fdt[f] # NoConn /\ e.ptr = fdt[f]
                 /\ e = [ptr |-> fdt[f], ev |-> E!EpollEvents(f)]
                 /\ e.ev \in {"IN", "OUT", "HUP"}
      BY <1>2, <3>2
    <3> QED
      BY <3>1, <3>2, EpollReady
  <2>2. E!SocketsType'
    BY <1>1 DEF EpollInv, E!TypeOK, E!SocketsType
  <2> QED
    BY <1>1, <2>1, <2>2 DEF EpollInv, E!TypeOK
<1>4. EpollTable' /\ EpollOwes' /\ EpollCounts'
  BY <1>1 DEF EpollInv, EpollTable, EpollOwes, EpollCounts
<1>5. EpollBatch'
  <2>1. \A e \in E!Ready : e.ptr \in Conns =>
          \E f \in E!Fds :
            /\ fdt[f] = e.ptr /\ e = [ptr |-> fdt[f], ev |-> E!EpollEvents(f)]
            /\ state[e.ptr] # "none" /\ sd[e.ptr] = f
            /\ e.ev = "HUP" => peer[e.ptr] = "rst"
    <3> SUFFICES ASSUME NEW e \in E!Ready, e.ptr \in Conns
                 PROVE  \E f \in E!Fds :
                          /\ fdt[f] = e.ptr /\ e = [ptr |-> fdt[f], ev |-> E!EpollEvents(f)]
                          /\ state[e.ptr] # "none" /\ sd[e.ptr] = f
                          /\ e.ev = "HUP" => peer[e.ptr] = "rst"
      OBVIOUS
    <3>1. e # [ptr |-> E!Listening, ev |-> "IN"]
      BY ListenerAssumption
    <3>2. PICK f \in E!Fds :
            /\ fdt[f] # NoConn /\ e.ptr = fdt[f]
            /\ e = [ptr |-> fdt[f], ev |-> E!EpollEvents(f)]
            /\ e.ev = "HUP" => peer[e.ptr] = "rst"
      BY <3>1, EpollReady
    <3> QED
      BY <3>2 DEF EpollInv, EpollTable
  <2>2. \A e, d \in E!Ready : e.ptr = d.ptr => e = d
    <3> SUFFICES ASSUME NEW e \in E!Ready, NEW d \in E!Ready, e.ptr = d.ptr PROVE e = d
      OBVIOUS
    <3>1. CASE e.ptr \in Conns
      BY <2>1, <3>1
    <3>2. CASE e.ptr \notin Conns
      <4>1. \A x \in E!Ready : x.ptr \notin Conns => x = [ptr |-> E!Listening, ev |-> "IN"]
        BY <1>2, EpollReady
      <4> QED
        BY <3>2, <4>1
    <3> QED
      BY <3>1, <3>2
  <2>3. \A i \in DOMAIN eGone' : FALSE
    BY <1>1 DEF EpollInv, EpollGone
  <2> QED
    BY <1>1, <2>1, <2>2, <2>3 DEF EpollBatch
<1>6. EpollGone'
  BY <1>1 DEF EpollInv, EpollGone
<1>7. UNCHANGED View!vars
  BY <1>1, PhaseKept DEF View!vars, Unanswered
<1> QED
  BY <1>1, <1>3, <1>4, <1>5, <1>6, <1>7 DEF EpollInv

\* accept(): the new Client is not one of the batch nor of the disconnected.
LEMMA EpollAccept ==
  ASSUME EpollInv, server = "epoll", server' = server,
         NEW e \in events, events' = events \ {e}, epc = "loop", epc' = epc, E!AcceptAction(e)
  PROVE  EpollInv' /\ UNCHANGED View!vars
<1>1. PICK c \in Conns, s \in E!Fds :
        /\ E!AcceptAs(c, s)
        /\ state' = [state EXCEPT ![c] = "R"]
        /\ sd' = [sd EXCEPT ![c] = s]
        /\ interest' = [interest EXCEPT ![s] = "R"]
  BY DEF E!AcceptAction
<1>2. status' = status /\ eGone' = eGone /\ eServed' = eServed /\ misused' = misused
  BY DEF E!AcceptAction
<1>3. /\ link[c] = "backlog" /\ fdt[s] = NoConn
      /\ link' = [link EXCEPT ![c] = "accepted"] /\ fdt' = [fdt EXCEPT ![s] = c]
      /\ peer' = peer /\ sent' = sent /\ inbox' = inbox /\ replied' = replied
  BY <1>1 DEF E!AcceptAs
<1>4. state[c] = "none" /\ \A f \in E!Fds : fdt[f] # c
  BY <1>3, SocketsAssumption DEF EpollInv, EpollTable
<1>5. E!TypeOK'
  BY <1>1, <1>2, <1>3 DEF EpollInv, E!TypeOK, E!SocketsType
<1>6. EpollTable'
  BY <1>1, <1>3, <1>4, SocketsAssumption DEF EpollInv, EpollTable, E!TypeOK, E!SocketsType
<1>7. EpollOwes' /\ EpollCounts'
  BY <1>1, <1>2, <1>3, <1>4 DEF EpollInv, EpollOwes, EpollCounts, E!TypeOK
<1>8. EpollBatch'
  BY <1>1, <1>2, <1>3, <1>4 DEF EpollInv, EpollBatch, E!TypeOK
<1>9. EpollGone'
  <2>1. \A i \in DOMAIN eGone : eGone[i] \in Conns
    BY DEF EpollInv, E!TypeOK
  <2> QED
    BY <1>1, <1>2, <1>3, <1>4, <2>1 DEF EpollInv, EpollGone, E!TypeOK
<1>10. Phase' = Phase
  BY <1>1, <1>3, SocketsAssumption, SameFds DEF Phase, Reachable, EpollInv, E!TypeOK, E!SocketsType
<1> QED
  BY <1>2, <1>3, <1>5, <1>6, <1>7, <1>8, <1>9, <1>10 DEF EpollInv, View!vars, Unanswered

\* An event that changes nothing but the batch.
LEMMA EpollIdle ==
  ASSUME EpollInv, server = "epoll", server' = server,
         NEW e \in events, events' = events \ {e}, epc = "loop", epc' = epc,
         misused' = misused, E!Ignored
  PROVE  EpollInv' /\ UNCHANGED View!vars
<1>1. /\ status' = status /\ state' = state /\ sd' = sd /\ interest' = interest
      /\ eGone' = eGone /\ eServed' = eServed /\ misused' = misused
      /\ link' = link /\ peer' = peer /\ sent' = sent /\ inbox' = inbox /\ replied' = replied
      /\ fdt' = fdt
  BY DEF E!Ignored, E!env
<1>2. E!TypeOK'
  BY <1>1 DEF EpollInv, E!TypeOK, E!SocketsType
<1>3. EpollTable' /\ EpollOwes' /\ EpollCounts'
  BY <1>1 DEF EpollInv, EpollTable, EpollOwes, EpollCounts
<1>4. EpollBatch' /\ EpollGone'
  BY <1>1 DEF EpollInv, EpollBatch, EpollGone
<1> QED
  BY <1>1, <1>2, <1>3, <1>4, PhaseKept DEF EpollInv, View!vars, Unanswered

\* A failed accept() changes nothing but the batch.
LEMMA EpollAcceptFails ==
  ASSUME EpollInv, server = "epoll", server' = server,
         NEW e \in events, events' = events \ {e}, epc = "loop", epc' = epc, E!AcceptFails(e)
  PROVE  EpollInv' /\ UNCHANGED View!vars
<1>1. misused' = misused /\ E!Ignored
  BY DEF E!AcceptFails, E!Ignored
<1> QED
  BY <1>1, EpollIdle

\* A Client whose far end left is put on disconnected_clients: its event was the
\* only one that points to it.
LEMMA EpollLeaves ==
  ASSUME EpollInv, server = "epoll", server' = server,
         NEW e \in events, events' = events \ {e}, epc = "loop", epc' = epc,
         e.ptr \in Conns, peer[e.ptr] # "open", eGone' = Append(eGone, e.ptr),
         UNCHANGED <<link, peer, sent, inbox, replied, fdt>>,
         UNCHANGED <<status, state, sd, interest, eServed, misused>>
  PROVE  EpollInv' /\ UNCHANGED View!vars
<1>1. E!TypeOK'
  BY DEF EpollInv, E!TypeOK, E!SocketsType
<1>2. EpollTable' /\ EpollOwes' /\ EpollCounts'
  BY DEF EpollInv, EpollTable, EpollOwes, EpollCounts
<1>3. eGone \in Seq(Conns)
  BY DEF EpollInv, E!TypeOK
<1>4. /\ DOMAIN eGone = 1 .. Len(eGone) /\ Len(eGone) + 1 \notin DOMAIN eGone
      /\ \A i \in DOMAIN eGone' : \/ i \in DOMAIN eGone /\ eGone'[i] = eGone[i]
                                  \/ i = Len(eGone) + 1 /\ eGone'[i] = e.ptr
  BY <1>3, AppendElements
<1>5. EpollBatch'
  BY <1>4 DEF EpollInv, EpollBatch
<1>6. EpollGone'
  <2>1. state[e.ptr] # "none" /\ \A i \in DOMAIN eGone : eGone[i] # e.ptr
    BY DEF EpollInv, EpollBatch
  <2>2. \A i \in DOMAIN eGone' : state'[eGone'[i]] # "none" /\ peer'[eGone'[i]] # "open"
    BY <1>4, <2>1 DEF EpollInv, EpollGone
  <2>3. \A i, j \in DOMAIN eGone' : eGone'[i] = eGone'[j] => i = j
    BY <1>4, <2>1 DEF EpollInv, EpollGone
  <2> QED
    BY <2>2, <2>3 DEF EpollGone
<1> QED
  BY <1>1, <1>2, <1>5, <1>6, PhaseKept DEF EpollInv, View!vars, Unanswered

\* EPOLLHUP.
LEMMA EpollHangUp ==
  ASSUME EpollInv, server = "epoll", server' = server,
         NEW e \in events, events' = events \ {e}, epc = "loop", epc' = epc, E!HangUp(e)
  PROVE  EpollInv' /\ UNCHANGED View!vars
<1>1. e.ptr \in Conns /\ peer[e.ptr] = "rst" /\ eGone' = Append(eGone, e.ptr)
  BY DEF E!HangUp, EpollInv, EpollBatch
<1>2. UNCHANGED <<link, peer, sent, inbox, replied, fdt>>
        /\ UNCHANGED <<status, state, sd, interest, eServed, misused>>
  BY DEF E!HangUp, E!env
<1> QED
  BY <1>1, <1>2, EpollLeaves

\* The Client an event points to, through the descriptor it records.
LEMMA EpollTarget ==
  ASSUME EpollInv, NEW e \in events, e.ptr \in Conns
  PROVE  /\ state[e.ptr] # "none" /\ sd[e.ptr] \in E!Fds /\ fdt[sd[e.ptr]] = e.ptr
         /\ E!SocketAt(sd[e.ptr]) = e.ptr /\ e.ptr # NoConn
         /\ \A f \in E!Fds : fdt[f] = e.ptr => f = sd[e.ptr]
         /\ Phase[e.ptr] = "open" /\ link[e.ptr] = "accepted"
<1>1. state[e.ptr] # "none"
  BY DEF EpollInv, EpollBatch
<1>2. sd[e.ptr] \in E!Fds /\ fdt[sd[e.ptr]] = e.ptr /\ e.ptr # NoConn
  BY <1>1, SocketsAssumption DEF EpollInv, EpollTable
<1>3. link[e.ptr] = "accepted" /\ \A f \in E!Fds : fdt[f] = e.ptr => f = sd[e.ptr]
  BY <1>2 DEF EpollInv, EpollTable
<1>4. Phase[e.ptr] = "open"
  BY <1>2, <1>3, SameFds DEF Phase, Reachable
<1> QED
  BY <1>1, <1>2, <1>3, <1>4 DEF E!SocketAt

\* read() = 0 or read() < 0.
LEMMA EpollReadEnds ==
  ASSUME EpollInv, server = "epoll", server' = server,
         NEW e \in events, events' = events \ {e}, epc = "loop", epc' = epc,
         e.ptr \in Conns, state[e.ptr] = "R", misused' = misused, E!ReadEnds(e.ptr)
  PROVE  EpollInv' /\ UNCHANGED View!vars
<1>1. e.ptr \in Conns /\ eGone' = Append(eGone, e.ptr)
  BY DEF E!ReadEnds
<1>2. peer[e.ptr] # "open"
  BY <1>1, EpollTarget DEF E!ReadEnds, E!AtEnd
<1>3. UNCHANGED <<link, peer, sent, inbox, replied, fdt>>
        /\ UNCHANGED <<status, state, sd, interest, eServed, misused>>
  BY DEF E!ReadEnds, E!env
<1> QED
  BY <1>1, <1>2, <1>3, EpollLeaves

\* Reading k requests moves them from the inbox to what is owed, and answering
\* them moves them on.
LEMMA MovedOn ==
  ASSUME NEW r \in Seq(E!Request), NEW q \in Seq(E!Request), NEW k \in 1 .. Len(q)
  PROVE  /\ SubSeq(q, 1, k) \in Seq(E!Request) /\ SubSeq(q, k + 1, Len(q)) \in Seq(E!Request)
         /\ SubSeq(q, 1, k) # << >>
         /\ Len(r) + Len(SubSeq(q, 1, k)) + Len(SubSeq(q, k + 1, Len(q))) = Len(r) + 0 + Len(q)
<1> DEFINE i == Len(r)  j == Len(q)  a == SubSeq(q, 1, k)  b == SubSeq(q, k + 1, Len(q))
<1>1. i \in Nat /\ j \in Nat /\ k \in 1 .. j
  OBVIOUS
<1>2. a \in Seq(E!Request) /\ b \in Seq(E!Request)
  OBVIOUS
<1>3. Len(a) = k /\ Len(b) = j - k
  OBVIOUS
<1>4. a # << >>
  BY <1>1, <1>3
<1> HIDE DEF i, j, a, b
<1>5. i + Len(a) + Len(b) = i + 0 + j
  BY <1>1, <1>3
<1> QED
  BY <1>2, <1>4, <1>5 DEF i, j, a, b

\* read() > 0.
LEMMA EpollReadData ==
  ASSUME EpollInv, server = "epoll", server' = server, status = "running",
         NEW e \in events, events' = events \ {e}, epc = "loop", epc' = epc,
         e.ptr \in Conns, state[e.ptr] = "R", misused' = misused, E!ReadData(e.ptr)
  PROVE  EpollInv' /\ View!Next
<1> DEFINE c == e.ptr
<1>1. c \in Conns /\ state[c] = "R" /\ E!SocketAt(sd[c]) = c
  BY EpollTarget
<1>2. PICK k \in 1 .. Len(inbox[c]) :
        /\ inbox' = [inbox EXCEPT ![c] = SubSeq(inbox[c], k + 1, Len(inbox[c]))]
        /\ eServed' = [eServed EXCEPT ![c] = SubSeq(inbox[c], 1, k)]
  BY <1>1 DEF E!ReadData, E!Takes
<1>3. /\ state' = [state EXCEPT ![c] = "W"] /\ interest' = [interest EXCEPT ![sd[c]] = "W"]
      /\ link' = link /\ peer' = peer /\ sent' = sent /\ replied' = replied /\ fdt' = fdt
      /\ status' = status /\ sd' = sd /\ eGone' = eGone
  BY DEF E!ReadData
<1>4. misused' = misused
  OBVIOUS
<1>5. /\ sd[c] \in E!Fds /\ fdt[sd[c]] = c /\ c # NoConn /\ Phase[c] = "open"
      /\ \A f \in E!Fds : fdt[f] = c => f = sd[c]
  BY <1>1, EpollTarget
<1>6. inbox[c] \in Seq(E!Request) /\ replied[c] \in Seq(E!Request)
  BY <1>1 DEF EpollInv, E!TypeOK, E!SocketsType
<1> HIDE DEF c
<1>7. /\ SubSeq(inbox[c], 1, k) \in Seq(E!Request)
      /\ SubSeq(inbox[c], k + 1, Len(inbox[c])) \in Seq(E!Request)
      /\ SubSeq(inbox[c], 1, k) # << >>
      /\ Len(replied[c]) + Len(SubSeq(inbox[c], 1, k)) + Len(SubSeq(inbox[c], k + 1, Len(inbox[c])))
           = Len(replied[c]) + 0 + Len(inbox[c])
  BY <1>6, MovedOn
<1>8. E!TypeOK'
  BY <1>1, <1>2, <1>3, <1>4, <1>7 DEF EpollInv, E!TypeOK, E!SocketsType
<1>9. EpollTable'
  BY <1>1, <1>3, <1>5 DEF EpollInv, EpollTable, E!TypeOK, E!SocketsType
<1>10. EpollOwes'
  BY <1>1, <1>2, <1>3, <1>7 DEF EpollInv, EpollOwes, E!TypeOK
<1>11. EpollBatch'
  BY <1>1, <1>3 DEF EpollInv, EpollBatch, E!TypeOK
<1>12. EpollGone'
  <2>1. \A i \in DOMAIN eGone : eGone[i] \in Conns
    BY DEF EpollInv, E!TypeOK
  <2> QED
    BY <1>1, <1>3, <2>1 DEF EpollInv, EpollGone, E!TypeOK
<1>13. eServed[c] = << >>
  BY <1>1 DEF EpollInv, EpollOwes
<1>14. EpollCounts'
  <2> SUFFICES ASSUME NEW d \in Conns, peer'[d] = "open"
               PROVE  sent'[d] = Len(replied'[d]) + Len(eServed'[d]) + Len(inbox'[d])
    BY DEF EpollCounts
  <2>1. sent[d] = Len(replied[d]) + Len(eServed[d]) + Len(inbox[d])
    BY <1>3 DEF EpollInv, EpollCounts
  <2>2. CASE d # c
    BY <1>2, <1>3, <2>1, <2>2 DEF EpollInv, E!TypeOK, E!SocketsType
  <2>3. CASE d = c
    <3>1. sent[c] = Len(replied[c]) + 0 + Len(inbox[c])
      BY <1>13, <2>1, <2>3
    <3>2. eServed'[c] = SubSeq(inbox[c], 1, k) /\ inbox'[c] = SubSeq(inbox[c], k + 1, Len(inbox[c]))
      BY <1>1, <1>2 DEF EpollInv, E!TypeOK, E!SocketsType
    <3> QED
      BY <1>3, <1>7, <2>3, <3>1, <3>2
  <2> QED
    BY <2>2, <2>3
<1>15. View!Take(c)
  <2>1. Phase' = Phase /\ Unanswered = eServed /\ Unanswered' = eServed'
    BY <1>3, PhaseKept DEF Unanswered
  <2> QED
    BY <1>2, <1>3, <1>5, <1>13, <2>1 DEF View!Take
<1> QED
  BY <1>1, <1>4, <1>8, <1>9, <1>10, <1>11, <1>12, <1>14, <1>15 DEF EpollInv, View!Next

\* write(): the answer goes to the Client's own socket, or is lost.
LEMMA EpollWriteAnswer ==
  ASSUME EpollInv, server = "epoll", server' = server, status = "running",
         NEW e \in events, events' = events \ {e}, epc = "loop", epc' = epc,
         e.ptr \in Conns, state[e.ptr] = "W", misused' = misused, E!WriteAnswer(e.ptr)
  PROVE  EpollInv' /\ View!Next
<1> DEFINE c == e.ptr
<1>1. c \in Conns /\ state[c] = "W" /\ E!SocketAt(sd[c]) = c
  BY EpollTarget
<1>2. /\ sd[c] \in E!Fds /\ fdt[sd[c]] = c /\ c # NoConn /\ Phase[c] = "open"
      /\ \A f \in E!Fds : fdt[f] = c => f = sd[c]
  BY <1>1, EpollTarget
<1>3. replied' = IF peer[c] # "rst" THEN [replied EXCEPT ![c] = replied[c] \o eServed[c]] ELSE replied
  BY <1>1, <1>2 DEF E!WriteAnswer, E!WriteTo
<1>4. /\ eServed' = [eServed EXCEPT ![c] = << >>]
      /\ state' = [state EXCEPT ![c] = "R"] /\ interest' = [interest EXCEPT ![sd[c]] = "R"]
      /\ link' = link /\ peer' = peer /\ sent' = sent /\ inbox' = inbox /\ fdt' = fdt
      /\ status' = status /\ sd' = sd /\ eGone' = eGone
  BY DEF E!WriteAnswer
<1>5. misused' = misused
  OBVIOUS
<1>6. inbox[c] \in Seq(E!Request) /\ replied[c] \in Seq(E!Request) /\ eServed[c] \in Seq(E!Request)
  BY <1>1 DEF EpollInv, E!TypeOK, E!SocketsType
<1> HIDE DEF c
<1>7. /\ replied[c] \o eServed[c] \in Seq(E!Request)
      /\ Len(replied[c] \o eServed[c]) = Len(replied[c]) + Len(eServed[c])
  BY <1>6
<1>8. E!TypeOK'
  <2>1. replied' \in [Conns -> Seq(E!Request)]
    BY <1>1, <1>3, <1>7 DEF EpollInv, E!TypeOK, E!SocketsType
  <2>2. E!SocketsType'
    BY <1>4, <2>1 DEF EpollInv, E!TypeOK, E!SocketsType
  <2>3. state' \in [Conns -> {"none", "R", "W"}] /\ interest' \in [E!Fds -> {"none", "R", "W"}]
    BY <1>1, <1>4 DEF EpollInv, E!TypeOK
  <2>4. eServed' \in [Conns -> Seq(E!Request)]
    BY <1>1, <1>4, EmptySeq DEF EpollInv, E!TypeOK
  <2> QED
    BY <1>4, <1>5, <2>2, <2>3, <2>4 DEF EpollInv, E!TypeOK
<1>9. EpollTable'
  BY <1>1, <1>2, <1>4 DEF EpollInv, EpollTable, E!TypeOK, E!SocketsType
<1>10. EpollOwes'
  BY <1>1, <1>4 DEF EpollInv, EpollOwes, E!TypeOK
<1>11. EpollBatch'
  BY <1>1, <1>4 DEF EpollInv, EpollBatch, E!TypeOK
<1>12. EpollGone'
  <2>1. \A i \in DOMAIN eGone : eGone[i] \in Conns
    BY DEF EpollInv, E!TypeOK
  <2> QED
    BY <1>1, <1>4, <2>1 DEF EpollInv, EpollGone, E!TypeOK
<1>13. EpollCounts'
  <2> SUFFICES ASSUME NEW d \in Conns, peer'[d] = "open"
               PROVE  sent'[d] = Len(replied'[d]) + Len(eServed'[d]) + Len(inbox'[d])
    BY DEF EpollCounts
  <2>1. sent[d] = Len(replied[d]) + Len(eServed[d]) + Len(inbox[d])
    BY <1>4 DEF EpollInv, EpollCounts
  <2>2. CASE d # c
    BY <1>3, <1>4, <2>1, <2>2 DEF EpollInv, E!TypeOK, E!SocketsType
  <2>3. CASE d = c
    <3>1. Len(replied'[c]) = Len(replied[c]) + Len(eServed[c]) /\ eServed'[c] = << >>
      BY <1>1, <1>3, <1>4, <1>7, <2>3 DEF EpollInv, E!TypeOK, E!SocketsType
    <3>2. Len(replied'[c]) + Len(eServed'[c]) = Len(replied[c]) + Len(eServed[c])
      BY <1>6, <3>1
    <3> QED
      BY <1>4, <2>1, <2>3, <3>2
  <2> QED
    BY <2>2, <2>3
<1>14. View!Answer(c)
  <2>1. Phase' = Phase /\ Unanswered = eServed /\ Unanswered' = eServed'
    BY <1>4, PhaseKept DEF Unanswered
  <2>2. eServed[c] # << >>
    BY <1>1 DEF EpollInv, EpollOwes
  <2> QED
    BY <1>2, <1>3, <1>4, <2>1, <2>2 DEF View!Answer
<1> QED
  BY <1>1, <1>5, <1>8, <1>9, <1>10, <1>11, <1>12, <1>13, <1>14 DEF EpollInv, View!Next

\* SIGPIPE: the client whose Client is written to has reset its connection.
LEMMA EpollSigpipe ==
  ASSUME EpollInv, server = "epoll", server' = server, status = "running",
         NEW e \in events, events' = events \ {e}, epc = "loop", epc' = epc,
         e.ptr \in Conns, state[e.ptr] = "W", misused' = misused, E!WriteSigpipe(e.ptr)
  PROVE  EpollInv' /\ View!Next
<1>1. /\ status' = "sigpipe" /\ state' = state /\ sd' = sd /\ interest' = interest
      /\ eGone' = eGone /\ eServed' = eServed /\ misused' = misused
      /\ link' = link /\ peer' = peer /\ sent' = sent /\ inbox' = inbox /\ replied' = replied
      /\ fdt' = fdt
  BY DEF E!WriteSigpipe, E!env
<1>2. e.ptr \in Conns /\ peer[e.ptr] = "rst" /\ Phase[e.ptr] = "open"
  BY EpollTarget DEF E!WriteSigpipe
<1>3. E!TypeOK'
  BY <1>1 DEF EpollInv, E!TypeOK, E!SocketsType
<1>4. EpollTable' /\ EpollOwes' /\ EpollCounts'
  BY <1>1 DEF EpollInv, EpollTable, EpollOwes, EpollCounts
<1>5. EpollBatch' /\ EpollGone'
  BY <1>1 DEF EpollInv, EpollBatch, EpollGone
<1>6. View!GoDown
  <2>1. Phase' = Phase /\ Unanswered' = Unanswered
    BY <1>1, PhaseKept DEF Unanswered
  <2> QED
    BY <1>1, <1>2, <2>1 DEF View!GoDown
<1> QED
  BY <1>1, <1>3, <1>4, <1>5, <1>6 DEF EpollInv, View!Next

\* EPOLLIN: the event points to a live Client, so reading its state is sound.
LEMMA EpollReadEvent ==
  ASSUME EpollInv, server = "epoll", server' = server, status = "running",
         NEW e \in events, events' = events \ {e}, epc = "loop", epc' = epc, E!ReadEvent(e)
  PROVE  EpollInv' /\ [View!Next]_(View!vars)
<1>1. e.ptr \in Conns
  BY DEF E!ReadEvent
<1>2. state[e.ptr] # "none" /\ misused' = (misused \/ state[e.ptr] = "none")
  BY <1>1, EpollTarget DEF E!ReadEvent, E!Use
<1>3. misused' = misused
  BY <1>2 DEF EpollInv, E!TypeOK
<1>4. CASE state[e.ptr] # "R"
  <2>1. E!Ignored
    BY <1>4 DEF E!ReadEvent
  <2> QED
    BY <1>3, <2>1, EpollIdle
<1>5. CASE state[e.ptr] = "R"
  <2>1. E!ReadData(e.ptr) \/ E!ReadEnds(e.ptr)
    BY <1>5 DEF E!ReadEvent
  <2> QED
    BY <1>1, <1>3, <1>5, <2>1, EpollReadData, EpollReadEnds
<1> QED
  BY <1>4, <1>5

\* EPOLLOUT: likewise.
LEMMA EpollWriteEvent ==
  ASSUME EpollInv, server = "epoll", server' = server, status = "running",
         NEW e \in events, events' = events \ {e}, epc = "loop", epc' = epc, E!WriteEvent(e)
  PROVE  EpollInv' /\ [View!Next]_(View!vars)
<1>1. e.ptr \in Conns
  BY DEF E!WriteEvent
<1>2. state[e.ptr] # "none" /\ misused' = (misused \/ state[e.ptr] = "none")
  BY <1>1, EpollTarget DEF E!WriteEvent, E!Use
<1>3. misused' = misused
  BY <1>2 DEF EpollInv, E!TypeOK
<1>4. CASE state[e.ptr] # "W"
  <2>1. E!Ignored
    BY <1>4 DEF E!WriteEvent
  <2> QED
    BY <1>3, <2>1, EpollIdle
<1>5. CASE state[e.ptr] = "W"
  <2>1. E!WriteAnswer(e.ptr) \/ E!WriteSigpipe(e.ptr)
    BY <1>5 DEF E!WriteEvent
  <2> QED
    BY <1>1, <1>3, <1>5, <2>1, EpollWriteAnswer, EpollSigpipe
<1> QED
  BY <1>4, <1>5

\* The ends of the two loops.
LEMMA EpollTurns ==
  ASSUME EpollInv, server = "epoll", server' = server, E!LoopEnd \/ E!CleanupEnd
  PROVE  EpollInv' /\ UNCHANGED View!vars
<1>1. /\ status' = status /\ state' = state /\ sd' = sd /\ interest' = interest
      /\ eGone' = eGone /\ eServed' = eServed /\ misused' = misused /\ events' = events
      /\ link' = link /\ peer' = peer /\ sent' = sent /\ inbox' = inbox /\ replied' = replied
      /\ fdt' = fdt
  <2>1. CASE E!LoopEnd
    BY <2>1 DEF E!LoopEnd, E!env
  <2>2. CASE E!CleanupEnd
    BY <2>2 DEF E!CleanupEnd, E!env
  <2> QED
    BY <2>1, <2>2
<1>2. \/ epc' = "cleanup" /\ events = {}
      \/ epc' = "wait" /\ epc = "cleanup" /\ eGone = << >>
  BY DEF E!LoopEnd, E!CleanupEnd
<1>3. E!TypeOK'
  BY <1>1, <1>2 DEF EpollInv, E!TypeOK, E!SocketsType
<1>4. EpollTable' /\ EpollOwes' /\ EpollCounts'
  BY <1>1 DEF EpollInv, EpollTable, EpollOwes, EpollCounts
<1>5. EpollBatch' /\ EpollGone'
  BY <1>1, <1>2 DEF EpollInv, EpollBatch, EpollGone
<1> QED
  BY <1>1, <1>3, <1>4, <1>5, PhaseKept DEF EpollInv, View!vars, Unanswered

\* close() and delete of a disconnected Client.
LEMMA EpollCleanup ==
  ASSUME EpollInv, server = "epoll", server' = server, status = "running", E!Cleanup
  PROVE  EpollInv' /\ View!Next
<1>1. eGone # << >> /\ epc = "cleanup" /\ eGone' = Tail(eGone)
  BY DEF E!Cleanup
<1>0. PICK c \in Conns :
        /\ c = Head(eGone) /\ 1 \in DOMAIN eGone /\ eGone[1] = c /\ Tail(eGone) \in Seq(Conns)
        /\ \A i \in DOMAIN Tail(eGone) :
             i + 1 \in DOMAIN eGone /\ Tail(eGone)[i] = eGone[i + 1] /\ Tail(eGone)[i] # c
        /\ \A i, j \in DOMAIN Tail(eGone) : Tail(eGone)[i] = Tail(eGone)[j] => i = j
  <2>1. eGone \in Seq(Conns) /\ \A i, j \in DOMAIN eGone : eGone[i] = eGone[j] => i = j
    BY DEF EpollInv, E!TypeOK, EpollGone
  <2> QED
    BY <1>1, <2>1, TailElements, TailDistinct
<1>2. /\ fdt' = [f \in E!Fds |-> IF f = sd[c] THEN NoConn ELSE fdt[f]]
      /\ interest' = [interest EXCEPT ![sd[c]] = "none"]
      /\ state' = [state EXCEPT ![c] = "none"] /\ eServed' = [eServed EXCEPT ![c] = << >>]
      /\ misused' = (misused \/ state[c] = "none")
      /\ status' = status /\ sd' = sd /\ events' = events /\ epc' = epc
      /\ link' = link /\ peer' = peer /\ sent' = sent /\ inbox' = inbox /\ replied' = replied
  BY <1>0 DEF E!Cleanup, E!Closed, E!Use, E!env
<1>3. state[c] # "none" /\ peer[c] # "open"
  BY <1>0 DEF EpollInv, EpollGone
<1>4. /\ sd[c] \in E!Fds /\ fdt[sd[c]] = c /\ c # NoConn /\ link[c] = "accepted"
      /\ \A f \in E!Fds : fdt[f] = c => f = sd[c]
  BY <1>3, SocketsAssumption DEF EpollInv, EpollTable
<1>5. misused' = misused
  BY <1>2, <1>3 DEF EpollInv, E!TypeOK
<1>6. E!TypeOK'
  BY <1>0, <1>1, <1>2, <1>4, <1>5 DEF EpollInv, E!TypeOK, E!SocketsType
<1>7. EpollTable'
  <2>1. EpollTable /\ sd \in [Conns -> E!Fds \cup {-1}] /\ fdt \in [E!Fds -> Conns \cup {NoConn}]
        /\ state \in [Conns -> {"none", "R", "W"}] /\ interest \in [E!Fds -> {"none", "R", "W"}]
    BY DEF EpollInv, E!TypeOK, E!SocketsType
  <2>2. sd' = sd /\ link' = link
    BY <1>2
  <2>3. \A f \in E!Fds : fdt'[f] = IF f = sd[c] THEN NoConn ELSE fdt[f]
    BY <1>2
  <2>4. \A d \in Conns : state'[d] = IF d = c THEN "none" ELSE state[d]
    BY <1>2, <2>1
  <2>5. \A f \in E!Fds : f # sd[c] => interest'[f] = interest[f]
    BY <1>2, <2>1
  <2> QED
    BY <1>4, <2>1, <2>2, <2>3, <2>4, <2>5 DEF EpollTable
<1>8. EpollOwes'
  BY <1>1, <1>2 DEF EpollInv, EpollOwes, E!TypeOK
<1>9. EpollBatch'
  BY <1>1, <1>2 DEF EpollInv, EpollBatch
<1>10. EpollGone'
  <2>1. \A i \in DOMAIN Tail(eGone) : Tail(eGone)[i] \in Conns
    BY <1>0
  <2> QED
    BY <1>0, <1>1, <1>2, <2>1 DEF EpollInv, EpollGone, E!TypeOK
<1>11. EpollCounts'
  BY <1>0, <1>1, <1>2, <1>3 DEF EpollInv, EpollCounts, E!TypeOK
<1>12. View!Drop(c)
  <2>1. Phase[c] = "open"
    BY <1>4, SameFds DEF Phase, Reachable
  <2>2. Phase' = [Phase EXCEPT ![c] = "closed"]
    <3>1. ~ Reachable(c)'
      BY <1>0, <1>1, <1>2, <1>4, SameFds DEF Reachable
    <3>2. \A d \in Conns : d # c => (Reachable(d)' <=> Reachable(d))
      <4> SUFFICES ASSUME NEW d \in Conns, d # c
                   PROVE  (\E f \in Fds : fdt'[f] = d) <=> (\E f \in Fds : fdt[f] = d)
        BY <1>2 DEF Reachable
      <4>1. \A f \in Fds : fdt'[f] = d <=> fdt[f] = d
        BY <1>2, <1>4, SameFds, SocketsAssumption
      <4> QED
        BY <4>1
    <3> QED
      BY <1>0, <1>1, <1>2, <1>4, <3>1, <3>2 DEF Phase
  <2>3. Unanswered = eServed /\ Unanswered' = eServed'
    BY DEF Unanswered
  <2> QED
    BY <1>2, <1>3, <2>1, <2>2, <2>3 DEF View!Drop
<1> QED
  BY <1>5, <1>6, <1>7, <1>8, <1>9, <1>10, <1>11, <1>12 DEF EpollInv, View!Next

\* Every step of the epoll server.
LEMMA EpollStep ==
  ASSUME EpollInv, server = "epoll", server' = server, E!Next
  PROVE  EpollInv' /\ [View!Next]_(View!vars)
<1>1. CASE \E c \in Conns : E!Client(c)
  BY <1>1, EpollClient
<1>2. CASE E!EventStep
  <2>1. status = "running"
    BY <1>2 DEF E!EventStep
  <2>2. CASE E!Wait
    BY <2>2, EpollWait
  <2>3. CASE E!Handle
    <3>1. PICK e \in events :
            /\ epc = "loop" /\ events' = events \ {e} /\ epc' = epc
            /\ \/ E!AcceptAction(e) \/ E!AcceptFails(e) \/ E!HangUp(e)
               \/ E!ReadEvent(e) \/ E!WriteEvent(e)
      BY <2>3 DEF E!Handle
    <3>2. CASE E!AcceptAction(e)
      BY <3>1, <3>2, EpollAccept
    <3>3. CASE E!AcceptFails(e)
      BY <3>1, <3>3, EpollAcceptFails
    <3>4. CASE E!HangUp(e)
      BY <3>1, <3>4, EpollHangUp
    <3>5. CASE E!ReadEvent(e)
      BY <2>1, <3>1, <3>5, EpollReadEvent
    <3>6. CASE E!WriteEvent(e)
      BY <2>1, <3>1, <3>6, EpollWriteEvent
    <3> QED
      BY <3>1, <3>2, <3>3, <3>4, <3>5, <3>6
  <2>4. CASE E!LoopEnd \/ E!CleanupEnd
    BY <2>4, EpollTurns
  <2>5. CASE E!Cleanup
    BY <2>1, <2>5, EpollCleanup
  <2> QED
    BY <1>2, <2>2, <2>3, <2>4, <2>5 DEF E!EventStep
<1> QED
  BY <1>1, <1>2 DEF E!Next

(***************************************************************************)
(* Each step of the select() server keeps its invariant and is a step of   *)
(* Session or invisible to the clients.                                    *)
(***************************************************************************)
\* The instances see the same clients.
LEMMA SameClients ==
  /\ S!Request = E!Request /\ (S!SocketsType <=> E!SocketsType)
  /\ \A c \in Conns : S!ClientStep(c) <=> E!ClientStep(c)
  /\ S!Listener \notin Fds
BY SocketsAssumption
   DEF S!SocketsType, E!SocketsType, S!Request, E!Request, S!Fds, E!Fds, Fds, S!Listener,
       S!ClientStep, E!ClientStep, S!Connect, E!Connect, S!Send, E!Send,
       S!Finish, E!Finish, S!Reset, E!Reset, S!Reachable, E!Reachable

\* What was read is owed to the client of the entry the loop stands at, and
\* nobody else is owed anything.
LEMMA SelectOwed ==
  ASSUME SelectInv
  PROVE  /\ spc # "write" => SelectPending = [d \in Conns |-> << >>]
         /\ spc = "write" =>
              \E c \in Conns :
                /\ si \in DOMAIN sClients /\ sClients[si] \in Fds /\ fdt[sClients[si]] = c
                /\ SelectPending = [d \in Conns |-> IF d = c THEN buf ELSE << >>]
                /\ SocketAt(sClients[si]) = c /\ Phase[c] = "open" /\ buf # << >>
<1>1. CASE spc # "write"
  BY <1>1 DEF SelectPending
<1>2. CASE spc = "write"
  <2>1. si \in DOMAIN sClients /\ si # 1
    BY <1>2 DEF SelectInv, SelectBuf, S!TypeOK
  <2>2. sClients[si] \in Fds /\ fdt[sClients[si]] # NoConn
    BY <2>1, SameFds DEF SelectInv, SelectTable
  <2>3. PICK c \in Conns : fdt[sClients[si]] = c
    BY <2>2, SameFds DEF SelectInv, S!TypeOK, S!SocketsType
  <2>4. SocketAt(sClients[si]) = c
    BY <2>2, <2>3 DEF SocketAt
  <2>5. Phase[c] = "open"
    <3>1. link[c] = "accepted"
      BY <2>2, <2>3, SameFds DEF SelectInv, SelectTable
    <3> QED
      BY <2>2, <2>3, <3>1 DEF Phase, Reachable
  <2>6. SelectPending = [d \in Conns |-> IF d = c THEN buf ELSE << >>]
    BY <1>2, <2>4 DEF SelectPending
  <2> QED
    BY <1>2, <2>1, <2>2, <2>3, <2>4, <2>5, <2>6 DEF SelectInv, SelectBuf
<1> QED
  BY <1>1, <1>2

\* A client's step.
LEMMA SelectClient ==
  ASSUME SelectInv, server = "select", server' = server, NEW c \in Conns, S!Client(c)
  PROVE  SelectInv' /\ View!Next
<1>1. /\ E!ClientStep(c) /\ status = "running" /\ status' = status
      /\ sClients' = sClients /\ read_fds' = read_fds /\ spc' = spc /\ si' = si
      /\ buf' = buf /\ sGone' = sGone
  BY SameClients DEF S!Client, S!local
<1>2. E!SocketsType
  BY SameClients DEF SelectInv, S!TypeOK
<1>3. /\ E!SocketsType'
      /\ replied' = replied /\ fdt' = fdt
      /\ \A d \in Conns : d # c =>
           link'[d] = link[d] /\ peer'[d] = peer[d] /\ sent'[d] = sent[d] /\ inbox'[d] = inbox[d]
      /\ link[c] = "accepted" => link'[c] = "accepted"
      /\ peer[c] # "open" => peer'[c] # "open"
      /\ \/ sent'[c] = sent[c] /\ inbox' = inbox
         \/ sent'[c] = sent[c] + 1 /\ Len(inbox'[c]) = Len(inbox[c]) + 1
  BY <1>1, <1>2, ClientSteps
<1>4. S!TypeOK'
  <2>1. S!SocketsType'
    BY <1>3, SameClients, PTL
  <2> QED
    BY <1>1, <2>1 DEF SelectInv, S!TypeOK
<1>5. \A f \in S!Fds : fdt[f] # NoConn => fdt[f] \in Conns
  BY DEF SelectInv, S!TypeOK, S!SocketsType
<1>6. \A d \in Conns : /\ peer[d] # "open" => peer'[d] # "open"
                       /\ link[d] = "accepted" => link'[d] = "accepted"
  BY <1>3
<1>7. SelectTable'
  BY <1>1, <1>3, <1>5, <1>6 DEF SelectInv, SelectTable
<1>8. SelectGone'
  BY <1>1, <1>3, <1>5, <1>6 DEF SelectInv, SelectGone
<1>9. SelectBuf' /\ SelectPending' = SelectPending
  BY <1>1, <1>3 DEF SelectInv, SelectBuf, SelectPending, SocketAt
<1>10. SelectCounts'
  <2> SUFFICES ASSUME NEW d \in Conns, peer'[d] = "open"
               PROVE  sent'[d] = Len(replied'[d]) + Len(SelectPending'[d]) + Len(inbox'[d])
    BY DEF SelectCounts
  <2>1. sent[d] = Len(replied[d]) + Len(SelectPending[d]) + Len(inbox[d])
    BY <1>6 DEF SelectInv, SelectCounts
  <2>2. SelectPending[d] \in Seq(E!Request)
    BY SameClients, EmptySeq DEF SelectInv, S!TypeOK, SelectPending
  <2>3. /\ sent[d] \in Nat /\ replied[d] \in Seq(E!Request) /\ inbox[d] \in Seq(E!Request)
        /\ \/ sent'[d] = sent[d] /\ inbox'[d] = inbox[d]
           \/ sent'[d] = sent[d] + 1 /\ Len(inbox'[d]) = Len(inbox[d]) + 1
    BY <1>2, <1>3 DEF E!SocketsType
  <2> DEFINE i == Len(replied[d])  j == Len(SelectPending[d])
             k == Len(inbox[d])  k1 == Len(inbox'[d])  n == sent[d]  n1 == sent'[d]
  <2>4. n1 = i + j + k1
    <3>1. n = i + j + k
      BY <2>1
    <3>3. n \in Nat /\ i \in Nat /\ j \in Nat /\ k \in Nat
      BY <2>2, <2>3
    <3>2. \/ n1 = n /\ k1 = k
          \/ n1 = n + 1 /\ k1 = k + 1
      BY <2>3
    <3> HIDE DEF i, j, k, k1, n, n1
    <3> QED
      BY <3>1, <3>2, <3>3
  <2> QED
    BY <1>3, <1>9, <2>4
<1>11. View!Next
  <2>1. Unanswered = SelectPending /\ Unanswered' = SelectPending'
    BY DEF Unanswered
  <2>2. \A f \in Fds : fdt[f] # NoConn => link[fdt[f]] = "accepted"
    BY SameFds DEF SelectInv, SelectTable
  <2> QED
    BY <1>1, <1>2, <1>9, <2>1, <2>2, ClientView DEF SelectInv, SelectCounts
<1> QED
  BY <1>1, <1>4, <1>7, <1>8, <1>9, <1>10, <1>11 DEF SelectInv

\* A step of the loop that moves only the loop.
LEMMA SelectMoves ==
  ASSUME SelectInv, server = "select", server' = server,
         UNCHANGED <<link, peer, sent, inbox, replied, fdt>>, UNCHANGED <<status, sClients, buf, sGone>>,
         spc # "write", spc' # "write", spc' \in {"select", "loop", "cleanup"},
         read_fds' \subseteq S!Fds \cup {S!Listener}, si' \in Nat \ {0},
         spc' = "select" => sGone = << >>,
         spc' = "loop" => sGone = << >> \/ (spc = "loop" /\ si' = si + 1)
  PROVE  SelectInv' /\ UNCHANGED View!vars
<1>1. S!TypeOK' /\ SelectTable' /\ SelectBuf'
  BY DEF SelectInv, S!TypeOK, S!SocketsType, SelectTable, SelectBuf
<1>2. SelectPending' = SelectPending
  BY DEF SelectPending
<1>3. SelectCounts'
  BY <1>2 DEF SelectInv, SelectCounts
<1>4. SelectGone'
  <2>1. CASE spc' # "loop" \/ sGone = << >>
    BY <2>1 DEF SelectInv, SelectGone
  <2>2. CASE spc = "loop" /\ spc' = "loop" /\ si' = si + 1
    <3>1. \A j \in DOMAIN sClients : j < si => j < si'
      BY <2>2 DEF SelectInv, S!TypeOK
    <3> QED
      BY <2>2, <3>1 DEF SelectInv, SelectGone
  <2> QED
    BY <2>1, <2>2
<1>5. UNCHANGED View!vars
  BY <1>2, PhaseKept DEF View!vars, Unanswered
<1> QED
  BY <1>1, <1>3, <1>4, <1>5 DEF SelectInv

\* select() never fails: no closed descriptor is among the entries.
LEMMA SelectCall ==
  ASSUME SelectInv, server = "select", server' = server, S!Select
  PROVE  SelectInv' /\ UNCHANGED View!vars
<1>1. \A s \in S!ToSet(sClients) \ {S!Listener} : S!SocketAt(s) # NoConn
  BY DEF SelectInv, SelectTable, S!ToSet, S!SocketAt
<1>2. /\ read_fds' = {s \in S!ToSet(sClients) : S!Readable(s)} /\ spc = "select" /\ spc' = "loop"
      /\ UNCHANGED <<status, sClients, si, buf, sGone>>
      /\ UNCHANGED <<link, peer, sent, inbox, replied, fdt>>
  BY <1>1 DEF S!Select, S!env
<1>3. read_fds' \subseteq S!Fds \cup {S!Listener}
  BY <1>2 DEF S!ToSet, SelectInv, S!TypeOK
<1>4. sGone = << >> /\ si' \in Nat \ {0}
  BY <1>2 DEF SelectInv, SelectGone, S!TypeOK
<1> QED
  BY <1>2, <1>3, <1>4, SelectMoves

\* The steps that skip an entry and that end the loops.
LEMMA SelectTurns ==
  ASSUME SelectInv, server = "select", server' = server,
         S!LoopSkip \/ S!LoopEnd \/ S!CleanupEnd
  PROVE  SelectInv' /\ UNCHANGED View!vars
<1>1. CASE S!LoopSkip
  BY <1>1, SelectMoves DEF S!LoopSkip, S!env, SelectInv, S!TypeOK
<1>2. CASE S!LoopEnd
  BY <1>2, SelectMoves DEF S!LoopEnd, S!env, SelectInv, S!TypeOK
<1>3. CASE S!CleanupEnd
  BY <1>3, SelectMoves DEF S!CleanupEnd, S!env, SelectInv, S!TypeOK
<1> QED
  BY <1>1, <1>2, <1>3

\* accept(): the new entry is a new number for the vector.
LEMMA SelectAccept ==
  ASSUME SelectInv, server = "select", server' = server, S!LoopAccept
  PROVE  SelectInv' /\ UNCHANGED View!vars
<1>1. PICK c \in Conns, s \in S!Fds : S!AcceptAs(c, s) /\ sClients' = Append(sClients, s)
  BY DEF S!LoopAccept
<1>2. /\ spc = "loop" /\ spc' = "cleanup" /\ status' = status /\ read_fds' = read_fds /\ si' = si
      /\ buf' = buf /\ sGone' = sGone
  BY DEF S!LoopAccept, S!Current
<1>3. /\ link[c] = "backlog" /\ fdt[s] = NoConn
      /\ link' = [link EXCEPT ![c] = "accepted"] /\ fdt' = [fdt EXCEPT ![s] = c]
      /\ peer' = peer /\ sent' = sent /\ inbox' = inbox /\ replied' = replied
  BY <1>1 DEF S!AcceptAs
<1>4. \A f \in S!Fds : fdt[f] # c
  BY <1>1, <1>3, SocketsAssumption DEF SelectInv, SelectTable
<1>5. /\ Append(sClients, s) \in Seq(S!Fds \cup {S!Listener})
      /\ DOMAIN sClients = 1 .. Len(sClients) /\ Len(sClients) + 1 \notin DOMAIN sClients
      /\ \A i \in DOMAIN sClients :
           i \in DOMAIN Append(sClients, s) /\ Append(sClients, s)[i] = sClients[i]
      /\ \A i \in DOMAIN Append(sClients, s) :
           \/ i \in DOMAIN sClients /\ Append(sClients, s)[i] = sClients[i]
           \/ i = Len(sClients) + 1 /\ Append(sClients, s)[i] = s
  <2>1. sClients \in Seq(S!Fds \cup {S!Listener}) /\ s \in S!Fds \cup {S!Listener}
    BY DEF SelectInv, S!TypeOK
  <2> QED
    BY <2>1, AppendElements
<1>6. 1 \in DOMAIN sClients
  BY DEF SelectInv, SelectTable, S!TypeOK
<1>7. S!TypeOK'
  <2>1. S!SocketsType'
    BY <1>1, <1>3 DEF SelectInv, S!TypeOK, S!SocketsType
  <2> QED
    BY <1>1, <1>2, <1>5, <2>1 DEF SelectInv, S!TypeOK
<1>8. \A i \in DOMAIN sClients : sClients[i] # s
  BY <1>1, <1>3, SameFds, SameClients DEF SelectInv, SelectTable
<1>9. SelectTable'
  <2>1. sClients' # << >> /\ sClients'[1] = S!Listener
    BY <1>1, <1>5, <1>6 DEF SelectInv, SelectTable
  <2>2. \A i \in DOMAIN sClients' : i # 1 => sClients'[i] \in S!Fds /\ fdt'[sClients'[i]] # NoConn
    BY <1>1, <1>3, <1>5, SocketsAssumption DEF SelectInv, SelectTable, S!TypeOK, S!SocketsType
  <2>3. \A i, j \in DOMAIN sClients' : sClients'[i] = sClients'[j] => i = j
    BY <1>1, <1>5, <1>8 DEF SelectInv, SelectTable
  <2>4. /\ \A f \in S!Fds : fdt'[f] # NoConn => link'[fdt'[f]] = "accepted"
        /\ \A f, g \in S!Fds : fdt'[f] # NoConn /\ fdt'[f] = fdt'[g] => f = g
    BY <1>1, <1>3, <1>4 DEF SelectInv, SelectTable, S!TypeOK, S!SocketsType
  <2> QED
    BY <2>1, <2>2, <2>3, <2>4 DEF SelectTable
<1>10. SelectGone'
  <2>1. \A i \in DOMAIN sGone :
          sGone[i] \in S!Fds /\ fdt[sGone[i]] # NoConn /\ fdt'[sGone[i]] = fdt[sGone[i]]
    BY <1>1, <1>3 DEF SelectInv, SelectGone, S!TypeOK, S!SocketsType
  <2>2. \A i \in DOMAIN sGone : /\ peer'[fdt'[sGone[i]]] # "open"
                                /\ \E j \in DOMAIN sClients' : sClients'[j] = sGone[i]
    BY <1>1, <1>3, <1>5, <2>1 DEF SelectInv, SelectGone
  <2> QED
    BY <1>2, <2>1, <2>2 DEF SelectInv, SelectGone
<1>11. SelectBuf' /\ SelectPending' = SelectPending
  BY <1>2 DEF SelectInv, SelectBuf, SelectPending
<1>12. SelectCounts'
  BY <1>3, <1>11 DEF SelectInv, SelectCounts
<1>13. Phase' = Phase
  BY <1>1, <1>3, SocketsAssumption, SameFds DEF Phase, Reachable, SelectInv, S!TypeOK, S!SocketsType
<1> QED
  BY <1>2, <1>3, <1>7, <1>9, <1>10, <1>11, <1>12, <1>13 DEF SelectInv, View!vars, Unanswered

\* The entry the loop stands at, when it is a client's.
LEMMA SelectCurrent ==
  ASSUME SelectInv, NEW s \in S!Fds, S!Current(s)
  PROVE  /\ spc = "loop" /\ si \in DOMAIN sClients /\ si # 1 /\ si <= Len(sClients) /\ sClients[si] = s
         /\ fdt[s] \in Conns /\ SocketAt(s) = fdt[s] /\ Phase[fdt[s]] = "open"
<1>1. spc = "loop" /\ si <= Len(sClients) /\ sClients[si] = s /\ si \in DOMAIN sClients
  BY DEF S!Current, SelectInv, S!TypeOK
<1>2. si # 1
  BY <1>1, SameFds, SameClients DEF SelectInv, SelectTable
<1>3. fdt[s] # NoConn /\ link[fdt[s]] = "accepted" /\ fdt[s] \in Conns
  BY <1>1, <1>2 DEF SelectInv, SelectTable, S!TypeOK, S!SocketsType
<1>4. SocketAt(s) = fdt[s] /\ Phase[fdt[s]] = "open"
  BY <1>3, SameFds DEF SocketAt, Phase, Reachable
<1> QED
  BY <1>1, <1>2, <1>3, <1>4

\* read() > 0.
LEMMA SelectRead ==
  ASSUME SelectInv, server = "select", server' = server, status = "running", S!LoopRead
  PROVE  SelectInv' /\ View!Next
<1>1. PICK s \in S!Fds :
        /\ S!Current(s)
        /\ \E k \in 1 .. Len(inbox[fdt[s]]) :
             buf' = SubSeq(inbox[fdt[s]], 1, k) /\ S!Takes(fdt[s], k)
        /\ spc' = "write"
        /\ UNCHANGED <<link, peer, sent, replied, fdt, status, sClients, read_fds, si, sGone>>
  BY DEF S!LoopRead
<1>2. PICK c \in Conns : fdt[s] = c
  BY <1>1, SelectCurrent
<1>3. PICK k \in 1 .. Len(inbox[c]) :
        /\ buf' = SubSeq(inbox[c], 1, k)
        /\ inbox' = [inbox EXCEPT ![c] = SubSeq(inbox[c], k + 1, Len(inbox[c]))]
  BY <1>1, <1>2 DEF S!Takes
<1>4. /\ spc = "loop" /\ si \in DOMAIN sClients /\ si # 1 /\ si <= Len(sClients)
      /\ sClients[si] = s /\ SocketAt(s) = c /\ Phase[c] = "open"
  BY <1>1, <1>2, SelectCurrent
<1>5. /\ link' = link /\ peer' = peer /\ sent' = sent /\ replied' = replied /\ fdt' = fdt
      /\ status' = status /\ sClients' = sClients /\ read_fds' = read_fds /\ si' = si
      /\ sGone' = sGone /\ spc' = "write"
  BY <1>1
<1>6. inbox[c] \in Seq(E!Request) /\ replied[c] \in Seq(E!Request)
  BY SameClients DEF SelectInv, S!TypeOK, S!SocketsType
<1>7. /\ SubSeq(inbox[c], 1, k) \in Seq(E!Request)
      /\ SubSeq(inbox[c], k + 1, Len(inbox[c])) \in Seq(E!Request)
      /\ SubSeq(inbox[c], 1, k) # << >>
      /\ Len(replied[c]) + Len(SubSeq(inbox[c], 1, k)) + Len(SubSeq(inbox[c], k + 1, Len(inbox[c])))
           = Len(replied[c]) + 0 + Len(inbox[c])
  BY <1>6, MovedOn
<1>8. S!TypeOK'
  <2>1. S!SocketsType'
    BY <1>3, <1>5, <1>7, SameClients DEF SelectInv, S!TypeOK, S!SocketsType
  <2> QED
    BY <1>3, <1>5, <1>7, <2>1, SameClients DEF SelectInv, S!TypeOK
<1>9. SelectTable' /\ SelectGone' /\ SelectBuf'
  BY <1>3, <1>4, <1>5, <1>7 DEF SelectInv, SelectTable, SelectGone, SelectBuf
<1>10. /\ SelectPending = [d \in Conns |-> << >>]
       /\ SelectPending' = [SelectPending EXCEPT ![c] = SubSeq(inbox[c], 1, k)]
  <2>1. SelectPending = [d \in Conns |-> << >>]
    BY <1>4 DEF SelectPending
  <2>2. SocketAt(sClients[si])' = c
    BY <1>4, <1>5 DEF SocketAt
  <2>3. SelectPending' = [d \in Conns |-> IF d = c THEN SubSeq(inbox[c], 1, k) ELSE << >>]
    BY <1>3, <1>5, <2>2 DEF SelectPending
  <2> QED
    BY <2>1, <2>3
<1>11. SelectCounts'
  <2> SUFFICES ASSUME NEW d \in Conns, peer'[d] = "open"
               PROVE  sent'[d] = Len(replied'[d]) + Len(SelectPending'[d]) + Len(inbox'[d])
    BY DEF SelectCounts
  <2>1. sent[d] = Len(replied[d]) + Len(SelectPending[d]) + Len(inbox[d])
    BY <1>5 DEF SelectInv, SelectCounts
  <2>2. CASE d # c
    BY <1>3, <1>5, <1>10, <2>1, <2>2 DEF SelectInv, S!TypeOK, S!SocketsType
  <2>3. CASE d = c
    <3>1. sent[c] = Len(replied[c]) + 0 + Len(inbox[c])
      BY <1>10, <2>1, <2>3
    <3>2. /\ SelectPending'[c] = SubSeq(inbox[c], 1, k)
          /\ inbox'[c] = SubSeq(inbox[c], k + 1, Len(inbox[c]))
      BY <1>3, <1>10 DEF SelectInv, S!TypeOK, S!SocketsType
    <3> QED
      BY <1>5, <1>7, <2>3, <3>1, <3>2
  <2> QED
    BY <2>2, <2>3
<1>12. View!Take(c)
  <2>1. Phase' = Phase /\ Unanswered = SelectPending /\ Unanswered' = SelectPending'
    BY <1>5, PhaseKept DEF Unanswered
  <2> QED
    BY <1>3, <1>4, <1>5, <1>10, <2>1 DEF View!Take
<1> QED
  BY <1>5, <1>8, <1>9, <1>11, <1>12 DEF SelectInv, View!Next

\* read() = 0 or read() < 0: the loop has passed the entry once, so it is not
\* on disconnected_clients yet.
LEMMA SelectLeaves ==
  ASSUME SelectInv, server = "select", server' = server, S!LoopGone
  PROVE  SelectInv' /\ UNCHANGED View!vars
<1>1. PICK s \in S!Fds :
        /\ S!Current(s) /\ (fdt[s] # NoConn => S!AtEnd(fdt[s]))
        /\ sGone' = Append(sGone, s) /\ si' = si + 1
        /\ UNCHANGED <<S!env, fdt, status, sClients, read_fds, spc, buf>>
  BY DEF S!LoopGone
<1>2. /\ link' = link /\ peer' = peer /\ sent' = sent /\ inbox' = inbox /\ replied' = replied
      /\ fdt' = fdt /\ status' = status /\ sClients' = sClients /\ read_fds' = read_fds
      /\ spc' = spc /\ buf' = buf
  BY <1>1 DEF S!env
<1>3. /\ spc = "loop" /\ si \in DOMAIN sClients /\ sClients[si] = s
      /\ fdt[s] \in Conns /\ fdt[s] # NoConn /\ peer[fdt[s]] # "open"
  BY <1>1, SelectCurrent, SocketsAssumption DEF S!AtEnd
<1>4. /\ Append(sGone, s) \in Seq(S!Fds)
      /\ Len(sGone) + 1 \notin DOMAIN sGone
      /\ \A i \in DOMAIN Append(sGone, s) : \/ i \in DOMAIN sGone /\ Append(sGone, s)[i] = sGone[i]
                                            \/ i = Len(sGone) + 1 /\ Append(sGone, s)[i] = s
  <2>1. sGone \in Seq(S!Fds)
    BY DEF SelectInv, S!TypeOK
  <2> QED
    BY <2>1, AppendElements
<1>5. S!TypeOK'
  <2>1. S!SocketsType'
    BY <1>2 DEF SelectInv, S!TypeOK, S!SocketsType
  <2> QED
    BY <1>1, <1>2, <1>4, <2>1 DEF SelectInv, S!TypeOK
<1>6. SelectTable' /\ SelectBuf' /\ SelectPending' = SelectPending
  BY <1>2, <1>3 DEF SelectInv, SelectTable, SelectBuf, SelectPending
<1>7. SelectCounts'
  BY <1>2, <1>6 DEF SelectInv, SelectCounts
<1>8. SelectGone'
  <2>1. si < si' /\ \A j \in DOMAIN sClients : j < si => j < si' /\ j # si
    BY <1>1 DEF SelectInv, S!TypeOK
  <2>2. \A i \in DOMAIN sGone : sGone[i] # s
    BY <1>3, <2>1 DEF SelectInv, SelectGone, SelectTable
  <2>3. \A i \in DOMAIN sGone' :
          /\ sGone'[i] \in S!Fds /\ fdt'[sGone'[i]] # NoConn /\ peer'[fdt'[sGone'[i]]] # "open"
          /\ \E j \in DOMAIN sClients' : sClients'[j] = sGone'[i] /\ j < si'
    BY <1>1, <1>2, <1>3, <1>4, <2>1 DEF SelectInv, SelectGone
  <2>4. \A i, j \in DOMAIN sGone' : sGone'[i] = sGone'[j] => i = j
    BY <1>1, <1>4, <2>2 DEF SelectInv, SelectGone
  <2> QED
    BY <1>2, <1>3, <2>3, <2>4 DEF SelectGone
<1>9. UNCHANGED View!vars
  BY <1>2, <1>6, PhaseKept DEF View!vars, Unanswered
<1> QED
  BY <1>2, <1>5, <1>6, <1>7, <1>8, <1>9 DEF SelectInv

\* The echo.
LEMMA SelectWrite ==
  ASSUME SelectInv, server = "select", server' = server, status = "running", S!LoopWrite
  PROVE  SelectInv' /\ View!Next
<1>1. /\ spc = "write" /\ spc' = "loop" /\ buf' = << >> /\ si' = si + 1
      /\ link' = link /\ peer' = peer /\ sent' = sent /\ inbox' = inbox /\ fdt' = fdt
      /\ status' = status /\ sClients' = sClients /\ read_fds' = read_fds /\ sGone' = sGone
      /\ S!WriteTo(S!SocketAt(sClients[si]), buf)
  BY DEF S!LoopWrite
<1>2. PICK c \in Conns :
        /\ sClients[si] \in Fds /\ fdt[sClients[si]] = c
        /\ SelectPending = [d \in Conns |-> IF d = c THEN buf ELSE << >>]
        /\ Phase[c] = "open" /\ buf # << >>
  BY <1>1, SelectOwed
<1>3. replied' = IF peer[c] # "rst" THEN [replied EXCEPT ![c] = replied[c] \o buf] ELSE replied
  BY <1>1, <1>2, SameFds, SocketsAssumption DEF S!WriteTo, S!SocketAt
<1>4. replied[c] \in Seq(S!Request) /\ buf \in Seq(S!Request)
  BY DEF SelectInv, S!TypeOK, S!SocketsType
<1>5. /\ replied[c] \o buf \in Seq(S!Request)
      /\ Len(replied[c] \o buf) = Len(replied[c]) + Len(buf)
  BY <1>4
<1>6. S!TypeOK'
  <2>1. replied' \in [Conns -> Seq(S!Request)]
    BY <1>3, <1>5 DEF SelectInv, S!TypeOK, S!SocketsType
  <2>2. S!SocketsType'
    BY <1>1, <2>1 DEF SelectInv, S!TypeOK, S!SocketsType
  <2>3. si' \in Nat \ {0} /\ buf' \in Seq(S!Request)
    BY <1>1, EmptySeq DEF SelectInv, S!TypeOK
  <2> QED
    BY <1>1, <2>2, <2>3 DEF SelectInv, S!TypeOK
<1>7. SelectTable' /\ SelectBuf'
  BY <1>1 DEF SelectInv, SelectTable, SelectBuf
<1>8. SelectGone'
  <2>1. \A j \in DOMAIN sClients : j < si => j < si'
    BY <1>1 DEF SelectInv, S!TypeOK
  <2> QED
    BY <1>1, <2>1 DEF SelectInv, SelectGone
<1>9. SelectPending' = [SelectPending EXCEPT ![c] = << >>] /\ SelectPending'[c] = << >>
  <2>1. SelectPending' = [d \in Conns |-> << >>]
    BY <1>1 DEF SelectPending
  <2> QED
    BY <1>2, <2>1
<1>10. SelectCounts'
  <2> SUFFICES ASSUME NEW d \in Conns, peer'[d] = "open"
               PROVE  sent'[d] = Len(replied'[d]) + Len(SelectPending'[d]) + Len(inbox'[d])
    BY DEF SelectCounts
  <2>1. sent[d] = Len(replied[d]) + Len(SelectPending[d]) + Len(inbox[d])
    BY <1>1 DEF SelectInv, SelectCounts
  <2>2. CASE d # c
    BY <1>1, <1>2, <1>3, <1>9, <2>1, <2>2 DEF SelectInv, S!TypeOK, S!SocketsType
  <2>3. CASE d = c
    <3>1. Len(replied'[c]) = Len(replied[c]) + Len(buf)
      BY <1>1, <1>3, <1>5, <2>3 DEF SelectInv, S!TypeOK, S!SocketsType
    <3>2. Len(replied'[c]) + Len(SelectPending'[c]) = Len(replied[c]) + Len(SelectPending[c])
      BY <1>2, <1>4, <1>9, <3>1
    <3> QED
      BY <1>1, <2>1, <2>3, <3>2
  <2> QED
    BY <2>2, <2>3
<1>11. View!Answer(c)
  <2>1. Phase' = Phase /\ Unanswered = SelectPending /\ Unanswered' = SelectPending'
    BY <1>1, PhaseKept DEF Unanswered
  <2> QED
    BY <1>1, <1>2, <1>3, <1>9, <2>1 DEF View!Answer
<1> QED
  BY <1>1, <1>6, <1>7, <1>8, <1>10, <1>11 DEF SelectInv, View!Next

\* SIGPIPE: the client the echo is for has reset its connection.
LEMMA SelectSigpipe ==
  ASSUME SelectInv, server = "select", server' = server, status = "running", S!LoopSigpipe
  PROVE  SelectInv' /\ View!Next
<1>1. /\ spc = "write" /\ status' = "sigpipe" /\ peer[S!SocketAt(sClients[si])] = "rst"
      /\ link' = link /\ peer' = peer /\ sent' = sent /\ inbox' = inbox /\ replied' = replied
      /\ fdt' = fdt /\ sClients' = sClients /\ read_fds' = read_fds /\ spc' = spc /\ si' = si
      /\ buf' = buf /\ sGone' = sGone
  BY DEF S!LoopSigpipe, S!local, S!env
<1>2. PICK c \in Conns : sClients[si] \in Fds /\ fdt[sClients[si]] = c /\ Phase[c] = "open"
  BY <1>1, SelectOwed
<1>3. peer[c] = "rst"
  BY <1>1, <1>2, SameFds DEF S!SocketAt
<1>4. S!TypeOK'
  BY <1>1 DEF SelectInv, S!TypeOK, S!SocketsType
<1>5. SelectTable' /\ SelectGone' /\ SelectBuf' /\ SelectPending' = SelectPending
  BY <1>1 DEF SelectInv, SelectTable, SelectGone, SelectBuf, SelectPending, SocketAt
<1>6. SelectCounts'
  BY <1>1, <1>5 DEF SelectInv, SelectCounts
<1>7. View!GoDown
  <2>1. Phase' = Phase /\ Unanswered' = Unanswered
    BY <1>1, <1>5, PhaseKept DEF Unanswered
  <2> QED
    BY <1>1, <1>2, <1>3, <2>1 DEF View!GoDown
<1> QED
  BY <1>1, <1>4, <1>5, <1>6, <1>7 DEF SelectInv, View!Next

\* Erasing a client's entry leaves the others, each once, the listener first.
LEMMA SelectErase ==
  ASSUME SelectInv, NEW k \in DOMAIN sClients, k # 1
  PROVE  /\ S!RemoveFirst(sClients, sClients[k]) = RemoveAt(sClients, k)
         /\ RemoveAt(sClients, k) \in Seq(S!Fds \cup {S!Listener})
         /\ 1 \in DOMAIN RemoveAt(sClients, k) /\ RemoveAt(sClients, k)[1] = sClients[1]
         /\ \A i \in DOMAIN RemoveAt(sClients, k) : i # 1 =>
              \E j \in DOMAIN sClients :
                j # 1 /\ j # k /\ RemoveAt(sClients, k)[i] = sClients[j]
         /\ \A i, j \in DOMAIN RemoveAt(sClients, k) :
              RemoveAt(sClients, k)[i] = RemoveAt(sClients, k)[j] => i = j
         /\ \A j \in DOMAIN sClients : j # k =>
              \E i \in DOMAIN RemoveAt(sClients, k) : RemoveAt(sClients, k)[i] = sClients[j]
<1> DEFINE q == sClients  r == RemoveAt(sClients, k)
<1>1. q \in Seq(S!Fds \cup {S!Listener}) /\ \A i, j \in DOMAIN q : q[i] = q[j] => i = j
  BY DEF SelectInv, SelectTable, S!TypeOK
<1>2. DOMAIN q = 1 .. Len(q) /\ Len(q) \in Nat /\ k \in 2 .. Len(q) /\ 1 \in DOMAIN q
  BY <1>1
<1>3. S!RemoveFirst(q, q[k]) = r
  <2>1. {i \in 1 .. Len(q) : q[i] = q[k]} = {k}
    BY <1>1, <1>2
  <2>2. S!Min({k}) = k
    BY <1>2 DEF S!Min
  <2>3. S!SelectInSeq(q, LAMBDA v : v = q[k]) = k
    BY <2>1, <2>2 DEF S!SelectInSeq
  <2>4. \E i \in 1 .. Len(q) : q[i] = q[k]
    BY <1>2
  <2> QED
    BY <2>3, <2>4 DEF S!RemoveFirst, S!RemoveAt, RemoveAt
<1>4. /\ r \in Seq(S!Fds \cup {S!Listener})
      /\ \A i \in DOMAIN q :
           /\ i < k => i \in DOMAIN r /\ r[i] = q[i]
           /\ i > k => i - 1 \in DOMAIN r /\ r[i - 1] = q[i]
      /\ \A i \in DOMAIN r :
           \/ i < k /\ i \in DOMAIN q /\ r[i] = q[i]
           \/ i >= k /\ i \in Nat /\ i + 1 \in DOMAIN q /\ r[i] = q[i + 1]
  BY <1>1, RemoveElements
<1> HIDE DEF r
<1>5. 1 \in DOMAIN r /\ r[1] = q[1]
  BY <1>2, <1>4
<1>6. ASSUME NEW i \in DOMAIN r, i # 1
      PROVE  \E j \in DOMAIN q : j # 1 /\ j # k /\ r[i] = q[j]
  <2>1. CASE i < k /\ i \in DOMAIN q /\ r[i] = q[i]
    BY <1>2, <1>6, <2>1
  <2>2. CASE i >= k /\ i \in Nat /\ i + 1 \in DOMAIN q /\ r[i] = q[i + 1]
    <3>1. i + 1 # 1 /\ i + 1 # k
      BY <1>2, <2>2
    <3> QED
      BY <2>2, <3>1
  <2> QED
    BY <1>4, <2>1, <2>2
<1>7. ASSUME NEW i \in DOMAIN r, NEW j \in DOMAIN r, r[i] = r[j] PROVE i = j
  <2>1. \/ i < k /\ i \in DOMAIN q /\ r[i] = q[i]
        \/ i >= k /\ i \in Nat /\ i + 1 \in DOMAIN q /\ r[i] = q[i + 1]
    BY <1>4
  <2>2. \/ j < k /\ j \in DOMAIN q /\ r[j] = q[j]
        \/ j >= k /\ j \in Nat /\ j + 1 \in DOMAIN q /\ r[j] = q[j + 1]
    BY <1>4
  <2> QED
    BY <1>1, <1>2, <1>7, <2>1, <2>2
<1>8. ASSUME NEW j \in DOMAIN q, j # k PROVE \E i \in DOMAIN r : r[i] = q[j]
  <2>1. j < k \/ j > k
    BY <1>2, <1>8
  <2> QED
    BY <1>4, <2>1
<1> QED
  BY <1>3, <1>4, <1>5, <1>6, <1>7, <1>8 DEF r

\* close() of a disconnected client; the assertion that it has an entry holds.
LEMMA SelectCleanup ==
  ASSUME SelectInv, server = "select", server' = server, status = "running", S!Cleanup
  PROVE  SelectInv' /\ View!Next
<1>1. spc = "cleanup" /\ sGone # << >> /\ sGone' = Tail(sGone)
  BY DEF S!Cleanup
<1>2. PICK s \in S!Fds :
        /\ s = Head(sGone) /\ 1 \in DOMAIN sGone /\ sGone[1] = s /\ Tail(sGone) \in Seq(S!Fds)
        /\ \A i \in DOMAIN Tail(sGone) :
             i + 1 \in DOMAIN sGone /\ Tail(sGone)[i] = sGone[i + 1] /\ Tail(sGone)[i] # s
        /\ \A i, j \in DOMAIN Tail(sGone) : Tail(sGone)[i] = Tail(sGone)[j] => i = j
  <2>1. sGone \in Seq(S!Fds) /\ \A i, j \in DOMAIN sGone : sGone[i] = sGone[j] => i = j
    BY DEF SelectInv, S!TypeOK, SelectGone
  <2> QED
    BY <1>1, <2>1, TailElements, TailDistinct
<1>3. PICK k \in DOMAIN sClients : sClients[k] = s
  BY <1>2 DEF SelectInv, SelectGone
<1>4. k # 1
  BY <1>2, <1>3, SameFds, SameClients DEF SelectInv, SelectTable
<1>5. PICK c \in Conns : fdt[s] = c /\ peer[c] # "open"
  BY <1>2 DEF SelectInv, SelectGone, S!TypeOK, S!SocketsType
<1>6. /\ fdt' = [f \in S!Fds |-> IF f = s THEN NoConn ELSE fdt[f]]
      /\ sClients' = RemoveAt(sClients, k)
      /\ link' = link /\ peer' = peer /\ sent' = sent /\ inbox' = inbox /\ replied' = replied
      /\ status' = status /\ read_fds' = read_fds /\ spc' = spc /\ si' = si /\ buf' = buf
  <2>1. Head(sGone) \in S!ToSet(sClients)
    BY <1>2, <1>3 DEF S!ToSet
  <2>2. S!RemoveFirst(sClients, s) = RemoveAt(sClients, k)
    BY <1>3, <1>4, SelectErase
  <2> QED
    BY <1>2, <2>1, <2>2 DEF S!Cleanup, S!Closed, S!env
<1>7. /\ sClients' \in Seq(S!Fds \cup {S!Listener})
      /\ 1 \in DOMAIN sClients' /\ sClients'[1] = sClients[1]
      /\ \A i \in DOMAIN sClients' : i # 1 =>
           \E j \in DOMAIN sClients : j # 1 /\ j # k /\ sClients'[i] = sClients[j]
      /\ \A i, j \in DOMAIN sClients' : sClients'[i] = sClients'[j] => i = j
      /\ \A j \in DOMAIN sClients : j # k => \E i \in DOMAIN sClients' : sClients'[i] = sClients[j]
  BY <1>4, <1>6, SelectErase
<1>8. S!TypeOK'
  <2>1. S!SocketsType'
    BY <1>6 DEF SelectInv, S!TypeOK, S!SocketsType
  <2> QED
    BY <1>1, <1>2, <1>6, <1>7, <2>1 DEF SelectInv, S!TypeOK
<1>9. SelectTable'
  <2>1. sClients' # << >> /\ sClients'[1] = S!Listener
    BY <1>7 DEF SelectInv, SelectTable
  <2>2. ASSUME NEW i \in DOMAIN sClients', i # 1
        PROVE  sClients'[i] \in S!Fds /\ fdt'[sClients'[i]] # NoConn
    <3>1. PICK j \in DOMAIN sClients : j # 1 /\ j # k /\ sClients'[i] = sClients[j]
      BY <1>7, <2>2
    <3>2. sClients[j] \in S!Fds /\ fdt[sClients[j]] # NoConn /\ sClients[j] # s
      BY <1>3, <3>1 DEF SelectInv, SelectTable
    <3> QED
      BY <1>6, <3>1, <3>2
  <2>3. /\ \A f \in S!Fds : fdt'[f] # NoConn => link'[fdt'[f]] = "accepted"
        /\ \A f, g \in S!Fds : fdt'[f] # NoConn /\ fdt'[f] = fdt'[g] => f = g
    BY <1>6 DEF SelectInv, SelectTable
  <2> QED
    BY <1>7, <2>1, <2>2, <2>3 DEF SelectTable
<1>10. SelectGone'
  <2> SUFFICES ASSUME NEW i \in DOMAIN sGone'
               PROVE  /\ sGone'[i] \in S!Fds /\ fdt'[sGone'[i]] # NoConn
                      /\ peer'[fdt'[sGone'[i]]] # "open"
                      /\ \E j \in DOMAIN sClients' : sClients'[j] = sGone'[i]
    BY <1>1, <1>2, <1>6 DEF SelectGone
  <2>1. i + 1 \in DOMAIN sGone /\ sGone'[i] = sGone[i + 1] /\ sGone'[i] # s
    BY <1>1, <1>2
  <2>2. /\ sGone[i + 1] \in S!Fds /\ fdt[sGone[i + 1]] # NoConn /\ peer[fdt[sGone[i + 1]]] # "open"
        /\ \E j \in DOMAIN sClients : sClients[j] = sGone[i + 1]
    BY <2>1 DEF SelectInv, SelectGone
  <2>3. fdt'[sGone[i + 1]] = fdt[sGone[i + 1]]
    BY <1>6, <2>1, <2>2
  <2>4. \E j \in DOMAIN sClients' : sClients'[j] = sGone[i + 1]
    BY <1>3, <1>7, <2>1, <2>2
  <2> QED
    BY <1>6, <2>1, <2>2, <2>3, <2>4
<1>11. SelectBuf' /\ SelectPending = [d \in Conns |-> << >>] /\ SelectPending' = SelectPending
  BY <1>1, <1>6 DEF SelectInv, SelectBuf, SelectPending
<1>12. SelectCounts'
  BY <1>6, <1>11 DEF SelectInv, SelectCounts
<1>13. View!Drop(c)
  <2>1. link[c] = "accepted" /\ \A f \in S!Fds : fdt[f] = c => f = s
    BY <1>2, <1>5, SocketsAssumption DEF SelectInv, SelectTable
  <2>2. Phase[c] = "open"
    BY <1>2, <1>5, <2>1, SameFds DEF Phase, Reachable
  <2>3. Phase' = [Phase EXCEPT ![c] = "closed"]
    <3>1. ~ Reachable(c)'
      BY <1>6, <2>1, SameFds, SocketsAssumption DEF Reachable
    <3>2. \A d \in Conns : d # c => (Reachable(d)' <=> Reachable(d))
      <4> SUFFICES ASSUME NEW d \in Conns, d # c
                   PROVE  (\E f \in Fds : fdt'[f] = d) <=> (\E f \in Fds : fdt[f] = d)
        BY <1>6 DEF Reachable
      <4>1. \A f \in Fds : fdt'[f] = d <=> fdt[f] = d
        BY <1>5, <1>6, SameFds, SocketsAssumption
      <4> QED
        BY <4>1
    <3> QED
      BY <1>6, <2>1, <3>1, <3>2 DEF Phase
  <2>4. Unanswered = SelectPending /\ Unanswered' = SelectPending'
    BY DEF Unanswered
  <2>5. Unanswered' = [Unanswered EXCEPT ![c] = << >>]
    BY <1>11, <2>4
  <2> QED
    BY <1>5, <1>6, <2>2, <2>3, <2>5 DEF View!Drop
<1> QED
  BY <1>6, <1>8, <1>9, <1>10, <1>11, <1>12, <1>13 DEF SelectInv, View!Next

\* Every step of the select() server.
LEMMA SelectStep ==
  ASSUME SelectInv, server = "select", server' = server, S!Next
  PROVE  SelectInv' /\ [View!Next]_(View!vars)
<1>1. CASE \E c \in Conns : S!Client(c)
  BY <1>1, SelectClient
<1>2. CASE S!Loop
  <2>1. status = "running"
    BY <1>2 DEF S!Loop
  <2>2. CASE S!Select
    BY <2>2, SelectCall
  <2>3. CASE S!LoopSkip \/ S!LoopEnd \/ S!CleanupEnd
    BY <2>3, SelectTurns
  <2>4. CASE S!LoopAccept
    BY <2>4, SelectAccept
  <2>5. CASE S!LoopRead
    BY <2>1, <2>5, SelectRead
  <2>6. CASE S!LoopGone
    BY <2>6, SelectLeaves
  <2>7. CASE S!LoopWrite
    BY <2>1, <2>7, SelectWrite
  <2>8. CASE S!LoopSigpipe
    BY <2>1, <2>8, SelectSigpipe
  <2>9. CASE S!Cleanup
    BY <2>1, <2>9, SelectCleanup
  <2> QED
    BY <1>2, <2>2, <2>3, <2>4, <2>5, <2>6, <2>7, <2>8, <2>9 DEF S!Loop
<1> QED
  BY <1>1, <1>2 DEF S!Next

(***************************************************************************)
(* Both servers.                                                           *)
(***************************************************************************)
\* The servers start in their invariants.
LEMMA EnginesInit == AllInit => EnginesInv
<1> SUFFICES ASSUME AllInit PROVE EnginesInv
  OBVIOUS
<1> USE DEF AllInit
<1>1. E!SocketsInit /\ S!SocketsInit
  BY DEF E!Init, S!Init
<1>2. E!SocketsType /\ S!SocketsType
  BY <1>1, SocketsAssumption, EmptySeq
     DEF E!SocketsInit, S!SocketsInit, E!SocketsType, S!SocketsType
<1>3. EpollInv
  <2>1. E!TypeOK
    BY <1>2, EmptySeq DEF E!Init, E!TypeOK
  <2>2. EpollTable /\ EpollOwes /\ EpollBatch /\ EpollGone
    BY <1>1, SocketsAssumption
       DEF E!Init, E!SocketsInit, EpollTable, EpollOwes, EpollBatch, EpollGone
  <2>3. EpollCounts
    BY <1>1 DEF E!Init, E!SocketsInit, EpollCounts
  <2> QED
    BY <2>1, <2>2, <2>3 DEF EpollInv, E!Init
<1>4. SelectInv
  <2>1. S!TypeOK
    BY <1>2, EmptySeq DEF S!Init, S!TypeOK
  <2>2. SelectTable
    BY <1>1 DEF S!Init, S!SocketsInit, SelectTable
  <2>3. SelectGone /\ SelectBuf
    BY DEF S!Init, SelectGone, SelectBuf
  <2>4. SelectCounts
    BY <1>1 DEF S!Init, S!SocketsInit, SelectCounts, SelectPending
  <2> QED
    BY <2>1, <2>2, <2>3, <2>4 DEF SelectInv, S!Init
<1> QED
  BY <1>3, <1>4 DEF EnginesInv, EpollInv

\* A step of any of the servers, and one that changes nothing.
LEMMA EnginesNext ==
  ASSUME EnginesInv, [AllNext]_allVars
  PROVE  EnginesInv' /\ server' = server /\ (server # "poll" => [View!Next]_(View!vars))
<1>1. CASE server = "select" /\ S!Next /\ UNCHANGED server /\ UNCHANGED epollVars
  <2>1. SelectInv' /\ [View!Next]_(View!vars)
    BY <1>1, SelectStep DEF EnginesInv
  <2> QED
    BY <1>1, <2>1 DEF EnginesInv, epollVars
<1>2. CASE server = "poll" /\ UNCHANGED server /\ UNCHANGED epollVars
  BY <1>2 DEF EnginesInv, epollVars
<1>3. CASE server = "epoll" /\ E!Next /\ UNCHANGED server
  <2>1. EpollInv' /\ [View!Next]_(View!vars)
    BY <1>3, EpollStep DEF EnginesInv
  <2> QED
    BY <1>3, <2>1 DEF EnginesInv
<1>4. CASE UNCHANGED allVars
  <2> USE DEF allVars, netVars, selectVars, epollVars, env
  <2>1. EnginesInv'
    <3>1. E!TypeOK => E!TypeOK'
      BY <1>4 DEF E!TypeOK, E!SocketsType
    <3>2. /\ EpollTable' = EpollTable /\ EpollOwes' = EpollOwes /\ EpollBatch' = EpollBatch
          /\ EpollGone' = EpollGone /\ EpollCounts' = EpollCounts
      BY <1>4 DEF EpollTable, EpollOwes, EpollBatch, EpollGone, EpollCounts
    <3>3. S!TypeOK => S!TypeOK'
      BY <1>4 DEF S!TypeOK, S!SocketsType
    <3>4. SelectTable' = SelectTable /\ SelectGone' = SelectGone /\ SelectBuf' = SelectBuf
      BY <1>4 DEF SelectTable, SelectGone, SelectBuf
    <3>5. SelectCounts' = SelectCounts
      BY <1>4 DEF SelectCounts, SelectPending, SocketAt
    <3> QED
      BY <1>4, <3>1, <3>2, <3>3, <3>4, <3>5 DEF EnginesInv, EpollInv, SelectInv
  <2>2. UNCHANGED View!vars
    BY <1>4, PhaseKept DEF View!vars, Unanswered, SelectPending, SocketAt
  <2> QED
    BY <1>4, <2>1, <2>2 DEF allVars
<1> QED
  BY <1>1, <1>2, <1>3, <1>4 DEF AllNext

\* What Session is told of the clients is what they see, for the select() and
\* the epoll server; of the poll() server it is told nothing.
LEMMA ShownView ==
  ASSUME E!SocketsType, E!SocketsType', server' = server, server # "poll",
         server = "epoll" => /\ eServed \in [Conns -> Seq(E!Request)]
                             /\ eServed' \in [Conns -> Seq(E!Request)]
  PROVE  [View!Next]_(View!vars) => [Promise!Next]_(Promise!vars)
<1> DEFINE Pend == IF server = "epoll" THEN eServed ELSE SelectPending
<1>1. Unanswered = Pend /\ Unanswered' = Pend'
  BY DEF Unanswered
<1>2. /\ Phase = [c \in Conns |-> Phase[c]] /\ Unanswered = [c \in Conns |-> Unanswered[c]]
      /\ Phase' = [c \in Conns |-> Phase'[c]] /\ Unanswered' = [c \in Conns |-> Unanswered'[c]]
  BY DEF Phase, Unanswered, SelectPending
<1>3. /\ Shown(Phase, "none") = Phase /\ Shown(peer, "open") = peer
      /\ Shown(inbox, << >>) = inbox /\ Shown(replied, << >>) = replied
      /\ Shown(Pend, << >>) = Unanswered
  BY <1>1, <1>2 DEF Shown, E!SocketsType
<1>4. /\ Shown(Phase, "none")' = Phase' /\ Shown(peer, "open")' = peer'
      /\ Shown(inbox, << >>)' = inbox' /\ Shown(replied, << >>)' = replied'
      /\ Shown(Pend, << >>)' = Unanswered'
  BY <1>1, <1>2 DEF Shown, E!SocketsType
<1>5. /\ (server = "poll" \/ status = "running") = (status = "running")
      /\ (server = "poll" \/ status = "running")' = (status = "running")'
  OBVIOUS
<1>6. ASSUME NEW c \in Conns
      PROVE  View!Arrive(c) \/ View!Request(c) \/ View!Leave(c) \/ View!Take(c)
               \/ View!Answer(c) \/ View!Drop(c)
             => Promise!Arrive(c) \/ Promise!Request(c) \/ Promise!Leave(c) \/ Promise!Take(c)
                  \/ Promise!Answer(c) \/ Promise!Drop(c)
  <2>1. View!Arrive(c) => Promise!Arrive(c)
    BY <1>3, <1>4, <1>5 DEF View!Arrive, Promise!Arrive
  <2>2. View!Request(c) => Promise!Request(c)
    BY <1>3, <1>4, <1>5 DEF View!Request, Promise!Request
  <2>3. View!Leave(c) => Promise!Leave(c)
    BY <1>3, <1>4, <1>5 DEF View!Leave, Promise!Leave
  <2>4. View!Take(c) => Promise!Take(c)
    BY <1>3, <1>4, <1>5 DEF View!Take, Promise!Take
  <2>5. View!Answer(c) => Promise!Answer(c)
    BY <1>3, <1>4, <1>5 DEF View!Answer, Promise!Answer
  <2>6. View!Drop(c) => Promise!Drop(c)
    BY <1>3, <1>4, <1>5 DEF View!Drop, Promise!Drop
  <2> QED
    BY <2>1, <2>2, <2>3, <2>4, <2>5, <2>6
<1>7. View!GoDown => Promise!GoDown
  BY <1>3, <1>4, <1>5 DEF View!GoDown, Promise!GoDown
<1>8. View!Next => Promise!Next
  BY <1>6, <1>7 DEF View!Next, Promise!Next
<1>9. UNCHANGED View!vars => UNCHANGED Promise!vars
  BY <1>3, <1>4, <1>5 DEF View!vars, Promise!vars
<1> QED
  BY <1>8, <1>9

\* Every variable of the select() and epoll servers has its type.
THEOREM EnginesTypesHold == AllSpec => []EnginesTypeOK
<1>1. EnginesInv /\ [AllNext]_allVars => EnginesInv'
  BY EnginesNext
<1>2. EnginesInv => EnginesTypeOK
  BY DEF EnginesInv, EpollInv, SelectInv, EnginesTypeOK
<1> QED
  BY <1>1, <1>2, EnginesInit, PTL DEF AllSpec

\* No Client of the epoll server is used after its delete, however its events,
\* its disconnection and the reuse of its descriptor interleave.
THEOREM ClientsAreAlive == AllSpec => []NoUseAfterDelete
<1>1. EnginesInv /\ [AllNext]_allVars => EnginesInv'
  BY EnginesNext
<1>2. EnginesInv => NoUseAfterDelete
  BY DEF EnginesInv, EpollInv, NoUseAfterDelete, E!NoUseAfterDelete
<1> QED
  BY <1>1, <1>2, EnginesInit, PTL DEF AllSpec

\* Before the first client every server shows what Session starts with.
LEMMA ShownInit == AllInit => Promise!Init
<1> SUFFICES ASSUME AllInit PROVE Promise!Init
  OBVIOUS
<1>1. /\ link = [c \in Conns |-> "none"] /\ peer = [c \in Conns |-> "open"]
      /\ inbox = [c \in Conns |-> << >>] /\ replied = [c \in Conns |-> << >>]
      /\ eServed = [c \in Conns |-> << >>] /\ spc = "select" /\ status = "running"
  BY DEF AllInit, E!Init, E!SocketsInit, S!Init
<1>2. Phase = [c \in Conns |-> "none"] /\ SelectPending = [c \in Conns |-> << >>]
  BY <1>1 DEF Phase, SelectPending
<1>3. \A x : Shown([c \in Conns |-> x], x) = [c \in Conns |-> x]
  BY DEF Shown
<1>4. (IF server = "epoll" THEN eServed ELSE SelectPending) = [c \in Conns |-> << >>]
  BY <1>1, <1>2
<1> QED
  BY <1>1, <1>2, <1>3, <1>4 DEF Promise!Init

\* The select() and epoll servers implement Session: requests are taken and
\* answered in order, a client is dropped only after it left, and the process
\* ends only by the SIGPIPE of a reset connection.
THEOREM EnginesImplementSession == AllSpec => KeepsPromise
<1>1. EnginesInv /\ [AllNext]_allVars => EnginesInv'
  BY EnginesNext
<1>2. ASSUME EnginesInv, EnginesInv', [AllNext]_allVars PROVE [Promise!Next]_(Promise!vars)
  <2>1. server' = server /\ (server # "poll" => [View!Next]_(View!vars))
    BY <1>2, EnginesNext
  <2>2. CASE server = "poll"
    BY <2>1, <2>2 DEF Promise!vars, Shown
  <2>3. CASE server = "epoll"
    <3>1. E!SocketsType /\ E!SocketsType' /\ server # "poll"
            /\ eServed \in [Conns -> Seq(E!Request)] /\ eServed' \in [Conns -> Seq(E!Request)]
      BY <1>2, <2>1, <2>3 DEF EnginesInv, EpollInv, E!TypeOK
    <3> QED
      BY <2>1, <3>1, ShownView
  <2>4. CASE server = "select"
    <3>1. S!SocketsType /\ S!SocketsType'
      BY <1>2, <2>1, <2>4 DEF EnginesInv, SelectInv, S!TypeOK
    <3>2. E!SocketsType /\ E!SocketsType'
      BY <3>1, SameClients, PTL
    <3> QED
      BY <2>1, <2>4, <3>2, ShownView
  <2> QED
    BY <1>2, <2>2, <2>3, <2>4 DEF EnginesInv
<1> QED
  BY <1>1, <1>2, EnginesInit, ShownInit, PTL DEF AllSpec, KeepsPromise, Promise!Spec

=============================================================================
