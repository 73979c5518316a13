------------------------------ MODULE Sockets ------------------------------
(***************************************************************************)
(* What the servers of net/ use of the kernel, and the clients at the far  *)
(* end: the listen backlog, the descriptor table with its reuse of the     *)
(* lowest free number, receive buffers, and what accept(), read(),         *)
(* write(), poll() and close() answer.  It is external to the repository   *)
(* and modelled from how src/net uses it.                                  *)
(***************************************************************************)
EXTENDS Integers, Sequences

CONSTANTS
  Conns,     \* client sockets
  NoConn,    \* no client socket
  FirstFd,   \* the lowest descriptor accept() may return
  Limit,     \* RLIMIT_NOFILE: descriptors are below it, poll() takes so many
  MaxReq     \* bound: requests a client sends

ASSUME SocketsAssumption ==
  /\ NoConn \notin Conns
  /\ FirstFd \in Nat \ {0} /\ Limit \in Nat /\ MaxReq \in Nat

VARIABLES
  link,      \* per client: "none", in the listen "backlog", "accepted"
  peer,      \* per client: the far end is "open", sent "fin" or "rst"
  sent,      \* per client: number of requests sent
  inbox,     \* per client: requests in the receive buffer
  replied,   \* per client: requests whose answer was written to its socket
  fdt        \* descriptor table

env == <<link, peer, sent, inbox, replied>>

Fds     == FirstFd .. (Limit - 1)
Request == Conns \X Nat

SocketsInit ==
  /\ link = [c \in Conns |-> "none"]
  /\ peer = [c \in Conns |-> "open"]
  /\ sent = [c \in Conns |-> 0]
  /\ inbox = [c \in Conns |-> << >>]
  /\ replied = [c \in Conns |-> << >>]
  /\ fdt = [f \in Fds |-> NoConn]

SocketsType ==
  /\ link \in [Conns -> {"none", "backlog", "accepted"}]
  /\ peer \in [Conns -> {"open", "fin", "rst"}]
  /\ sent \in [Conns -> Nat]
  /\ inbox \in [Conns -> Seq(Request)]
  /\ replied \in [Conns -> Seq(Request)]
  /\ fdt \in [Fds -> Conns \cup {NoConn}]

(***************************************************************************)
(* The clients.  A reset may follow an orderly close: the far kernel       *)
(* answers late data with it.                                              *)
(***************************************************************************)
\* The server has not closed its end.
Reachable(c) == link[c] = "backlog" \/ \E f \in Fds : fdt[f] = c

Connect(c) ==
  /\ link[c] = "none"
  /\ link' = [link EXCEPT ![c] = "backlog"]
  /\ UNCHANGED <<peer, sent, inbox, replied>>

Send(c) ==
  /\ Reachable(c) /\ peer[c] = "open" /\ sent[c] < MaxReq
  /\ sent' = [sent EXCEPT ![c] = @ + 1]
  /\ inbox' = [inbox EXCEPT ![c] = Append(@, <<c, sent[c] + 1>>)]
  /\ UNCHANGED <<link, peer, replied>>

Finish(c) ==
  /\ Reachable(c) /\ peer[c] = "open"
  /\ peer' = [peer EXCEPT ![c] = "fin"]
  /\ UNCHANGED <<link, sent, inbox, replied>>

Reset(c) ==
  /\ Reachable(c) /\ peer[c] # "rst"
  /\ peer' = [peer EXCEPT ![c] = "rst"]
  /\ UNCHANGED <<link, sent, inbox, replied>>

ClientStep(c) == (Connect(c) \/ Send(c) \/ Finish(c) \/ Reset(c)) /\ UNCHANGED fdt

(***************************************************************************)
(* System calls.                                                           *)
(***************************************************************************)
\* The client socket a descriptor number refers to now.
SocketAt(s) == IF s \in Fds THEN fdt[s] ELSE NoConn

\* accept() takes a client from the backlog and the lowest free descriptor.
AcceptAs(c, s) ==
  /\ link[c] = "backlog" /\ fdt[s] = NoConn
  /\ \A f \in Fds : fdt[f] = NoConn => s <= f
  /\ link' = [link EXCEPT ![c] = "accepted"]
  /\ fdt' = [fdt EXCEPT ![s] = c]
  /\ UNCHANGED <<peer, sent, inbox, replied>>

\* accept() fails when no descriptor is free; the client stays in the backlog.
Pending == \E c \in Conns : link[c] = "backlog"
NoFreeFd == \A f \in Fds : fdt[f] # NoConn

\* The descriptor table after close(s).
Closed(s) == [f \in Fds |-> IF f = s THEN NoConn ELSE fdt[f]]

\* read() > 0 takes what has arrived, up to the size of its buffer.
Takes(o, k) == inbox' = [inbox EXCEPT ![o] = SubSeq(@, k + 1, Len(@))]

\* read() = 0, and read() < 0 on an open descriptor.  On a socket with neither
\* data nor an end a blocking read() waits.
AtEnd(o) == inbox[o] = << >> /\ peer[o] # "open"
AtReset(o) == inbox[o] = << >> /\ peer[o] = "rst"

\* write() to a socket; data for a reset one is lost.  There is always room: a
\* client that never reads its answers is not modelled.
WriteTo(o, data) ==
  replied' = IF o # NoConn /\ peer[o] # "rst"
             THEN [replied EXCEPT ![o] = @ \o data] ELSE replied

\* What poll() reports for a descriptor when asked for one of POLLIN ("R") and
\* POLLOUT ("W"); it skips negative descriptors.
PollEvents(s, events) ==
  IF s \notin Fds THEN "0"
  ELSE LET o == fdt[s] IN
       CASE o = NoConn -> "NVAL"
         [] o # NoConn /\ peer[o] = "rst" -> "HUP"
         [] o # NoConn /\ peer[o] # "rst" /\ events = "W" -> "OUT"
         [] o # NoConn /\ peer[o] # "rst" /\ events = "R"
              /\ (inbox[o] # << >> \/ peer[o] = "fin") -> "IN"
         [] OTHER -> "0"

=============================================================================
