--------------------------- MODULE LibeventServer ---------------------------
(***************************************************************************)
(* The echo server on libevent (net/libevent).  libevent, which moves data *)
(* between a socket and the buffers of its bufferevent and calls back, is  *)
(* external; the callbacks are the repository's.                           *)
(***************************************************************************)
EXTENDS Sockets

VARIABLES
  status,    \* "starting", "running", or how the process ended
  input,     \* per client: input buffer of its bufferevent
  output,    \* per client: output buffer
  reads      \* history, per client: calls of echo_read_cb

local == <<input, output, reads>>
vars  == <<env, fdt, status, local>>

Init ==
  /\ SocketsInit
  /\ status = "starting"
  /\ input = [c \in Conns |-> << >>] /\ output = [c \in Conns |-> << >>]
  /\ reads = [c \in Conns |-> 0]

\* main() returns when the port, the event base or the listener is no good.
Dispatch ==
  /\ status = "starting"
  /\ status' \in {"running", "exited"}
  /\ UNCHANGED <<env, fdt, local>>

Open(c) == \E f \in Fds : fdt[f] = c
FdOf(c) == CHOOSE f \in Fds : fdt[f] = c

AcceptConnectionCb ==
  /\ \E c \in Conns, s \in Fds : AcceptAs(c, s)
  /\ UNCHANGED <<status, local>>

AcceptErrorCb ==
  /\ Pending /\ NoFreeFd
  /\ status' = "exited"
  /\ UNCHANGED <<env, fdt, local>>

\* Mutant: the last line is answered and the others are kept.
EchoReadCbLast(c) ==
  /\ Open(c)
  /\ \E k \in 1 .. Len(inbox[c]) :
       LET lines == input[c] \o SubSeq(inbox[c], 1, k) IN
       /\ Takes(c, k)
       /\ input' = [input EXCEPT ![c] = SubSeq(lines, 1, Len(lines) - 1)]
       /\ output' = [output EXCEPT ![c] = Append(@, lines[Len(lines)])]
  /\ reads' = [reads EXCEPT ![c] = @ + 1]
  /\ UNCHANGED <<link, peer, sent, replied, fdt, status>>

\* One line is taken out of the input buffer, whatever else has come.
EchoReadCb(c) ==
  /\ Open(c)
  /\ \E k \in 1 .. Len(inbox[c]) :
       LET lines == input[c] \o SubSeq(inbox[c], 1, k) IN
       /\ Takes(c, k)
       /\ input' = [input EXCEPT ![c] = Tail(lines)]
       /\ output' = [output EXCEPT ![c] = Append(@, Head(lines))]
  /\ reads' = [reads EXCEPT ![c] = @ + 1]
  /\ UNCHANGED <<link, peer, sent, replied, fdt, status>>

\* libevent writes the output buffer when the socket is writable.
Flush(c) ==
  /\ Open(c) /\ output[c] # << >> /\ peer[c] # "rst"
  /\ WriteTo(c, output[c])
  /\ output' = [output EXCEPT ![c] = << >>]
  /\ UNCHANGED <<link, peer, sent, inbox, fdt, status, input, reads>>

FlushSigpipe(c) ==
  /\ Open(c) /\ output[c] # << >> /\ peer[c] = "rst"
  /\ status' = "sigpipe"
  /\ UNCHANGED <<env, fdt, local>>

\* The end or an error: the bufferevent, its buffers and the socket go.
EchoEventCb(c) ==
  /\ Open(c)
  /\ AtEnd(c) \/ (output[c] # << >> /\ peer[c] = "rst")
  /\ fdt' = Closed(FdOf(c))
  /\ input' = [input EXCEPT ![c] = << >>] /\ output' = [output EXCEPT ![c] = << >>]
  /\ UNCHANGED <<env, status, reads>>

Accepts == status = "running" /\ (AcceptConnectionCb \/ AcceptErrorCb)
Input(c) == status = "running" /\ (EchoReadCb(c) \/ EchoEventCb(c))
Output(c) == status = "running" /\ (Flush(c) \/ FlushSigpipe(c))
Step == Dispatch \/ Accepts \/ \E c \in Conns : Input(c) \/ Output(c)

=============================================================================
