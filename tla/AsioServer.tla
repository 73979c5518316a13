----------------------------- MODULE AsioServer -----------------------------
(***************************************************************************)
(* The server on boost::asio (net/asio): four threads run the handlers of  *)
(* one io_service.  The handlers of a client form a chain, read, write,    *)
(* read, ..., so that two never run at a time, and those of two clients    *)
(* share nothing but the io_service.                                       *)
(***************************************************************************)
EXTENDS Sockets

VARIABLES
  status,     \* "starting", "running", or how the process ended
  accepting,  \* an async_accept is outstanding
  op,         \* per client: the handler it waits for, "none" before and after
  taken       \* per client: requests read and not answered

local == <<accepting, op, taken>>
vars  == <<env, fdt, status, local>>

Init ==
  /\ SocketsInit
  /\ status = "starting" /\ accepting = TRUE
  /\ op = [c \in Conns |-> "none"] /\ taken = [c \in Conns |-> << >>]

\* The calls on the acceptor throw, which nobody catches.
StartServer ==
  /\ status = "starting"
  /\ status' \in {"running", "terminated"}
  /\ UNCHANGED <<env, fdt, local>>

FdOf(c) == CHOOSE f \in Fds : fdt[f] = c

\* remote_endpoint() of a reset connection throws, and nobody catches it.
OnAccept ==
  /\ accepting
  /\ \E c \in Conns, s \in Fds :
       /\ AcceptAs(c, s)
       /\ \/ op' = [op EXCEPT ![c] = "read"] /\ UNCHANGED status
          \/ peer[c] = "rst" /\ status' = "terminated" /\ UNCHANGED op
  /\ UNCHANGED <<accepting, taken>>

\* accept() fails: no further async_accept is started.
OnAcceptError ==
  /\ accepting /\ Pending /\ NoFreeFd
  /\ accepting' = FALSE
  /\ UNCHANGED <<env, fdt, status, op, taken>>

HandleRead(c) ==
  /\ op[c] = "read"
  /\ \E k \in 1 .. Len(inbox[c]) :
       Takes(c, k) /\ taken' = [taken EXCEPT ![c] = SubSeq(inbox[c], 1, k)]
  /\ op' = [op EXCEPT ![c] = "write"]
  /\ UNCHANGED <<link, peer, sent, replied, fdt, status, accepting>>

\* The last pointer to the Client goes with the handler, and the socket with it.
HandleReadError(c) ==
  /\ op[c] = "read" /\ AtEnd(c)
  /\ \/ peer[c] = "fin" /\ op' = [op EXCEPT ![c] = "eof"] /\ UNCHANGED fdt
     \/ peer[c] = "rst" /\ op' = [op EXCEPT ![c] = "none"] /\ fdt' = Closed(FdOf(c))
  /\ UNCHANGED <<env, status, accepting, taken>>

\* The address of a client that closed is printed; it may have reset since.
HandleEof(c) ==
  /\ op[c] = "eof"
  /\ \/ peer[c] = "rst" /\ status' = "terminated" /\ UNCHANGED <<fdt, op>>
     \/ peer[c] # "rst" /\ op' = [op EXCEPT ![c] = "none"] /\ fdt' = Closed(FdOf(c))
        /\ UNCHANGED status
  /\ UNCHANGED <<env, accepting, taken>>

\* Mutant: nothing is read after an answer.
HandleWriteLast(c) ==
  /\ op[c] = "write"
  /\ WriteTo(c, taken[c])
  /\ taken' = [taken EXCEPT ![c] = << >>]
  /\ op' = [op EXCEPT ![c] = "idle"]
  /\ UNCHANGED <<link, peer, sent, inbox, fdt, status, accepting>>

\* The handler of the write does not look at its error.
HandleWrite(c) ==
  /\ op[c] = "write"
  /\ WriteTo(c, taken[c])
  /\ taken' = [taken EXCEPT ![c] = << >>]
  /\ op' = [op EXCEPT ![c] = "read"]
  /\ UNCHANGED <<link, peer, sent, inbox, fdt, status, accepting>>

\* run() returns when no handler is waited for.
RunEnds ==
  /\ ~ accepting /\ \A c \in Conns : op[c] = "none"
  /\ status' = "ended"
  /\ UNCHANGED <<env, fdt, local>>

Accepts == status = "running" /\ (OnAccept \/ OnAcceptError)
Handler(c) ==
  status = "running" /\ (HandleRead(c) \/ HandleReadError(c) \/ HandleEof(c) \/ HandleWrite(c))
Step == StartServer \/ Accepts \/ (status = "running" /\ RunEnds) \/ \E c \in Conns : Handler(c)

=============================================================================
