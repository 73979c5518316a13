---------------------------- MODULE SimpleSelect ----------------------------
(***************************************************************************)
(* The select() server of net/simplest_client_server (server_select.cpp):  *)
(* one thread, non-blocking sockets, the clients in an ordered set.        *)
(***************************************************************************)
EXTENDS Sockets, FiniteSetsExt

VARIABLES
  status,    \* "starting", "running", or how the process ended
  clients,   \* descriptors of the clients
  readset,   \* descriptors select() reported
  pc,        \* where main() is
  it         \* the iterator stands behind this descriptor

local == <<clients, readset, pc, it>>
vars  == <<env, fdt, status, local>>

\* The listening socket is opened just before the first client.
Listener == FirstFd - 1

Init ==
  /\ SocketsInit
  /\ status = "starting"
  /\ clients = {} /\ readset = {} /\ pc = "select" /\ it = 0

\* make_socket() exits when a call fails; a socket that setsockopt() failed for
\* is closed, and bind() fails on it.
MakeSocket ==
  /\ status = "starting"
  /\ status' \in {"running", "exited"}
  /\ UNCHANGED <<env, fdt, local>>

Readable(s) ==
  IF s = Listener THEN Pending ELSE inbox[fdt[s]] # << >> \/ peer[fdt[s]] # "open"

Select ==
  /\ pc = "select"
  /\ \E s \in clients \cup {Listener} : Readable(s)
  /\ readset' = {s \in clients \cup {Listener} : Readable(s)}
  /\ pc' = "accept"
  /\ UNCHANGED <<env, fdt, status, clients, it>>

\* Nothing for a minute: the server gives up.
SelectTimeout ==
  /\ pc = "select"
  /\ \A s \in clients \cup {Listener} : ~ Readable(s)
  /\ status' = "exited"
  /\ UNCHANGED <<env, fdt, local>>

\* accept() fails when descriptors have run out, and ends the program.
Accept ==
  /\ pc = "accept"
  /\ \/ Listener \notin readset /\ UNCHANGED <<env, fdt, status, clients>>
     \/ /\ Listener \in readset
        /\ \E c \in Conns, s \in Fds : AcceptAs(c, s) /\ clients' = clients \cup {s}
        /\ UNCHANGED status
     \/ /\ Listener \in readset /\ NoFreeFd
        /\ status' = "exited"
        /\ UNCHANGED <<env, fdt, clients>>
  /\ pc' = "loop" /\ it' = 0
  /\ UNCHANGED readset

Ahead == {s \in clients : s > it}
Current(s) == pc = "loop" /\ Ahead # {} /\ s = Min(Ahead)

LoopSkip ==
  \E s \in clients :
    /\ Current(s) /\ s \notin readset
    /\ it' = s
    /\ UNCHANGED <<env, fdt, status, clients, readset, pc>>

\* recv() and the answer, whose result is ignored; SIGPIPE is not.
LoopServe ==
  \E s \in clients :
    /\ Current(s) /\ s \in readset
    /\ LET c == fdt[s] IN
       \E k \in 1 .. Len(inbox[c]) :
         /\ Takes(c, k)
         /\ \/ WriteTo(c, SubSeq(inbox[c], 1, k)) /\ UNCHANGED status
            \/ peer[c] = "rst" /\ status' = "sigpipe" /\ UNCHANGED replied
    /\ it' = s
    /\ UNCHANGED <<link, peer, sent, fdt, clients, readset, pc>>

\* Mutant: the client stays in the set.
LoopGoneKept ==
  \E s \in clients :
    /\ Current(s) /\ s \in readset /\ AtEnd(fdt[s])
    /\ it' = s
    /\ UNCHANGED <<env, fdt, status, clients, readset, pc>>

\* recv() <= 0.  The iterator of the erased element is advanced, which is
\* undefined: the freed node still leads to a later client, or the process
\* crashes.  With no client left the loop is left before that.
LoopGone ==
  \E s \in clients :
    /\ Current(s) /\ s \in readset /\ AtEnd(fdt[s])
    /\ fdt' = Closed(s)
    /\ clients' = clients \ {s}
    /\ \/ it' \in {f \in clients : f >= s} /\ UNCHANGED status
       \/ clients' # {} /\ status' = "crashed" /\ UNCHANGED it
    /\ UNCHANGED <<env, readset, pc>>

LoopEnd ==
  /\ pc = "loop" /\ Ahead = {}
  /\ pc' = "select" /\ readset' = {} /\ it' = 0
  /\ UNCHANGED <<env, fdt, status, clients>>

Step ==
  \/ MakeSocket
  \/ status = "running"
     /\ (Select \/ SelectTimeout \/ Accept \/ LoopSkip \/ LoopServe \/ LoopGone \/ LoopEnd)

=============================================================================
