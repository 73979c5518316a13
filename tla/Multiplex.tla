----------------------------- MODULE Multiplex -----------------------------
(***************************************************************************)
(* net/multiplexing: non-blocking sockets polled once a second.  The       *)
(* server reads and never answers; a client that left stays in the list.   *)
(***************************************************************************)
EXTENDS Sockets

VARIABLES
  status,    \* "starting", "running" or "exited"
  clients,   \* descriptors, in the order accepted
  pc,        \* where main() is
  at         \* index of the for_each

local == <<clients, pc, at>>
vars  == <<env, fdt, status, local>>

Init == SocketsInit /\ status = "starting" /\ clients = << >> /\ pc = "accept" /\ at = 1

\* createServerSocket() or setNonBlocked() throws: main() returns.
Start ==
  /\ status = "starting"
  /\ status' \in {"running", "exited"}
  /\ UNCHANGED <<env, fdt, local>>

Accept ==
  /\ pc = "accept"
  /\ \E c \in Conns, s \in Fds : AcceptAs(c, s) /\ clients' = Append(clients, s)
  /\ UNCHANGED <<pc, at>>

\* A null pointer: nobody waits, or descriptors have run out.
AcceptNone ==
  /\ pc = "accept" /\ (~ Pending \/ NoFreeFd)
  /\ pc' = "each" /\ at' = 1
  /\ UNCHANGED <<env, fdt, clients>>

HasData == inbox[fdt[clients[at]]] # << >>

\* Mutant: a client without data ends the round.
EachSkipAll ==
  /\ pc = "each" /\ at <= Len(clients) /\ ~ HasData
  /\ at' = Len(clients) + 1
  /\ UNCHANGED <<env, fdt, clients, pc>>

\* hasData() answers no at the end of a connection too.
EachSkip ==
  /\ pc = "each" /\ at <= Len(clients) /\ ~ HasData
  /\ at' = at + 1
  /\ UNCHANGED <<env, fdt, clients, pc>>

EachRecv ==
  /\ pc = "each" /\ at <= Len(clients) /\ HasData
  /\ LET c == fdt[clients[at]] IN \E k \in 1 .. Len(inbox[c]) : Takes(c, k)
  /\ at' = at + 1
  /\ UNCHANGED <<link, peer, sent, replied, fdt, clients, pc>>

EachEnd ==
  /\ pc = "each" /\ at > Len(clients)
  /\ pc' = "accept"
  /\ UNCHANGED <<env, fdt, clients, at>>

Step ==
  \/ Start
  \/ status = "running"
     /\ (Accept \/ AcceptNone \/ EachSkip \/ EachRecv \/ EachEnd)
     /\ UNCHANGED status

=============================================================================
