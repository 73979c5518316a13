----------------------------- MODULE SimplePoll -----------------------------
(***************************************************************************)
(* The poll() server of net/simplest_client_server (server_poll.cpp): one  *)
(* thread, non-blocking sockets, an array of pollfd that only grows.  The  *)
(* slot of a client that left keeps its number, which accept() may give to *)
(* the next client: then two slots watch one socket.  That a client is to  *)
(* be answered is kept in its slot, as POLLOUT, not with the client.       *)
(***************************************************************************)
EXTENDS Sockets

CONSTANTS POLL_SIZE   \* length of the array

VARIABLES
  status,    \* "starting", "running", or how the process ended
  fds,       \* the first numfds slots: the listener, then clients
  pc,        \* where main() is
  i          \* index of the loop

local == <<fds, pc, i>>
vars  == <<env, fdt, status, local>>

Listener == FirstFd - 1

\* owed is a ghost: the requests that the hello of this slot is for.
NewSlot(s) == [fd |-> s, events |-> "R", revents |-> "0", owed |-> << >>]

Init ==
  /\ SocketsInit
  /\ status = "starting"
  /\ fds = <<NewSlot(Listener)>> /\ pc = "poll" /\ i = 1

\* make_socket() exits when a call fails.
MakeSocket ==
  /\ status = "starting"
  /\ status' \in {"running", "exited"}
  /\ UNCHANGED <<env, fdt, local>>

Revents(slot) ==
  IF slot.fd # Listener THEN PollEvents(slot.fd, slot.events)
  ELSE IF Pending THEN "IN" ELSE "0"

\* A poll() that times out is repeated.
Poll ==
  /\ pc = "poll"
  /\ \E k \in DOMAIN fds : Revents(fds[k]) # "0"
  /\ fds' = [k \in DOMAIN fds |-> [fds[k] EXCEPT !.revents = Revents(fds[k])]]
  /\ pc' = "loop" /\ i' = 1
  /\ UNCHANGED <<env, fdt, status>>

Iterates(ev) == pc = "loop" /\ i <= Len(fds) /\ fds[i].revents = ev

\* A hang-up is only reported, a closed descriptor not even that.
LoopSkip ==
  /\ Iterates("0") \/ Iterates("HUP") \/ Iterates("NVAL")
  /\ i' = i + 1
  /\ UNCHANGED <<env, fdt, status, fds, pc>>

\* numfds is not checked: one client too many is written behind the array.
LoopAccept ==
  /\ Iterates("IN") /\ fds[i].fd = Listener
  /\ \/ \E c \in Conns, s \in Fds :
          /\ AcceptAs(c, s)
          /\ IF Len(fds) < POLL_SIZE THEN fds' = Append(fds, NewSlot(s)) /\ UNCHANGED status
                                     ELSE status' = "overflow" /\ UNCHANGED fds
     \/ NoFreeFd /\ status' = "exited" /\ UNCHANGED <<env, fdt, fds>>
  /\ i' = i + 1
  /\ UNCHANGED pc

Target == SocketAt(fds[i].fd)
Reads == Iterates("IN") /\ fds[i].fd # Listener

\* read() > 0: answer when the socket is writable.
LoopRead ==
  LET c == Target IN
  /\ Reads /\ c # NoConn
  /\ \E k \in 1 .. Len(inbox[c]) :
       /\ Takes(c, k)
       /\ fds' = [fds EXCEPT ![i].revents = "0", ![i].events = "W",
                             ![i].owed = @ \o SubSeq(inbox[c], 1, k)]
  /\ i' = i + 1
  /\ UNCHANGED <<link, peer, sent, replied, fdt, status, pc>>

\* read() <= 0: the end, an error, or nothing to read after all.  The
\* descriptor is closed and its slot stays.
LoopEnds ==
  /\ Reads
  /\ Target # NoConn => inbox[Target] = << >>
  /\ fdt' = Closed(fds[i].fd)
  /\ fds' = [fds EXCEPT ![i].revents = "0"]
  /\ i' = i + 1
  /\ UNCHANGED <<env, status, pc>>

\* Mutant: the slot goes on asking for POLLOUT.
LoopWriteAgain ==
  /\ Iterates("OUT")
  /\ WriteTo(Target, fds[i].owed) /\ UNCHANGED status
  /\ i' = i + 1
  /\ UNCHANGED <<link, peer, sent, inbox, fdt, fds, pc>>

\* The hello of the slot goes to the client that has its number now.
LoopWrite ==
  LET c == Target IN
  /\ Iterates("OUT")
  /\ \/ WriteTo(c, fds[i].owed) /\ UNCHANGED status
     \/ c # NoConn /\ peer[c] = "rst" /\ status' = "sigpipe" /\ UNCHANGED replied
  /\ fds' = [fds EXCEPT ![i].events = "R", ![i].owed = << >>]
  /\ i' = i + 1
  /\ UNCHANGED <<link, peer, sent, inbox, fdt, pc>>

LoopEnd ==
  /\ pc = "loop" /\ i > Len(fds)
  /\ pc' = "poll" /\ i' = 1
  /\ UNCHANGED <<env, fdt, status, fds>>

Step ==
  \/ MakeSocket
  \/ status = "running"
     /\ (Poll \/ LoopSkip \/ LoopAccept \/ LoopRead \/ LoopEnds \/ LoopWrite \/ LoopEnd)

\* Two slots watch the socket of a client.
Twins(c) ==
  \E j, k \in DOMAIN fds : j # k /\ fds[j].fd = fds[k].fd /\ SocketAt(fds[j].fd) = c

=============================================================================
