-------------------------- MODULE BlockingServers --------------------------
(***************************************************************************)
(* simple_server and prefork: one process, or two that share the listening *)
(* socket after a fork(), each serving one client at a time with blocking  *)
(* calls of the Socket class and a receive timeout.  A process holds one   *)
(* client socket at most: its number here names the process.               *)
(***************************************************************************)
EXTENDS Sockets

VARIABLES
  up,     \* per process: "start", "up", or how it ended
  more    \* per process: its client has sent more than its numbered requests

vars == <<env, fdt, up, more>>

Init == SocketsInit /\ up = [p \in Fds |-> "start"] /\ more = [p \in Fds |-> FALSE]

\* A client may go on sending for as long as it likes; what it sends beyond its
\* numbered requests is not told apart.
SendMore(p) ==
  /\ up[p] = "up" /\ fdt[p] # NoConn /\ peer[fdt[p]] = "open"
  /\ inbox[fdt[p]] = << >> /\ ~ more[p]
  /\ more' = [more EXCEPT ![p] = TRUE]
  /\ UNCHANGED <<env, fdt, up>>

\* The processes there are after main() has forked, if it does: a fork() that
\* fails leaves one.
Forked(processes) == {{FirstFd}, processes}

\* createServerSocket() throws when a call fails: main() returns.
CreateServerSocket(processes) ==
  /\ \A p \in Fds : up[p] = "start"
  /\ \E alive \in {{}} \cup Forked(processes) :
       up' = [p \in Fds |-> IF p \in alive THEN "up" ELSE "ended"]
  /\ UNCHANGED <<env, fdt, more>>

\* accept() of a client that is gone may fail: it returns a null pointer, which
\* client_work() follows.  setRcvTimeout() is not in a try block of client_work():
\* when it throws, main() returns and the process ends.
Accept(p) ==
  /\ fdt[p] = NoConn
  /\ \E c \in Conns :
       /\ link[c] = "backlog"
       /\ link' = [link EXCEPT ![c] = "accepted"]
       /\ \/ fdt' = [fdt EXCEPT ![p] = c] /\ UNCHANGED up
          \/ peer[c] = "rst" /\ up' = [up EXCEPT ![p] = "crashed"] /\ UNCHANGED fdt
          \/ up' = [up EXCEPT ![p] = "ended"] /\ UNCHANGED fdt
  /\ UNCHANGED <<peer, sent, inbox, replied, more>>

\* Writing to a reset connection raises SIGPIPE, or throws.
WriteFails(p) ==
  /\ fdt' = Closed(p) /\ more' = [more EXCEPT ![p] = FALSE]
  /\ up' \in {up, [up EXCEPT ![p] = "sigpipe"]}

\* recv() and send().
Serve(p) ==
  LET c == fdt[p] IN
  /\ c # NoConn
  /\ \E k \in 1 .. Len(inbox[c]) :
       /\ Takes(c, k)
       /\ \/ /\ peer[c] # "rst" /\ WriteTo(c, SubSeq(inbox[c], 1, k))
             /\ UNCHANGED <<fdt, up, more>>
          \/ /\ peer[c] = "rst" /\ WriteFails(p)
             /\ UNCHANGED replied
  /\ UNCHANGED <<link, peer, sent>>

\* The same for what was sent beyond the numbered requests.
ServeMore(p) ==
  /\ more[p] /\ inbox[fdt[p]] = << >>
  /\ \/ /\ peer[fdt[p]] # "rst" /\ more' = [more EXCEPT ![p] = FALSE]
        /\ UNCHANGED <<fdt, up>>
     \/ peer[fdt[p]] = "rst" /\ WriteFails(p)
  /\ UNCHANGED env

\* Mutant: without setRcvTimeout().
GiveUpAtEnd(p) ==
  /\ fdt[p] # NoConn /\ AtEnd(fdt[p]) /\ ~ more[p]
  /\ fdt' = Closed(p)
  /\ UNCHANGED <<env, up, more>>

\* Mutant: the timeout also ends a client whose data has come.
GiveUpLate(p) ==
  /\ fdt[p] # NoConn
  /\ fdt' = Closed(p) /\ more' = [more EXCEPT ![p] = FALSE]
  /\ UNCHANGED <<env, up>>

\* recv() throws: the end, an error, or a timeout.  The Socket goes with the
\* last pointer to it.
GiveUp(p) ==
  /\ fdt[p] # NoConn /\ inbox[fdt[p]] = << >> /\ ~ more[p]
  /\ fdt' = Closed(p)
  /\ UNCHANGED <<env, up, more>>

Step(p) == up[p] = "up" /\ (Accept(p) \/ Serve(p) \/ ServeMore(p) \/ GiveUp(p))

=============================================================================
