---------------------------- MODULE SelectEngine ----------------------------
(***************************************************************************)
(* The select() server of net/libtpevent (select.cpp): one thread, the     *)
(* listener kept as the first of m_Clients, an echo per read.              *)
(* Descriptors do not run out here.                                        *)
(***************************************************************************)
EXTENDS Sockets, SequencesExt

VARIABLES
  status,     \* "running", or how the process ended
  m_Clients,  \* descriptors: the listener, then the clients
  read_fds,   \* descriptors select() reported
  spc,        \* where the thread is in manageConnections
  si,         \* index of the loop over m_Clients
  buf,        \* requests read and not yet echoed
  gone        \* disconnected_clients

local == <<m_Clients, read_fds, spc, si, buf, gone>>
vars  == <<env, fdt, status, local>>

\* The listening socket is opened just before the first client.
Listener == FirstFd - 1

Init ==
  /\ SocketsInit
  /\ status = "running"
  /\ m_Clients = <<Listener>>
  /\ read_fds = {} /\ spc = "select" /\ si = 1 /\ buf = << >> /\ gone = << >>

Client(c) ==
  /\ status = "running"
  /\ ClientStep(c)
  /\ UNCHANGED <<status, local>>

\* What select() finds readable: a backlog, data, or an end.
Readable(s) ==
  \/ s = Listener /\ Pending
  \/ s \in Fds /\ fdt[s] # NoConn /\ (inbox[fdt[s]] # << >> \/ peer[fdt[s]] # "open")

\* Build the set and wait.  A closed descriptor in it makes select() fail and
\* the process exit.
Select ==
  /\ spc = "select"
  /\ IF \E s \in ToSet(m_Clients) \ {Listener} : SocketAt(s) = NoConn
     THEN status' = "exited" /\ UNCHANGED local
     ELSE /\ \E s \in ToSet(m_Clients) : Readable(s)
          /\ read_fds' = {s \in ToSet(m_Clients) : Readable(s)}
          /\ spc' = "loop"
          /\ UNCHANGED <<status, m_Clients, si, buf, gone>>
  /\ UNCHANGED <<env, fdt>>

\* The descriptor of this iteration, reported by select().
Current(s) == spc = "loop" /\ si <= Len(m_Clients) /\ m_Clients[si] = s /\ s \in read_fds

\* Mutant: the index advances twice.
LoopSkipTwo ==
  /\ spc = "loop" /\ si <= Len(m_Clients) /\ m_Clients[si] \notin read_fds
  /\ si' = si + 2
  /\ UNCHANGED <<env, fdt, status, m_Clients, read_fds, spc, buf, gone>>

LoopSkip ==
  /\ spc = "loop" /\ si <= Len(m_Clients) /\ m_Clients[si] \notin read_fds
  /\ si' = si + 1
  /\ UNCHANGED <<env, fdt, status, m_Clients, read_fds, spc, buf, gone>>

\* A new client ends the loop: the vector has grown.
LoopAccept ==
  /\ Current(Listener)
  /\ \E c \in Conns, s \in Fds : AcceptAs(c, s) /\ m_Clients' = Append(m_Clients, s)
  /\ spc' = "cleanup"
  /\ UNCHANGED <<status, read_fds, si, buf, gone>>

LoopRead ==
  \E s \in Fds :
    /\ Current(s) /\ fdt[s] # NoConn
    /\ \E k \in 1 .. Len(inbox[fdt[s]]) :
         buf' = SubSeq(inbox[fdt[s]], 1, k) /\ Takes(fdt[s], k)
    /\ spc' = "write"
    /\ UNCHANGED <<link, peer, sent, replied, fdt, status, m_Clients, read_fds, si, gone>>

\* read() = 0 or read() < 0: the client is removed after the loop.
LoopGone ==
  \E s \in Fds :
    /\ Current(s) /\ (fdt[s] # NoConn => AtEnd(fdt[s]))
    /\ gone' = Append(gone, s)
    /\ si' = si + 1
    /\ UNCHANGED <<env, fdt, status, m_Clients, read_fds, spc, buf>>

\* The echo is written in the same iteration; a reset may have come between.
LoopWrite ==
  /\ spc = "write"
  /\ WriteTo(SocketAt(m_Clients[si]), buf)
  /\ buf' = << >> /\ si' = si + 1 /\ spc' = "loop"
  /\ UNCHANGED <<link, peer, sent, inbox, fdt, status, m_Clients, read_fds, gone>>

LoopSigpipe ==
  /\ spc = "write"
  /\ peer[SocketAt(m_Clients[si])] = "rst"
  /\ status' = "sigpipe"
  /\ UNCHANGED <<env, fdt, local>>

LoopEnd ==
  /\ spc = "loop" /\ si > Len(m_Clients)
  /\ spc' = "cleanup"
  /\ UNCHANGED <<env, fdt, status, m_Clients, read_fds, si, buf, gone>>

\* Mutant: the descriptor stays open.
CleanupKeepsOpen ==
  /\ spc = "cleanup" /\ gone # << >>
  /\ \E k \in DOMAIN m_Clients : m_Clients[k] = Head(gone) /\ m_Clients' = RemoveAt(m_Clients, k)
  /\ gone' = Tail(gone)
  /\ UNCHANGED <<env, fdt, status, read_fds, spc, si, buf>>

\* Mutant: the descriptor is closed, its entry stays.
CleanupKeepsEntry ==
  /\ spc = "cleanup" /\ gone # << >>
  /\ fdt' = Closed(Head(gone))
  /\ gone' = Tail(gone)
  /\ UNCHANGED <<env, status, m_Clients, read_fds, spc, si, buf>>

\* Close and erase the disconnected clients.
Cleanup ==
  /\ spc = "cleanup" /\ gone # << >>
  /\ IF Head(gone) \in ToSet(m_Clients)
     THEN /\ fdt' = Closed(Head(gone))
          /\ m_Clients' = RemoveFirst(m_Clients, Head(gone))
          /\ UNCHANGED status
     ELSE status' = "aborted" /\ UNCHANGED <<fdt, m_Clients>>
  /\ gone' = Tail(gone)
  /\ UNCHANGED <<env, read_fds, spc, si, buf>>

CleanupEnd ==
  /\ spc = "cleanup" /\ gone = << >>
  /\ read_fds' = {} /\ si' = 1 /\ spc' = "select"
  /\ UNCHANGED <<env, fdt, status, m_Clients, buf, gone>>

Loop ==
  /\ status = "running"
  /\ \/ Select \/ LoopSkip \/ LoopAccept \/ LoopRead \/ LoopGone
     \/ LoopWrite \/ LoopSigpipe \/ LoopEnd \/ Cleanup \/ CleanupEnd

Next == Loop \/ \E c \in Conns : Client(c)

\* The thread runs whenever it can.
Spec == Init /\ [][Next]_vars /\ WF_vars(Loop)

(***************************************************************************)
(* Properties.                                                             *)
(***************************************************************************)
\* Every variable has its type.
TypeOK ==
  /\ SocketsType
  /\ status \in {"running", "exited", "aborted", "sigpipe"}
  /\ m_Clients \in Seq(Fds \cup {Listener})
  /\ read_fds \subseteq Fds \cup {Listener}
  /\ spc \in {"select", "loop", "write", "cleanup"}
  /\ si \in Nat \ {0}
  /\ buf \in Seq(Request)
  /\ gone \in Seq(Fds)

=============================================================================
