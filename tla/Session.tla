------------------------------ MODULE Session ------------------------------
(***************************************************************************)
(* What a request/reply server of net/ promises its clients, whatever      *)
(* multiplexer it is built on.  A client's requests are taken in order,    *)
(* each batch is answered before the next one is taken, only a client that *)
(* closed or reset its connection is dropped, and the server goes down     *)
(* only when a client has reset its connection (SIGPIPE is not handled).   *)
(***************************************************************************)
EXTENDS Naturals, Sequences

CONSTANTS Conns

VARIABLES
  up,        \* the server process runs
  phase,     \* per client: "none", "open", then "closed" by the server
  peer,      \* per client: the far end is "open", sent "fin" or "rst"
  inbox,     \* per client: requests that have arrived
  pending,   \* per client: requests taken and not yet answered
  replied    \* per client: requests answered

vars == <<up, phase, peer, inbox, pending, replied>>

Init ==
  /\ up = TRUE
  /\ phase = [c \in Conns |-> "none"]
  /\ peer = [c \in Conns |-> "open"]
  /\ inbox = [c \in Conns |-> << >>]
  /\ pending = [c \in Conns |-> << >>]
  /\ replied = [c \in Conns |-> << >>]

Arrive(c) ==
  /\ phase[c] = "none"
  /\ phase' = [phase EXCEPT ![c] = "open"]
  /\ UNCHANGED <<up, peer, inbox, pending, replied>>

\* One more request than were sent before, whether answered or not.
Request(c) ==
  /\ phase[c] = "open" /\ peer[c] = "open"
  /\ LET n == Len(replied[c]) + Len(pending[c]) + Len(inbox[c]) IN
       inbox' = [inbox EXCEPT ![c] = Append(@, <<c, n + 1>>)]
  /\ UNCHANGED <<up, phase, peer, pending, replied>>

Leave(c) ==
  /\ phase[c] = "open"
  /\ \/ peer[c] = "open" /\ peer' = [peer EXCEPT ![c] = "fin"]
     \/ peer[c] # "rst" /\ peer' = [peer EXCEPT ![c] = "rst"]
  /\ UNCHANGED <<up, phase, inbox, pending, replied>>

Take(c) ==
  /\ phase[c] = "open" /\ pending[c] = << >>
  /\ \E k \in 1 .. Len(inbox[c]) :
       /\ pending' = [pending EXCEPT ![c] = SubSeq(inbox[c], 1, k)]
       /\ inbox' = [inbox EXCEPT ![c] = SubSeq(@, k + 1, Len(@))]
  /\ UNCHANGED <<up, phase, peer, replied>>

\* An answer to a client that reset its connection is lost.
Answer(c) ==
  /\ phase[c] = "open" /\ pending[c] # << >>
  /\ replied' = IF peer[c] = "rst" THEN replied
                ELSE [replied EXCEPT ![c] = @ \o pending[c]]
  /\ pending' = [pending EXCEPT ![c] = << >>]
  /\ UNCHANGED <<up, phase, peer, inbox>>

Drop(c) ==
  /\ phase[c] = "open" /\ peer[c] # "open"
  /\ phase' = [phase EXCEPT ![c] = "closed"]
  /\ pending' = [pending EXCEPT ![c] = << >>]
  /\ UNCHANGED <<up, peer, inbox, replied>>

GoDown ==
  /\ \E c \in Conns : phase[c] = "open" /\ peer[c] = "rst"
  /\ up' = FALSE
  /\ UNCHANGED <<phase, peer, inbox, pending, replied>>

Next ==
  /\ up
  /\ \/ \E c \in Conns : Arrive(c) \/ Request(c) \/ Leave(c) \/ Take(c) \/ Answer(c) \/ Drop(c)
     \/ GoDown

Spec == Init /\ [][Next]_vars

=============================================================================
