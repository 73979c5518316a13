----------------------------- MODULE MCPrograms -----------------------------
(***************************************************************************)
(* Instances, for TLC, of the start-up of a libtpevent server and of the   *)
(* client programs.  They do not interact: a behaviour runs one of them    *)
(* and the other keeps an initial state.                                   *)
(***************************************************************************)
EXTENDS Naturals, Sequences

CONSTANTS
  Ports, MaxArgs, Unset,
  Answers, QuerySize, BufSize, SizeMod, MaxPieces

\* --port takes a number.
ASSUME PortsAssumption == Ports \subseteq Nat

\* What an option assigns differs from what a member holds before.
ASSUME UnsetAssumption == Unset # "SELECT" /\ Unset # "POLL" /\ Unset # TRUE /\ Unset # FALSE
ASSUME UnsetPortAssumption == Unset \notin Nat

\* The length of a query is a size_t.
ASSUME QueryAssumption == QuerySize \in Nat /\ SizeMod \in Nat /\ QuerySize < SizeMod

\* The buffer of recv() has a size.
ASSUME BufferAssumption == BufSize \in Nat

\* An answer is text and line ends.
ASSUME AnswersAssumption == Answers \subseteq Seq({"x", "\r", "\n"})

\* An answer with headers and a body, one of line ends only, and one whose body
\* starts with a line end.
SampleAnswers ==
           {<<"x", "\r", "\n", "\r", "\n", "x">>, <<"\r", "\n">>,
            <<"x", "\r", "\n", "\r", "\n", "\r", "x">>}

VARIABLES
  subject,
  args, parsed, m_Port, m_Engine, m_Async, engine, listener, phase,
  program, pc, fd, conn, peer, answer, arrived, more, left, off, pieces, stream, ret, taken, cuts,
  outcome

U == INSTANCE Startup
P == INSTANCE SocketClients

startVars  == <<args, parsed, m_Port, m_Engine, m_Async, engine, listener, phase>>
clientVars == <<program, pc, fd, conn, peer, answer, arrived, more, left, off, pieces,
                stream, ret, taken, cuts, outcome>>

AllInit ==
  /\ subject \in {"startup", "client"}
  /\ U!Init /\ (subject # "startup" => args = << >>)
  /\ P!Init /\ (subject # "client" => program = "simplest" /\ Len(answer) = 2)

AllNext ==
  /\ \/ subject = "startup" /\ U!Next /\ UNCHANGED clientVars
     \/ subject = "client" /\ P!Next /\ UNCHANGED startVars
  /\ UNCHANGED subject

\* Timers run out and the client program runs whenever it can, unless it waits in
\* send() or write().
AllSpec ==
  /\ AllInit /\ [][AllNext]_<<subject, startVars, clientVars>>
  /\ WF_clientVars(subject = "client" /\ P!Runs(P!Proceeds))

(***************************************************************************)
(* The properties of each module under a name of their own.                *)
(***************************************************************************)
\* A server that runs is the one asked for, on the port asked for if it is below
\* 65536 (Startup!ServesAsAsked).
ServesAsAsked == U!ServesAsAsked
\* A client closes its socket on every path (SocketClients!ClosedAtEnd).
ClosedAtEnd == P!ClosedAtEnd
\* A query in one or two pieces is sent as it is (SocketClients!SentIntact).
SentIntact == P!SentIntact
\* When the http client sees the headers (SocketClients!HeadersSeen).
HeadersSeen == P!HeadersSeen
\* The programs with a timeout end, with two exceptions
\* (SocketClients!EndsInTime).
EndsInTime == P!EndsInTime

=============================================================================
