------------------------------ MODULE Startup ------------------------------
(***************************************************************************)
(* How a libtpevent server starts (main.cpp, options.cpp, server.cpp,      *)
(* engine.cpp): the options are parsed one by one, an engine is made, its  *)
(* constructor opens the listening socket.  An option that is not given    *)
(* leaves its member uninitialised: any value of its type.                 *)
(***************************************************************************)
EXTENDS Integers, Sequences

CONSTANTS
  Ports,    \* numbers given as --port
  MaxArgs,  \* bound: arguments
  Unset     \* a member nothing was assigned to

PortMod == 65536

\* An argument as split at "=".  "words" stands for one that does not split in
\* two, "other" for an unknown name or a number that std::stoi refuses.
Args == ({"port"} \X Ports) \cup ({"engine"} \X {"select", "poll", "epoll"})
          \cup ({"async"} \X {0, 1, 2}) \cup ({"words", "other"} \X {0})

VARIABLES
  args,       \* argv[1], argv[2], ...
  parsed,     \* arguments looked at
  m_Port, m_Engine, m_Async,
  engine,     \* the engine made, "none" for a null pointer
  listener,   \* its socket: "none", "bound", "listening", or "leaked"
  phase       \* "start", "options", "engine", "serve", "terminated" or "crashed"

vars == <<args, parsed, m_Port, m_Engine, m_Async, engine, listener, phase>>

Init ==
  /\ args \in UNION {[1 .. n -> Args] : n \in 0 .. MaxArgs}
  /\ parsed = 0
  /\ m_Port = Unset /\ m_Engine = Unset /\ m_Async = Unset
  /\ engine = "none" /\ listener = "none" /\ phase = "start"

\* argc counts the program name.
CountArgs ==
  /\ phase = "start"
  /\ phase' = IF Len(args) + 1 < 4 THEN "terminated" ELSE "options"
  /\ UNCHANGED <<args, parsed, m_Port, m_Engine, m_Async, engine, listener>>

\* "epoll" is commented out.
string2engine(s) == CASE s = "select" -> "SELECT" [] s = "poll" -> "POLL" [] OTHER -> "UNKNOWN"

\* m_Port is a uint16_t.
ToPort(n) == n % PortMod

Usable(arg) ==
  /\ arg[1] \in {"port", "engine", "async"}
  /\ arg[1] = "engine" => string2engine(arg[2]) # "UNKNOWN"
  /\ arg[1] = "async" => arg[2] \in {0, 1}

ParseOption ==
  /\ phase = "options" /\ parsed < Len(args)
  /\ LET arg == args[parsed + 1] IN
       /\ phase' = IF Usable(arg) THEN phase ELSE "terminated"
       /\ m_Port' = IF arg[1] = "port" THEN ToPort(arg[2]) ELSE m_Port
       /\ m_Engine' = IF arg[1] = "engine" THEN string2engine(arg[2]) ELSE m_Engine
       /\ m_Async' = IF Usable(arg) /\ arg[1] = "async" THEN arg[2] = 1 ELSE m_Async
  /\ parsed' = parsed + 1
  /\ UNCHANGED <<args, engine, listener>>

\* What an uninitialised member may hold.
Holds(member, values) == IF member = Unset THEN values ELSE {member}

\* Mutant: the synchronous poll engine is forgotten.
ChosenAsyncOnly(type, async) ==
  CASE type = "SELECT" -> "select"
    [] type = "POLL" /\ async -> "poll_async"
    [] OTHER -> "none"

\* get_engine(): a value outside the enumeration makes no engine.
Chosen(type, async) ==
  CASE type = "SELECT" -> "select"
    [] type = "POLL"   -> IF async THEN "poll_async" ELSE "poll"
    [] OTHER           -> "none"

MakeEngine ==
  /\ phase = "options" /\ parsed = Len(args)
  /\ \E type \in Holds(m_Engine, {"UNKNOWN", "SELECT", "POLL", "other"}),
        async \in Holds(m_Async, BOOLEAN), port \in Holds(m_Port, {ToPort(p) : p \in Ports}) :
       /\ m_Port' = port
       /\ engine' = Chosen(type, async)
       /\ phase' = IF type = "UNKNOWN" THEN "terminated" ELSE "engine"
  /\ UNCHANGED <<args, parsed, m_Engine, m_Async, listener>>

\* The constructor of the engine.  socket(), setsockopt() or bind() may fail and
\* end the program; a socket made before is not closed.  The result of listen()
\* is ignored.
ListenSocket ==
  /\ phase = "engine" /\ engine # "none" /\ listener = "none"
  /\ \/ listener' \in {"listening", "bound"} /\ UNCHANGED phase
     \/ listener' \in {"none", "leaked"} /\ phase' = "terminated"
  /\ UNCHANGED <<args, parsed, m_Port, m_Engine, m_Async, engine>>

\* Server::run() calls through the pointer.
Run ==
  /\ phase = "engine" /\ (engine = "none" \/ listener # "none")
  /\ phase' = IF engine = "none" THEN "crashed" ELSE "serve"
  /\ UNCHANGED <<args, parsed, m_Port, m_Engine, m_Async, engine, listener>>

Next == CountArgs \/ ParseOption \/ MakeEngine \/ ListenSocket \/ Run

Spec == Init /\ [][Next]_vars

(***************************************************************************)
(* Properties.                                                             *)
(***************************************************************************)
Given(name) == {k \in DOMAIN args : args[k][1] = name}
LastOf(name) == args[CHOOSE k \in Given(name) : \A j \in Given(name) : j <= k][2]

\* A server that runs is the one its command line asks for, the last word on
\* each option counting, although only the number of options is checked and not
\* that each is there (options.cpp:41-79); it crashes on a null engine only when no
\* engine was asked for (server.cpp:15, 43).  The exception: 65536, which usage()
\* offers ("1025..65536", options.cpp:22), does not fit the uint16_t it is cast to
\* (options.cpp:58) and becomes port 0, as greater numbers wrap around.
ServesAsAsked ==
  /\ phase = "crashed" => Given("engine") = {}
  /\ phase = "serve" =>
       /\ Given("engine") # {} =>
            IF LastOf("engine") = "select" THEN engine = "select"
            ELSE Given("async") # {} =>
                   engine = IF LastOf("async") = 1 THEN "poll_async" ELSE "poll"
       /\ Given("port") # {} /\ LastOf("port") < 65536 => m_Port = LastOf("port")

=============================================================================
