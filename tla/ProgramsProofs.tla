--------------------------- MODULE ProgramsProofs ---------------------------
(***************************************************************************)
(* Theorems about the programs around the servers: the start-up of a       *)
(* libtpevent server for command lines of any length, and the client       *)
(* programs for queries of any length and any size of the receive buffer.  *)
(***************************************************************************)
EXTENDS MCPrograms, SequenceLemmas

(***************************************************************************)
(* The start-up.                                                           *)
(***************************************************************************)
\* The k-th argument is the last one of that name that was looked at.
Latest(k, name) ==
  /\ k \in U!Given(name) /\ k <= parsed
  /\ \A j \in U!Given(name) : j <= parsed => j <= k

\* An option that was looked at has a last word.
HaveLast ==
  \A name \in {"port", "engine", "async"} :
    (\A k \in U!Given(name) : k > parsed) \/ \E k \in DOMAIN args : Latest(k, name)

\* The members hold the last words, which are words the parser accepts.
AsyncIs(word) ==
  \/ word = 1 /\ m_Async = TRUE
  \/ word = 0 /\ m_Async = FALSE

Assigned ==
  \A k \in DOMAIN args :
    /\ Latest(k, "port") => m_Port = args[k][2] % 65536 /\ m_Port # Unset
    /\ Latest(k, "engine") => \/ args[k][2] = "select" /\ m_Engine = "SELECT"
                              \/ args[k][2] = "poll" /\ m_Engine = "POLL"
    /\ Latest(k, "async") => AsyncIs(args[k][2])

\* The engine made is the one they name.
Made ==
  /\ \A k \in DOMAIN args : Latest(k, "port") => m_Port = args[k][2] % 65536
  /\ \A k \in DOMAIN args : Latest(k, "engine") =>
       \/ args[k][2] = "select" /\ engine = "select"
       \/ /\ args[k][2] = "poll" /\ engine \in {"poll", "poll_async"}
          /\ \A j \in DOMAIN args : Latest(j, "async") =>
               engine = IF args[j][2] = 1 THEN "poll_async" ELSE "poll"

StartInv ==
  /\ args \in Seq(U!Args) /\ parsed \in 0 .. Len(args) /\ HaveLast
  /\ phase \in {"start", "options"} => Assigned
  /\ phase \in {"engine", "serve", "crashed"} => parsed = Len(args) /\ Made
  /\ phase = "crashed" => engine = "none"

\* What the names of the arguments say of their values.
LEMMA ArgValues ==
  ASSUME StartInv, NEW k \in DOMAIN args
  PROVE  /\ args[k][1] = "port" => args[k][2] \in Nat
         /\ k \in 1 .. Len(args)
<1>1. args[k] \in U!Args /\ k \in 1 .. Len(args)
  BY DEF StartInv
<1>2. \A x \in {"port"} \X Ports : x[2] \in Nat
  <2>1. \A x \in {"port"} \X Ports : x[2] \in Ports
    OBVIOUS
  <2> QED
    BY <2>1, PortsAssumption
<1>3. \A x \in ({"engine"} \X {"select", "poll", "epoll"}) \cup ({"async"} \X {0, 1, 2})
             \cup ({"words", "other"} \X {0}) : x[1] # "port"
  <2>1. \A x \in {"engine"} \X {"select", "poll", "epoll"} : x[1] # "port"
    OBVIOUS
  <2>2. \A x \in {"async"} \X {0, 1, 2} : x[1] # "port"
    OBVIOUS
  <2>3. \A x \in {"words", "other"} \X {0} : x[1] # "port"
    OBVIOUS
  <2> QED
    BY <2>1, <2>2, <2>3
<1>4. args[k] \in {"port"} \X Ports \/ args[k][1] # "port"
  BY <1>1, <1>3 DEF U!Args
<1> QED
  BY <1>1, <1>2, <1>4

\* A step that assigns none of these keeps what is said of them.
LEMMA StartFrame ==
  ASSUME args' = args, parsed' = parsed, m_Port' = m_Port, m_Engine' = m_Engine,
         m_Async' = m_Async, engine' = engine
  PROVE  /\ HaveLast' = HaveLast /\ Assigned' = Assigned /\ Made' = Made
         /\ \A k, name : Latest(k, name)' = Latest(k, name)
BY DEF HaveLast, Assigned, AsyncIs, Made, Latest, U!Given

\* The next argument becomes the last one of its name, and of no other.
LEMMA LatestMoves ==
  ASSUME StartInv, args' = args, parsed' = parsed + 1, parsed < Len(args)
  PROVE  /\ parsed + 1 \in DOMAIN args
         /\ \A name : args[parsed + 1][1] = name =>
              \A k \in DOMAIN args : Latest(k, name)' <=> k = parsed + 1
         /\ \A name : args[parsed + 1][1] # name =>
              /\ \A k \in DOMAIN args : Latest(k, name)' <=> Latest(k, name)
              /\ (\A k \in U!Given(name) : k > parsed) => \A k \in U!Given(name) : k > parsed'
<1> DEFINE n == parsed + 1
<1>1. parsed \in Nat /\ DOMAIN args = 1 .. Len(args) /\ Len(args) \in Nat
  BY DEF StartInv
<1>2. n \in DOMAIN args
  BY <1>1
<1>3. \A k \in DOMAIN args : /\ k \in Nat /\ (k <= n <=> k <= parsed \/ k = n)
                             /\ k > parsed /\ k # n => k > n
  BY <1>1
<1>4. n > parsed /\ n \in Nat
  BY <1>1
<1> HIDE DEF n
<1>5. parsed' = n
  BY DEF n
<1>6. ASSUME NEW name, args[n][1] = name, NEW k \in DOMAIN args
      PROVE  Latest(k, name)' <=> k = n
  <2>1. n \in U!Given(name)
    BY <1>2, <1>6 DEF U!Given
  <2>2. Latest(k, name)' <=> k \in U!Given(name) /\ k <= n /\ \A j \in U!Given(name) : j <= n => j <= k
    BY <1>5 DEF Latest, U!Given
  <2>3. n <= n /\ \A j \in U!Given(name) : j <= n => j <= n
    BY <1>4
  <2>4. k <= n /\ n <= k => k = n
    BY <1>3, <1>4
  <2> QED
    BY <2>1, <2>2, <2>3, <2>4
<1>7. ASSUME NEW name, args[n][1] # name, NEW k \in DOMAIN args
      PROVE  Latest(k, name)' <=> Latest(k, name)
  <2>1. \A j \in U!Given(name) : j # n /\ j \in DOMAIN args
    BY <1>7 DEF U!Given
  <2>2. \A j \in U!Given(name) : j <= n <=> j <= parsed
    BY <1>3, <2>1
  <2>3. Latest(k, name)' <=> k \in U!Given(name) /\ k <= n /\ \A j \in U!Given(name) : j <= n => j <= k
    BY <1>5 DEF Latest, U!Given
  <2> QED
    BY <2>2, <2>3 DEF Latest
<1>8. ASSUME NEW name, args[n][1] # name, \A k \in U!Given(name) : k > parsed
      PROVE  \A k \in U!Given(name) : k > parsed'
  <2>1. \A k \in U!Given(name) : k # n /\ k \in DOMAIN args
    BY <1>8 DEF U!Given
  <2> QED
    BY <1>3, <1>5, <1>8, <2>1
<1> QED
  BY <1>2, <1>6, <1>7, <1>8 DEF n

\* Parsing an option makes it the last word of its name.
LEMMA ParseKeeps ==
  ASSUME StartInv, U!ParseOption
  PROVE  StartInv'
<1> DEFINE n == parsed + 1
           arg == args[n]
<1>1. /\ phase = "options" /\ parsed < Len(args) /\ parsed' = parsed + 1 /\ args' = args
      /\ engine' = engine
  BY DEF U!ParseOption
<1>2. /\ phase' = IF U!Usable(arg) THEN phase ELSE "terminated"
      /\ m_Port' = IF arg[1] = "port" THEN arg[2] % 65536 ELSE m_Port
      /\ m_Engine' = IF arg[1] = "engine" THEN U!string2engine(arg[2]) ELSE m_Engine
      /\ m_Async' = IF U!Usable(arg) /\ arg[1] = "async" THEN arg[2] = 1 ELSE m_Async
  BY DEF U!ParseOption, U!ToPort, U!PortMod
<1>3. /\ n \in DOMAIN args
      /\ \A name : arg[1] = name => \A k \in DOMAIN args : Latest(k, name)' <=> k = n
      /\ \A name : arg[1] # name =>
           /\ \A k \in DOMAIN args : Latest(k, name)' <=> Latest(k, name)
           /\ (\A k \in U!Given(name) : k > parsed) => \A k \in U!Given(name) : k > parsed'
  BY <1>1, LatestMoves
<1>4. args' \in Seq(U!Args) /\ parsed' \in 0 .. Len(args')
  <2>1. parsed \in Nat /\ Len(args) \in Nat /\ args \in Seq(U!Args)
    BY DEF StartInv
  <2> QED
    BY <1>1, <2>1
<1>5. arg[1] = "port" => arg[2] \in Nat
  BY <1>3, ArgValues
<1> HIDE DEF n, arg
<1>6. HaveLast'
  <2> SUFFICES ASSUME NEW name \in {"port", "engine", "async"}
               PROVE  (\A k \in U!Given(name) : k > parsed') \/ \E k \in DOMAIN args : Latest(k, name)'
    BY <1>1 DEF HaveLast, U!Given
  <2>1. CASE arg[1] = name
    BY <1>3, <2>1
  <2>2. CASE arg[1] # name
    BY <1>3, <2>2 DEF StartInv, HaveLast
  <2> QED
    BY <2>1, <2>2
<1>7. CASE ~ U!Usable(arg)
  <2>1. phase' = "terminated"
    BY <1>2, <1>7
  <2> QED
    BY <1>4, <1>6, <2>1 DEF StartInv
<1>8. CASE U!Usable(arg)
  <2>1. phase' = "options"
    BY <1>1, <1>2, <1>8
  <2>2. Assigned
    BY <1>1 DEF StartInv
  <2>3. ASSUME NEW k \in DOMAIN args, Latest(k, "port")'
        PROVE  m_Port' = args[k][2] % 65536 /\ m_Port' # Unset
    <3>1. CASE arg[1] = "port"
      <4>1. m_Port' = args[k][2] % 65536 /\ args[k][2] \in Nat
        BY <1>2, <1>3, <1>5, <2>3, <3>1 DEF arg
      <4>2. \A x \in Nat : x % 65536 \in Nat
        OBVIOUS
      <4>3. m_Port' \in Nat
        BY <4>1, <4>2
      <4> QED
        BY <4>1, <4>3, UnsetPortAssumption
    <3>2. CASE arg[1] # "port"
      BY <1>2, <1>3, <2>2, <2>3, <3>2 DEF Assigned
    <3> QED
      BY <3>1, <3>2
  <2>4. ASSUME NEW k \in DOMAIN args, Latest(k, "engine")'
        PROVE  \/ args[k][2] = "select" /\ m_Engine' = "SELECT"
               \/ args[k][2] = "poll" /\ m_Engine' = "POLL"
    <3>1. CASE arg[1] = "engine"
      <4>1. m_Engine' = U!string2engine(arg[2]) /\ U!string2engine(arg[2]) # "UNKNOWN"
        BY <1>2, <1>8, <3>1 DEF U!Usable
      <4>2. k = n
        BY <1>3, <2>4, <3>1
      <4> QED
        BY <4>1, <4>2 DEF arg, U!string2engine
    <3>2. CASE arg[1] # "engine"
      BY <1>2, <1>3, <2>2, <2>4, <3>2 DEF Assigned
    <3> QED
      BY <3>1, <3>2
  <2>5. ASSUME NEW k \in DOMAIN args, Latest(k, "async")'
        PROVE  AsyncIs(args[k][2])'
    <3>1. CASE arg[1] = "async"
      <4>1. m_Async' = (arg[2] = 1)
        BY <1>2, <1>8, <3>1
      <4>2. arg[2] \in {0, 1} /\ k = n
        BY <1>3, <1>8, <2>5, <3>1 DEF U!Usable
      <4>3. CASE arg[2] = 1
        BY <1>1, <4>1, <4>2, <4>3, Zenon DEF arg, AsyncIs
      <4>4. CASE arg[2] = 0
        <5>1. (arg[2] = 1) = FALSE
          BY <4>4
        <5> QED
          BY <1>1, <4>1, <4>2, <4>4, <5>1, Zenon DEF arg, AsyncIs
      <4> QED
        BY <4>2, <4>3, <4>4
    <3>2. CASE arg[1] # "async"
      <4>1. m_Async' = m_Async
        BY <1>2, <3>2
      <4>2. Latest(k, "async")
        BY <1>3, <2>5, <3>2
      <4>3. AsyncIs(args[k][2])
        BY <2>2, <4>2 DEF Assigned
      <4> QED
        BY <1>1, <4>1, <4>3, Zenon DEF AsyncIs
    <3> QED
      BY <3>1, <3>2
  <2>6. Assigned'
    BY <1>1, <2>3, <2>4, <2>5 DEF Assigned
  <2> QED
    BY <1>4, <1>6, <2>1, <2>6 DEF StartInv
<1> QED
  BY <1>7, <1>8

\* The engine is made of the members that were assigned.
LEMMA MakeKeeps ==
  ASSUME StartInv, U!MakeEngine
  PROVE  StartInv'
<1>1. phase = "options" /\ parsed = Len(args) /\ args' = args /\ parsed' = parsed
  BY DEF U!MakeEngine
<1>2. PICK type \in U!Holds(m_Engine, {"UNKNOWN", "SELECT", "POLL", "other"}),
           async \in U!Holds(m_Async, BOOLEAN),
           port \in U!Holds(m_Port, {U!ToPort(p) : p \in Ports}) :
        /\ m_Port' = port /\ engine' = U!Chosen(type, async)
        /\ phase' = IF type = "UNKNOWN" THEN "terminated" ELSE "engine"
  BY DEF U!MakeEngine
<1>3. Assigned
  BY <1>1 DEF StartInv
<1>4. phase' \in {"terminated", "engine"}
  BY <1>2
<1>5. \A k, name : Latest(k, name)' = Latest(k, name)
  BY <1>1 DEF Latest, U!Given
<1>6. HaveLast'
  BY <1>1, <1>5 DEF StartInv, HaveLast, U!Given
<1>7. ASSUME NEW k \in DOMAIN args, Latest(k, "port") PROVE m_Port' = args[k][2] % 65536
  <2>1. m_Port = args[k][2] % 65536 /\ m_Port # Unset
    BY <1>3, <1>7 DEF Assigned
  <2>2. port = m_Port
    BY <2>1 DEF U!Holds
  <2> QED
    BY <1>2, <2>1, <2>2
<1>8. ASSUME NEW j \in DOMAIN args, Latest(j, "async"), type = "POLL"
      PROVE  engine' = IF args[j][2] = 1 THEN "poll_async" ELSE "poll"
  <2>1. AsyncIs(args[j][2])
    BY <1>3, <1>8 DEF Assigned
  <2>2. engine' = IF async THEN "poll_async" ELSE "poll"
    BY <1>2, <1>8 DEF U!Chosen
  <2>3. CASE args[j][2] = 1 /\ m_Async = TRUE
    <3>1. async = TRUE
      BY <2>3, UnsetAssumption, Zenon DEF U!Holds
    <3> QED
      BY <2>2, <2>3, <3>1
  <2>4. CASE args[j][2] = 0 /\ m_Async = FALSE
    <3>1. async = FALSE
      BY <2>4, UnsetAssumption, Zenon DEF U!Holds
    <3> QED
      BY <2>2, <2>4, <3>1
  <2> QED
    BY <2>1, <2>3, <2>4 DEF AsyncIs
<1>9. ASSUME NEW k \in DOMAIN args, Latest(k, "engine")
      PROVE  \/ args[k][2] = "select" /\ engine' = "select"
             \/ args[k][2] = "poll" /\ type = "POLL"
  <2>1. \/ args[k][2] = "select" /\ m_Engine = "SELECT"
        \/ args[k][2] = "poll" /\ m_Engine = "POLL"
    BY <1>3, <1>9 DEF Assigned
  <2>2. type = m_Engine
    BY <2>1, UnsetAssumption DEF U!Holds
  <2> QED
    BY <1>2, <2>1, <2>2 DEF U!Chosen
<1>10. type = "POLL" => engine' \in {"poll", "poll_async"}
  BY <1>2 DEF U!Chosen
<1>11. Made'
  BY <1>1, <1>5, <1>7, <1>8, <1>9, <1>10 DEF Made
<1> QED
  BY <1>1, <1>4, <1>6, <1>11 DEF StartInv

\* A step of the start-up keeps the invariant.
LEMMA StartStep ==
  ASSUME StartInv, U!Next
  PROVE  StartInv'
<1>1. CASE U!CountArgs
  <2>1. /\ phase = "start" /\ phase' \in {"terminated", "options"}
        /\ args' = args /\ parsed' = parsed /\ m_Port' = m_Port /\ m_Engine' = m_Engine
        /\ m_Async' = m_Async /\ engine' = engine
    BY <1>1 DEF U!CountArgs
  <2> QED
    BY <2>1, StartFrame DEF StartInv
<1>2. CASE U!ParseOption
  BY <1>2, ParseKeeps
<1>3. CASE U!MakeEngine
  BY <1>3, MakeKeeps
<1>4. CASE U!ListenSocket
  <2>1. /\ phase = "engine" /\ phase' \in {"terminated", "engine"}
        /\ args' = args /\ parsed' = parsed /\ m_Port' = m_Port /\ m_Engine' = m_Engine
        /\ m_Async' = m_Async /\ engine' = engine
    BY <1>4 DEF U!ListenSocket
  <2> QED
    BY <2>1, StartFrame DEF StartInv
<1>5. CASE U!Run
  <2>1. /\ phase = "engine" /\ phase' \in {"crashed", "serve"}
        /\ phase' = "crashed" => engine = "none"
        /\ args' = args /\ parsed' = parsed /\ m_Port' = m_Port /\ m_Engine' = m_Engine
        /\ m_Async' = m_Async /\ engine' = engine
    BY <1>5 DEF U!Run
  <2> QED
    BY <2>1, StartFrame DEF StartInv
<1> QED
  BY <1>1, <1>2, <1>3, <1>4, <1>5 DEF U!Next

\* Once all arguments are looked at, the last word is the one of the command line.
LEMMA LastWord ==
  ASSUME StartInv, parsed = Len(args), NEW name \in {"port", "engine", "async"}, U!Given(name) # {}
  PROVE  \E k \in DOMAIN args : Latest(k, name) /\ U!LastOf(name) = args[k][2]
<1>1. \A k \in U!Given(name) : k \in DOMAIN args /\ k \in Nat /\ k <= parsed
  <2>1. DOMAIN args = 1 .. Len(args) /\ Len(args) \in Nat
    BY DEF StartInv
  <2> QED
    BY <2>1 DEF U!Given
<1>2. PICK k \in DOMAIN args : Latest(k, name)
  <2>1. PICK j \in U!Given(name) : TRUE
    OBVIOUS
  <2>2. ~ (j > parsed)
    BY <1>1 DEF StartInv
  <2> QED
    BY <2>2 DEF StartInv, HaveLast
<1>3. k \in U!Given(name) /\ \A j \in U!Given(name) : j <= k
  BY <1>1, <1>2 DEF Latest
<1> DEFINE m == CHOOSE i \in U!Given(name) : \A j \in U!Given(name) : j <= i
<1>4. m \in U!Given(name) /\ \A j \in U!Given(name) : j <= m
  BY <1>3
<1>5. U!LastOf(name) = args[m][2]
  BY DEF U!LastOf
<1> HIDE DEF m
<1>6. m = k
  BY <1>1, <1>3, <1>4
<1> QED
  BY <1>2, <1>5, <1>6

\* For command lines of any length and any numbers given as ports, a server that
\* runs is the one they ask for, on the port they ask for if that is below 65536.
THEOREM StartsAsAsked == AllSpec => []ServesAsAsked
<1>1. AllInit => StartInv
  <2> SUFFICES ASSUME AllInit PROVE StartInv
    OBVIOUS
  <2>1. PICK n \in 0 .. MaxArgs : args \in [1 .. n -> U!Args]
    BY DEF AllInit, U!Init
  <2>2. parsed = 0 /\ phase = "start"
    BY DEF AllInit, U!Init
  <2>3. n \in Nat
    OBVIOUS
  <2>4. args \in Seq(U!Args) /\ Len(args) \in Nat /\ DOMAIN args = 1 .. n
    BY <2>1, <2>3
  <2>5. \A name : \A k \in U!Given(name) : k > parsed
    BY <2>2, <2>3, <2>4 DEF U!Given
  <2>6. \A k, name : ~ Latest(k, name)
    <3>1. \A name : \A k \in U!Given(name) : ~ (k <= 0)
      BY <2>3, <2>4 DEF U!Given
    <3> QED
      BY <2>2, <3>1 DEF Latest
  <2>7. HaveLast /\ Assigned
    BY <2>5, <2>6 DEF HaveLast, Assigned
  <2>8. parsed \in 0 .. Len(args)
    BY <2>2, <2>4
  <2> QED
    BY <2>2, <2>4, <2>7, <2>8 DEF StartInv
<1>2. StartInv /\ [AllNext]_<<subject, startVars, clientVars>> => StartInv'
  <2> SUFFICES ASSUME StartInv, U!Next \/ UNCHANGED startVars PROVE StartInv'
    BY DEF AllNext
  <2>1. CASE UNCHANGED startVars
    <3>1. /\ phase' = phase
          /\ args' = args /\ parsed' = parsed /\ m_Port' = m_Port /\ m_Engine' = m_Engine
          /\ m_Async' = m_Async /\ engine' = engine
      BY <2>1 DEF startVars
    <3> QED
      BY <3>1, StartFrame DEF StartInv
  <2> QED
    BY <2>1, StartStep
<1>3. StartInv => ServesAsAsked
  <2> SUFFICES ASSUME StartInv, phase \in {"serve", "crashed"} PROVE ServesAsAsked
    BY DEF ServesAsAsked, U!ServesAsAsked
  <2>1. parsed = Len(args) /\ Made
    BY DEF StartInv
  <2>2. ASSUME U!Given("engine") # {}
        PROVE  /\ engine # "none"
               /\ IF U!LastOf("engine") = "select" THEN engine = "select"
                  ELSE U!Given("async") # {} =>
                         engine = IF U!LastOf("async") = 1 THEN "poll_async" ELSE "poll"
    <3>1. PICK k \in DOMAIN args : Latest(k, "engine") /\ U!LastOf("engine") = args[k][2]
      BY <2>1, <2>2, LastWord
    <3>2. \/ args[k][2] = "select" /\ engine = "select"
          \/ /\ args[k][2] = "poll" /\ engine \in {"poll", "poll_async"}
             /\ \A j \in DOMAIN args : Latest(j, "async") =>
                  engine = IF args[j][2] = 1 THEN "poll_async" ELSE "poll"
      BY <2>1, <3>1 DEF Made
    <3>3. U!Given("async") # {} =>
            \E j \in DOMAIN args : Latest(j, "async") /\ U!LastOf("async") = args[j][2]
      BY <2>1, LastWord
    <3> QED
      BY <3>1, <3>2, <3>3
  <2>3. ASSUME U!Given("port") # {}, U!LastOf("port") < 65536 PROVE m_Port = U!LastOf("port")
    <3>1. PICK k \in DOMAIN args : Latest(k, "port") /\ U!LastOf("port") = args[k][2]
      BY <2>1, <2>3, LastWord
    <3>2. m_Port = args[k][2] % 65536
      BY <2>1, <3>1 DEF Made
    <3>3. args[k][2] \in Nat
      BY <3>1, ArgValues DEF Latest, U!Given
    <3>4. \A n \in Nat : n < 65536 => n % 65536 = n
      OBVIOUS
    <3> QED
      BY <2>3, <3>1, <3>2, <3>3, <3>4
  <2>4. phase = "crashed" => engine = "none"
    BY DEF StartInv
  <2> QED
    BY <2>2, <2>3, <2>4 DEF ServesAsAsked, U!ServesAsAsked
<1> QED
  BY <1>1, <1>2, <1>3, PTL DEF AllSpec

(***************************************************************************)
(* The client programs.                                                    *)
(***************************************************************************)
\* Where a running program is says which socket it holds; one that is over has
\* released it, except on the two paths the property names.
SocketInv ==
  /\ outcome = "running" =>
       /\ pc \in {"connect", "select", "return", "options", "send", "write", "recv_loop", "read",
                  "callback", "recvTimed", "recv"}
       /\ pc = "connect" => fd = "none" /\ conn = "none"
       /\ pc = "select" => fd = "sd"
       /\ pc \notin {"connect", "select"} => fd = "m_Sd"
       /\ pc \in {"write", "read"} => program = "simplest"
       /\ pc = "send" => program = "http"
  /\ outcome # "running" /\ program # "simplest" =>
       /\ fd \in {"none", "closed", "leaked"}
       /\ fd = "leaked" => program = "connect_timeout" /\ conn = "none"

\* A program that ends while it holds m_Sd, or nothing, leaves no socket open.
LEMMA EndReleases ==
  ASSUME SocketInv, outcome = "running", pc # "select", NEW how, how # "running",
         P!Ends(how), program' = program
  PROVE  SocketInv'
<1>1. outcome' = how /\ fd' \in {"none", "closed"}
  BY DEF P!Ends, P!Released, SocketInv
<1> QED
  BY <1>1 DEF SocketInv

\* A step of a client program keeps that.
LEMMA SocketStep ==
  ASSUME SocketInv, P!Step
  PROVE  SocketInv'
<1>1. outcome = "running" /\ program' = program
  BY DEF P!Step, P!Runs
<1>2. ASSUME NEW how, how # "running", P!Ends(how), pc # "select" PROVE SocketInv'
  BY <1>1, <1>2, EndReleases
<1>3. CASE P!NoSocket
  BY <1>2, <1>3 DEF P!NoSocket
<1>4. CASE P!Connect
  BY <1>1, <1>4 DEF P!Connect, SocketInv
<1>5. CASE P!ConnectFails
  BY <1>1, <1>5 DEF P!ConnectFails, SocketInv
<1>6. CASE P!ConnectTimed
  BY <1>1, <1>6 DEF P!ConnectTimed, SocketInv
<1>7. CASE P!SelectWritable
  BY <1>1, <1>7 DEF P!SelectWritable, SocketInv
<1>8. CASE P!SelectTimeout
  BY <1>1, <1>8 DEF P!SelectTimeout, SocketInv
<1>9. CASE P!Return
  BY <1>2, <1>9 DEF P!Return
<1>10. CASE P!SetOptions
  <2>1. CASE P!Throws
    BY <1>2, <1>10, <2>1 DEF P!SetOptions, P!Throws
  <2>2. CASE /\ pc' = IF program = "http" THEN "send" ELSE "recvTimed"
             /\ UNCHANGED <<fd, outcome>>
    BY <1>1, <1>10, <2>2 DEF P!SetOptions, SocketInv
  <2> QED
    BY <1>10, <2>1, <2>2 DEF P!SetOptions
<1>11. CASE P!SendPiece
  BY <1>1, <1>11 DEF P!SendPiece, SocketInv
<1>12. CASE P!SendFails
  BY <1>2, <1>12 DEF P!SendFails, P!Throws
<1>13. CASE P!SendEnd
  BY <1>1, <1>13 DEF P!SendEnd, SocketInv
<1>14. CASE P!Write
  <2>1. pc = "write" /\ pc' = "read" /\ fd' = fd /\ conn' = conn /\ outcome' = outcome
    BY <1>14 DEF P!Write
  <2> QED
    BY <1>1, <2>1 DEF SocketInv
<1>15. CASE P!RecvLoop
  <2>1. pc = "recv_loop"
    BY <1>15 DEF P!RecvLoop
  <2>2. CASE pc' = pc /\ fd' = fd /\ outcome' = outcome
    BY <1>1, <2>1, <2>2 DEF SocketInv
  <2>3. CASE P!Ends("undefined")
    BY <1>2, <2>1, <2>3
  <2> QED
    BY <1>15, <2>2, <2>3 DEF P!RecvLoop
<1>16. CASE P!RecvLoopEnd
  BY <1>1, <1>16 DEF P!RecvLoopEnd, SocketInv
<1>17. CASE P!RecvFails
  BY <1>2, <1>17 DEF P!RecvFails, P!Throws
<1>18. CASE P!Callback
  BY <1>2, <1>18 DEF P!Callback
<1>19. CASE P!RecvTimed
  <2>1. CASE P!Throws
    BY <1>2, <1>19, <2>1 DEF P!RecvTimed, P!Throws
  <2>2. CASE pc' = "recv" /\ UNCHANGED <<fd, outcome>>
    BY <1>1, <1>19, <2>2 DEF P!RecvTimed, SocketInv
  <2> QED
    BY <1>19, <2>1, <2>2 DEF P!RecvTimed
<1>20. CASE P!Recv
  <2>1. pc # "select" /\ (P!Ends("returned") \/ P!Ends("undefined"))
    BY <1>20 DEF P!Recv
  <2> QED
    BY <1>2, <2>1
<1>21. CASE P!RecvMore
  BY <1>1, <1>21 DEF P!RecvMore, SocketInv
<1> QED
  BY <1>3, <1>4, <1>5, <1>6, <1>7, <1>8, <1>9, <1>10, <1>11, <1>12, <1>13, <1>14, <1>15, <1>16,
     <1>17, <1>18, <1>19, <1>20, <1>21 DEF P!Step, P!Runs, P!Proceeds, P!Sends

\* A step of the system keeps that.
LEMMA SocketNext ==
  ASSUME SocketInv, [AllNext]_<<subject, startVars, clientVars>>
  PROVE  SocketInv'
<1> SUFFICES ASSUME P!Next \/ UNCHANGED clientVars PROVE SocketInv'
  BY DEF AllNext
<1>1. CASE UNCHANGED clientVars
  BY <1>1 DEF clientVars, SocketInv
<1>2. CASE P!Server
  <2>1. /\ outcome = "running" /\ outcome' = outcome /\ program' = program /\ pc' = pc /\ fd' = fd
        /\ conn = "none" => conn' = conn
    BY <1>2 DEF P!Server, P!Settle, P!Arrive, P!ArriveMore, P!HangUp
  <2> QED
    BY <2>1 DEF SocketInv
<1> QED
  BY <1>1, <1>2, SocketStep DEF P!Next

\* On every path, whatever the server does, a program on the Socket class ends
\* with its socket closed, a failed fcntl() apart.
THEOREM SocketsAreClosed == AllSpec => []ClosedAtEnd
<1>1. AllInit => SocketInv
  BY DEF AllInit, P!Init, SocketInv
<1>2. SocketInv /\ [AllNext]_<<subject, startVars, clientVars>> => SocketInv'
  BY SocketNext
<1>3. SocketInv => ClosedAtEnd
  BY DEF SocketInv, ClosedAtEnd, P!ClosedAtEnd
<1> QED
  BY <1>1, <1>2, <1>3, PTL DEF AllSpec

\* As long as the kernel has taken no more than two pieces, the server has the
\* first m characters of the query and QuerySize - m are left; the second piece
\* is looked for at the length of the first, which is where it starts.
Progress(m) ==
  /\ m \in 0 .. QuerySize /\ left = QuerySize - m
  /\ stream \in Seq(Nat) /\ Len(stream) = m /\ \A i \in 1 .. m : stream[i] = i
  /\ pieces = 0 => m = 0
  /\ pieces \in {0, 1} => off = m

SendInv ==
  /\ pieces \in Nat
  /\ program = "http" /\ pieces \in {0, 1, 2} => \E m \in 0 .. QuerySize : Progress(m)

\* The pieces of a query.
LEMMA QueryPieces ==
  ASSUME NEW a \in Nat, NEW k \in Nat, a + k <= QuerySize
  PROVE  /\ SubSeq(P!Query, a + 1, a + k) \in Seq(Nat)
         /\ Len(SubSeq(P!Query, a + 1, a + k)) = k
         /\ \A i \in 1 .. k : SubSeq(P!Query, a + 1, a + k)[i] = a + i
<1> DEFINE q == P!Query
<1>1. QuerySize \in Nat
  BY QueryAssumption
<1>2. q \in [1 .. QuerySize -> Nat] /\ \A i \in 1 .. QuerySize : q[i] = i
  BY <1>1 DEF P!Query
<1>3. q \in Seq(Nat) /\ Len(q) = QuerySize
  BY <1>1, <1>2
<1> HIDE DEF q
<1>4. /\ SubSeq(q, a + 1, a + k) \in Seq(Nat) /\ Len(SubSeq(q, a + 1, a + k)) = k
      /\ \A i \in 1 .. k : SubSeq(q, a + 1, a + k)[i] = q[a + i]
  BY <1>1, <1>3
<1>5. \A i \in 1 .. k : a + i \in 1 .. QuerySize
  BY <1>1
<1>6. \A i \in 1 .. k : q[a + i] = a + i
  BY <1>2, <1>5
<1> QED
  BY <1>4, <1>6 DEF q

\* A piece more, of at most two.
LEMMA PieceSent ==
  ASSUME SendInv, program = "http", pieces \in {0, 1}, P!SendPiece
  PROVE  \E m \in 0 .. QuerySize : Progress(m)'
<1>1. PICK m \in 0 .. QuerySize : Progress(m)
  BY DEF SendInv
<1>2. /\ m \in Nat /\ QuerySize \in Nat /\ off = m /\ left = QuerySize - m
      /\ stream \in Seq(Nat) /\ Len(stream) = m /\ \A i \in 1 .. m : stream[i] = i
  BY <1>1, QueryAssumption DEF Progress
<1>3. PICK k \in 1 .. (QuerySize - off) :
        /\ stream' = stream \o SubSeq(P!Query, off + 1, off + k)
        /\ off' = k /\ left' = (left - k) % SizeMod
  BY DEF P!SendPiece
<1>4. pieces' = pieces + 1
  BY DEF P!SendPiece
<1>5. k \in Nat /\ k # 0 /\ m + k <= QuerySize /\ m + k \in 0 .. QuerySize
  BY <1>2, <1>3
<1> DEFINE s == SubSeq(P!Query, m + 1, m + k)
<1>6. s \in Seq(Nat) /\ Len(s) = k /\ \A i \in 1 .. k : s[i] = m + i
  BY <1>2, <1>5, QueryPieces
<1>7. stream' = stream \o s
  BY <1>2, <1>3
<1> HIDE DEF s
<1>8. /\ stream' \in Seq(Nat) /\ Len(stream') = m + k
      /\ \A i \in 1 .. (m + k) : stream'[i] = IF i <= m THEN stream[i] ELSE s[i - m]
  <2>1. /\ stream \o s \in Seq(Nat) /\ Len(stream \o s) = Len(stream) + Len(s)
        /\ \A i \in 1 .. (Len(stream) + Len(s)) :
             (stream \o s)[i] = IF i <= Len(stream) THEN stream[i] ELSE s[i - Len(stream)]
    <3>1. stream \in Seq(Nat) /\ s \in Seq(Nat)
      BY <1>2, <1>6
    <3> QED
      BY <3>1, ConcatProperties
  <2>2. Len(stream) = m /\ Len(s) = k
    BY <1>2, <1>6
  <2> QED
    BY <1>7, <2>1, <2>2
<1>9. \A i \in 1 .. (m + k) : stream'[i] = i
  <2> SUFFICES ASSUME NEW i \in 1 .. (m + k) PROVE stream'[i] = i
    OBVIOUS
  <2>1. CASE i <= m
    <3>1. i \in 1 .. m
      BY <1>2, <1>5, <2>1
    <3> QED
      BY <1>2, <1>8, <2>1, <3>1
  <2>2. CASE ~ (i <= m)
    <3>1. i - m \in 1 .. k /\ m + (i - m) = i
      BY <1>2, <1>5, <2>2
    <3> QED
      BY <1>6, <1>8, <2>2, <3>1
  <2> QED
    BY <2>1, <2>2
<1>10. left' = QuerySize - (m + k)
  <2> DEFINE n == QuerySize - (m + k)
  <2>1. n \in Nat /\ n < SizeMod /\ left - k = n /\ SizeMod \in Nat
    BY <1>2, <1>5, QueryAssumption
  <2> HIDE DEF n
  <2>2. n % SizeMod = n
    BY <2>1
  <2> QED
    BY <1>3, <2>1, <2>2 DEF n
<1>11. pieces' = 0 => FALSE
  BY <1>4 DEF SendInv
<1>12. pieces' = 1 => off' = m + k
  <2>1. pieces' = 1 => pieces = 0
    BY <1>4 DEF SendInv
  <2>2. pieces = 0 => m = 0
    BY <1>1 DEF Progress
  <2> QED
    BY <1>3, <1>5, <2>1, <2>2
<1> QED
  BY <1>5, <1>8, <1>9, <1>10, <1>11, <1>12 DEF Progress

\* For queries of any length that a size_t counts, however the kernel cuts them, a
\* query taken in one or two pieces reaches the server as it is.
THEOREM QueryIsSent == AllSpec => []SentIntact
<1>1. AllInit => SendInv
  <2> SUFFICES ASSUME AllInit PROVE SendInv
    OBVIOUS
  <2>1. left = QuerySize /\ off = 0 /\ pieces = 0 /\ stream = << >>
    BY DEF AllInit, P!Init
  <2>2. Progress(0)
    BY <2>1, QueryAssumption DEF Progress
  <2> QED
    BY <2>1, <2>2, QueryAssumption DEF SendInv
<1>2. SocketInv /\ SendInv /\ [AllNext]_<<subject, startVars, clientVars>> => SendInv'
  <2> SUFFICES ASSUME SocketInv, SendInv, P!Next \/ UNCHANGED clientVars PROVE SendInv'
    BY DEF AllNext
  <2>1. CASE UNCHANGED <<program, left, off, pieces, stream>>
    BY <2>1 DEF SendInv, Progress
  <2>2. CASE P!SendPiece /\ P!Step
    <3>1. program' = program /\ pieces' = pieces + 1 /\ pieces \in Nat /\ program = "http"
      BY <2>2 DEF P!Step, P!Runs, P!SendPiece, SendInv, SocketInv
    <3>2. pieces' \in {0, 1, 2} => pieces \in {0, 1}
      BY <3>1
    <3> QED
      BY <2>2, <3>1, <3>2, PieceSent DEF SendInv
  <2>3. CASE P!Write /\ P!Step
    <3>1. program = "simplest"
      BY <2>3 DEF P!Write, P!Step, P!Runs, SocketInv
    <3>2. program' = program /\ pieces' = 1
      BY <2>3 DEF P!Write, P!Step, P!Runs
    <3> QED
      BY <3>1, <3>2 DEF SendInv
  <2>4. CASE P!Step /\ ~ P!SendPiece /\ ~ P!Write
    <3>1. program' = program /\ UNCHANGED P!out
      BY <2>4 DEF P!Step, P!Runs, P!Proceeds, P!Sends, P!RecvMore, P!NoSocket, P!Connect, P!ConnectFails, P!ConnectTimed, P!SelectWritable,
        P!SelectTimeout, P!Return, P!SetOptions, P!SendFails, P!SendEnd, P!RecvLoop, P!RecvLoopEnd,
        P!RecvFails, P!Callback, P!RecvTimed, P!Recv, P!Receive
    <3> QED
      BY <2>1, <3>1 DEF P!out
  <2>5. CASE P!Server
    BY <2>1, <2>5 DEF P!Server, P!out
  <2>6. CASE UNCHANGED clientVars
    BY <2>1, <2>6 DEF clientVars
  <2> QED
    BY <2>2, <2>3, <2>4, <2>5, <2>6 DEF P!Next
<1>3. SendInv => SentIntact
  <2> SUFFICES ASSUME SendInv, pieces \in {1, 2}, program = "http"
               PROVE  IF left > 0 THEN P!IsPrefix(stream, P!Query) ELSE stream = P!Query
    BY DEF SentIntact, P!SentIntact
  <2>1. PICK m \in 0 .. QuerySize : Progress(m)
    BY DEF SendInv
  <2>2. /\ m \in Nat /\ QuerySize \in Nat /\ m <= QuerySize /\ left = QuerySize - m
        /\ stream \in Seq(Nat) /\ Len(stream) = m /\ \A i \in 1 .. m : stream[i] = i
    BY <2>1, QueryAssumption DEF Progress
  <2>3. /\ SubSeq(P!Query, 1, m) \in Seq(Nat) /\ Len(SubSeq(P!Query, 1, m)) = m
        /\ \A i \in 1 .. m : SubSeq(P!Query, 1, m)[i] = i
    <3>1. PICK a \in Nat : a = 0
      OBVIOUS
    <3>2. a + m <= QuerySize
      BY <2>2, <3>1
    <3>3. /\ SubSeq(P!Query, a + 1, a + m) \in Seq(Nat) /\ Len(SubSeq(P!Query, a + 1, a + m)) = m
          /\ \A i \in 1 .. m : SubSeq(P!Query, a + 1, a + m)[i] = a + i
      BY <2>2, <3>2, QueryPieces
    <3>4. a + 1 = 1 /\ a + m = m /\ \A i \in 1 .. m : a + i = i
      BY <2>2, <3>1
    <3> QED
      BY <3>3, <3>4
  <2>4. stream = SubSeq(P!Query, 1, m)
    BY <2>2, <2>3, SeqEqual
  <2>5. /\ P!Query \in Seq(Nat) /\ Len(P!Query) = QuerySize
        /\ \A i \in 1 .. QuerySize : P!Query[i] = i
    BY <2>2 DEF P!Query
  <2>6. SubSeq(stream, 1, m) = stream
    <3>1. /\ SubSeq(stream, 1, m) \in Seq(Nat) /\ Len(SubSeq(stream, 1, m)) = m
          /\ \A i \in 1 .. m : SubSeq(stream, 1, m)[i] = stream[i]
      BY <2>2
    <3> QED
      BY <2>2, <3>1, SeqEqual
  <2>7. CASE left > 0
    BY <2>2, <2>4, <2>5, <2>6, <2>7 DEF P!IsPrefix
  <2>8. CASE ~ (left > 0)
    <3>1. m = QuerySize
      BY <2>2, <2>8
    <3> QED
      BY <2>2, <2>5, <2>8, <3>1, SeqEqual
  <2> QED
    BY <2>7, <2>8
<1>4. AllInit => SocketInv
  BY DEF AllInit, P!Init, SocketInv
<1>5. SocketInv /\ [AllNext]_<<subject, startVars, clientVars>> => SocketInv'
  BY SocketNext
<1> QED
  BY <1>1, <1>2, <1>3, <1>4, <1>5, PTL DEF AllSpec

(***************************************************************************)
(* What recv_loop() keeps of an answer.                                    *)
(***************************************************************************)
Chars == {"x", "\r", "\n"}

\* Of the first t characters of ans, cut by recv() behind the positions in C, those
\* survive the trimming that have text behind them, or are text, in their own piece.
Kept(ans, t, C) ==
  {i \in 1 .. t : \E q \in i .. t : ~ P!IsEol(ans[q]) /\ \A j \in i .. (q - 1) : j \notin C}

\* f says where in the answer the characters of r come from: it lists what is kept.
Maps(f, r, ans, t, C) ==
  /\ f \in [1 .. Len(r) -> 1 .. t]
  /\ \A i, j \in 1 .. Len(r) : i < j => f[i] < f[j]
  /\ \A i \in 1 .. Len(r) : r[i] = ans[f[i]] /\ f[i] \in Kept(ans, t, C)
  /\ \A x \in Kept(ans, t, C) : \E i \in 1 .. Len(r) : f[i] = x

\* A piece of k characters more: what was kept stays, and of the piece all is kept
\* up to its last text.
LEMMA KeptNext ==
  ASSUME NEW ans, NEW t \in Nat, NEW k \in Nat \ {0}, NEW C \in SUBSET (1 .. t), t # 0 => t \in C
  PROVE  /\ \A x \in 1 .. t : x \in Kept(ans, t + k, C \cup {t + k}) <=> x \in Kept(ans, t, C)
         /\ \A x \in (t + 1) .. (t + k) :
              x \in Kept(ans, t + k, C \cup {t + k}) <=> \E q \in x .. (t + k) : ~ P!IsEol(ans[q])
<1>1. ASSUME NEW x \in 1 .. t, x \in Kept(ans, t, C) PROVE x \in Kept(ans, t + k, C \cup {t + k})
  <2>1. PICK q \in x .. t : ~ P!IsEol(ans[q]) /\ \A j \in x .. (q - 1) : j \notin C
    BY <1>1 DEF Kept
  <2>2. q \in x .. (t + k) /\ x \in 1 .. (t + k) /\ \A j \in x .. (q - 1) : j # t + k
    BY <1>1, <2>1
  <2> QED
    BY <2>1, <2>2 DEF Kept
<1>2. ASSUME NEW x \in 1 .. t, x \in Kept(ans, t + k, C \cup {t + k}) PROVE x \in Kept(ans, t, C)
  <2>1. PICK q \in x .. (t + k) :
          ~ P!IsEol(ans[q]) /\ \A j \in x .. (q - 1) : j \notin C \cup {t + k}
    BY <1>2 DEF Kept
  <2>2. q <= t
    <3> SUFFICES ASSUME ~ (q <= t) PROVE FALSE
      OBVIOUS
    <3>1. t # 0 /\ t \in x .. (q - 1)
      BY <1>2, <2>1
    <3> QED
      BY <2>1, <3>1
  <2>3. q \in x .. t
    BY <1>2, <2>1, <2>2
  <2> QED
    BY <1>2, <2>1, <2>3 DEF Kept
<1>3. ASSUME NEW x \in (t + 1) .. (t + k)
      PROVE  x \in Kept(ans, t + k, C \cup {t + k}) <=> \E q \in x .. (t + k) : ~ P!IsEol(ans[q])
  <2>1. x \in 1 .. (t + k)
    BY <1>3
  <2>2. ASSUME NEW q \in x .. (t + k), NEW j \in x .. (q - 1) PROVE j \notin C \cup {t + k}
    BY <1>3, <2>2
  <2> QED
    BY <2>1, <2>2 DEF Kept
<1> QED
  BY <1>1, <1>2, <1>3

\* What Trim() leaves of a string: all up to its last text.
LEMMA TrimLeaves ==
  ASSUME NEW s \in Seq(Chars)
  PROVE  \E M \in 0 .. Len(s) :
           /\ P!Trim(s) \in Seq(Chars) /\ Len(P!Trim(s)) = M
           /\ \A i \in 1 .. M : P!Trim(s)[i] = s[i]
           /\ M # 0 => ~ P!IsEol(s[M])
           /\ \A i \in 1 .. Len(s) : ~ P!IsEol(s[i]) => i <= M
<1> DEFINE K == {i \in DOMAIN s : ~ P!IsEol(s[i])}
           M == IF K = {} THEN 0 ELSE P!Max(K)
           n == Len(s)
<1>1. n \in Nat /\ DOMAIN s = 1 .. n
  OBVIOUS
<1>2. K \in SUBSET (0 .. n)
  BY <1>1
<1>3. P!Trim(s) = SubSeq(s, 1, M)
  BY DEF P!Trim
<1>4. K # {} => P!Max(K) \in K /\ \A y \in K : P!Max(K) >= y
  <2> HIDE DEF K, n
  <2> SUFFICES ASSUME K # {} PROVE P!Max(K) \in K /\ \A y \in K : P!Max(K) >= y
    OBVIOUS
  <2>1. \E x \in K : \A y \in K : x >= y
    BY <1>1, <1>2, GreatestOne
  <2> QED
    BY <2>1 DEF P!Max
<1>5. \A i \in 1 .. n : ~ P!IsEol(s[i]) <=> i \in K
  BY <1>1
<1>6. /\ M \in 0 .. n /\ (M # 0 => M \in K) /\ \A y \in K : y <= M
  <2> HIDE DEF K, n
  <2>1. CASE K = {}
    BY <1>1, <2>1
  <2>2. CASE K # {}
    <3>1. M \in K /\ \A y \in K : M >= y
      BY <1>4, <2>2
    <3> HIDE DEF M
    <3> QED
      BY <1>1, <1>2, <3>1
  <2> QED
    BY <2>1, <2>2
<1> HIDE DEF K, M, n
<1>7. /\ SubSeq(s, 1, M) \in Seq(Chars) /\ Len(SubSeq(s, 1, M)) = M
      /\ \A i \in 1 .. M : SubSeq(s, 1, M)[i] = s[i]
  BY <1>1, <1>6 DEF n
<1>8. M # 0 => ~ P!IsEol(s[M])
  <2>1. M # 0 => M \in 1 .. n
    BY <1>1, <1>6
  <2> QED
    BY <1>5, <1>6, <2>1
<1> QED
  BY <1>3, <1>5, <1>6, <1>7, <1>8 DEF n

\* A piece more: the trimmed string lists what is kept of the longer answer.
LEMMA PieceMaps ==
  ASSUME NEW ans \in Seq(Chars), NEW t \in Nat, NEW k \in Nat \ {0}, t + k <= Len(ans),
         NEW C \in SUBSET (1 .. t), t # 0 => t \in C,
         NEW r \in Seq(Chars), r # << >> => ~ P!IsEol(r[Len(r)]),
         NEW f, Maps(f, r, ans, t, C),
         NEW u, u = P!Trim(r \o SubSeq(ans, t + 1, t + k))
  PROVE  /\ u \in Seq(Chars) /\ (u # << >> => ~ P!IsEol(u[Len(u)]))
         /\ \E g : Maps(g, u, ans, t + k, C \cup {t + k})
<1> DEFINE n == Len(r)
           p == SubSeq(ans, t + 1, t + k)
           s == r \o p
           g == [i \in 1 .. (n + k) |-> IF i <= n THEN f[i] ELSE t + (i - n)]
           D == Kept(ans, t + k, C \cup {t + k})
<1>1. n \in Nat /\ DOMAIN r = 1 .. n
  OBVIOUS
<1>2. p \in Seq(Chars) /\ Len(p) = k /\ \A i \in 1 .. k : p[i] = ans[t + i]
  OBVIOUS
<1> HIDE DEF p
<1>3. /\ s \in Seq(Chars) /\ Len(s) = n + k
      /\ \A i \in 1 .. (n + k) : s[i] = IF i <= n THEN r[i] ELSE p[i - n]
  BY <1>2, ConcatProperties
<1>4. u = P!Trim(s)
  BY DEF p
<1> HIDE DEF s, n
<1>5. PICK M \in 0 .. (n + k) :
        /\ u \in Seq(Chars) /\ Len(u) = M
        /\ \A i \in 1 .. M : u[i] = s[i]
        /\ M # 0 => ~ P!IsEol(s[M])
        /\ \A i \in 1 .. (n + k) : ~ P!IsEol(s[i]) => i <= M
  <2>1. s \in Seq(Chars) /\ Len(s) = n + k
    BY <1>3
  <2>2. PICK M \in 0 .. Len(s) :
          /\ P!Trim(s) \in Seq(Chars) /\ Len(P!Trim(s)) = M
          /\ \A i \in 1 .. M : P!Trim(s)[i] = s[i]
          /\ M # 0 => ~ P!IsEol(s[M])
          /\ \A i \in 1 .. Len(s) : ~ P!IsEol(s[i]) => i <= M
    BY <2>1, TrimLeaves
  <2> QED
    BY <1>4, <2>1, <2>2
<1>6. /\ f \in [1 .. n -> 1 .. t]
      /\ \A i, j \in 1 .. n : i < j => f[i] < f[j]
      /\ \A i \in 1 .. n : r[i] = ans[f[i]] /\ f[i] \in Kept(ans, t, C)
      /\ \A x \in Kept(ans, t, C) : \E i \in 1 .. n : f[i] = x
  BY DEF Maps, n
<1>7. /\ \A i \in 1 .. n : g[i] = f[i] /\ g[i] \in 1 .. t
      /\ \A i \in (n + 1) .. (n + k) : g[i] = t + (i - n) /\ g[i] \in (t + 1) .. (t + k)
  BY <1>1, <1>6
<1> HIDE DEF g
<1>8. \A i \in 1 .. (n + k) : g[i] \in 1 .. (t + k) /\ (i \in 1 .. n \/ i \in (n + 1) .. (n + k))
  BY <1>1, <1>7
<1>9. \A i \in 1 .. (n + k) : s[i] = ans[g[i]]
  <2> SUFFICES ASSUME NEW i \in 1 .. (n + k) PROVE s[i] = ans[g[i]]
    OBVIOUS
  <2>1. CASE i \in 1 .. n
    BY <1>1, <1>3, <1>6, <1>7, <2>1
  <2>2. CASE i \in (n + 1) .. (n + k)
    <3>1. i - n \in 1 .. k /\ ~ (i <= n)
      BY <1>1, <2>2
    <3> QED
      BY <1>2, <1>3, <1>7, <2>2, <3>1
  <2> QED
    BY <1>8, <2>1, <2>2
<1>10. \A i, j \in 1 .. (n + k) : i < j => g[i] < g[j]
  <2> SUFFICES ASSUME NEW i \in 1 .. (n + k), NEW j \in 1 .. (n + k), i < j PROVE g[i] < g[j]
    OBVIOUS
  <2>1. CASE j \in 1 .. n
    <3>1. i \in 1 .. n
      BY <1>1, <2>1
    <3> QED
      BY <1>6, <1>7, <2>1, <3>1
  <2>2. CASE j \in (n + 1) .. (n + k) /\ i \in 1 .. n
    <3>1. g[i] \in 1 .. t /\ g[j] \in (t + 1) .. (t + k)
      BY <1>7, <2>2
    <3> QED
      BY <3>1
  <2>3. CASE j \in (n + 1) .. (n + k) /\ i \in (n + 1) .. (n + k)
    <3>1. g[i] = t + (i - n) /\ g[j] = t + (j - n)
      BY <1>7, <2>3
    <3> QED
      BY <1>1, <3>1
  <2> QED
    BY <1>8, <2>1, <2>2, <2>3
<1>11. n <= M
  <2>1. n # 0 => n \in 1 .. (n + k) /\ n <= n /\ ~ P!IsEol(r[n])
    <3>1. n # 0 => r # << >>
      BY DEF n
    <3> QED
      BY <1>1, <3>1 DEF n
  <2>2. n # 0 => ~ P!IsEol(s[n])
    BY <1>3, <2>1
  <2> QED
    BY <1>1, <1>5, <2>1, <2>2
<1>12. /\ \A x \in 1 .. t : x \in D <=> x \in Kept(ans, t, C)
       /\ \A x \in (t + 1) .. (t + k) : x \in D <=> \E q \in x .. (t + k) : ~ P!IsEol(ans[q])
       /\ \A x \in D : x \in 1 .. t \/ x \in (t + 1) .. (t + k)
  <2>1. \A x \in D : x \in 1 .. (t + k)
    BY DEF Kept
  <2>2. \A x \in 1 .. (t + k) : x \in 1 .. t \/ x \in (t + 1) .. (t + k)
    OBVIOUS
  <2> HIDE DEF D
  <2>3. /\ \A x \in 1 .. t : x \in D <=> x \in Kept(ans, t, C)
        /\ \A x \in (t + 1) .. (t + k) : x \in D <=> \E q \in x .. (t + k) : ~ P!IsEol(ans[q])
    BY KeptNext DEF D
  <2> QED
    BY <2>1, <2>2, <2>3
<1> HIDE DEF D
<1>13. \A i \in 1 .. M : g[i] \in D
  <2> SUFFICES ASSUME NEW i \in 1 .. M PROVE g[i] \in D
    OBVIOUS
  <2>1. CASE i \in 1 .. n
    BY <1>6, <1>7, <1>12, <2>1
  <2>2. CASE i \in (n + 1) .. (n + k)
    <3>1. M \in (n + 1) .. (n + k) /\ M # 0 /\ M \in 1 .. (n + k)
      BY <1>1, <1>5, <2>2
    <3>2. g[M] = t + (M - n) /\ g[i] = t + (i - n) /\ ~ P!IsEol(ans[g[M]])
      BY <1>5, <1>7, <1>9, <2>2, <3>1
    <3>3. g[M] \in g[i] .. (t + k)
      BY <1>1, <2>2, <3>1, <3>2
    <3> QED
      BY <1>7, <1>12, <2>2, <3>2, <3>3
  <2>3. i \in 1 .. (n + k)
    BY <1>1, <1>5
  <2> QED
    BY <1>8, <2>1, <2>2, <2>3
<1>14. ASSUME NEW x \in D PROVE \E i \in 1 .. M : g[i] = x
  <2>1. CASE x \in 1 .. t
    <3>1. PICK i \in 1 .. n : f[i] = x
      BY <1>6, <1>12, <2>1
    <3>2. i \in 1 .. M
      BY <1>1, <1>5, <1>11
    <3> QED
      BY <1>7, <3>1, <3>2
  <2>2. CASE x \in (t + 1) .. (t + k)
    <3>1. PICK q \in x .. (t + k) : ~ P!IsEol(ans[q])
      BY <1>12, <2>2
    <3> DEFINE i == n + (x - t)
               j == n + (q - t)
    <3>2. /\ i \in (n + 1) .. (n + k) /\ j \in (n + 1) .. (n + k) /\ i <= j
          /\ t + (i - n) = x /\ t + (j - n) = q /\ i >= 1 /\ i \in Int /\ j \in Int
      BY <1>1, <2>2, <3>1
    <3> HIDE DEF i, j
    <3>3. g[i] = x /\ g[j] = q
      BY <1>7, <3>2
    <3>4. j \in 1 .. (n + k)
      BY <1>1, <3>2
    <3>5. j <= M
      BY <1>5, <1>9, <3>1, <3>3, <3>4
    <3>6. i \in 1 .. M
      BY <1>5, <3>2, <3>5
    <3> QED
      BY <3>3, <3>6
  <2> QED
    BY <1>12, <2>1, <2>2
<1> DEFINE h == [i \in 1 .. M |-> g[i]]
<1>15. M \in Nat /\ 1 .. M \subseteq 1 .. (n + k)
  BY <1>1, <1>5
<1>16. h \in [1 .. M -> 1 .. (t + k)] /\ \A i \in 1 .. M : h[i] = g[i]
  BY <1>8, <1>15
<1> HIDE DEF h
<1>17. Maps(h, u, ans, t + k, C \cup {t + k})
  <2>1. \A i, j \in 1 .. M : i < j => h[i] < h[j]
    BY <1>10, <1>15, <1>16
  <2>2. \A i \in 1 .. M : u[i] = ans[h[i]] /\ h[i] \in D
    BY <1>5, <1>9, <1>13, <1>15, <1>16
  <2>3. \A x \in D : \E i \in 1 .. M : h[i] = x
    BY <1>14, <1>16
  <2> QED
    BY <1>5, <1>16, <2>1, <2>2, <2>3 DEF Maps, D
<1>18. u # << >> => ~ P!IsEol(u[Len(u)])
  <2>1. u # << >> => M # 0
    BY <1>5, EmptySeq
  <2>2. M # 0 => M \in 1 .. M
    BY <1>15
  <2> QED
    BY <1>5, <2>1, <2>2
<1> QED
  BY <1>5, <1>17, <1>18

\* Characters that are next to each other in the answer and kept are so in r.
LEMMA NextKept ==
  ASSUME NEW f, NEW r, NEW ans, NEW t \in Nat, NEW C, Len(r) \in Nat, Maps(f, r, ans, t, C),
         NEW i \in 1 .. Len(r), f[i] + 1 \in Kept(ans, t, C)
  PROVE  i + 1 \in 1 .. Len(r) /\ f[i + 1] = f[i] + 1
<1> DEFINE n == Len(r)
<1>1. /\ \A m \in 1 .. n : f[m] \in Int
      /\ \A l, m \in 1 .. n : l < m => f[l] < f[m]
      /\ \E m \in 1 .. n : f[m] = f[i] + 1
  <2>1. /\ f \in [1 .. n -> 1 .. t]
        /\ \A l, m \in 1 .. n : l < m => f[l] < f[m]
        /\ \A x \in Kept(ans, t, C) : \E m \in 1 .. n : f[m] = x
    BY DEF Maps
  <2>2. \A m \in 1 .. n : f[m] \in 1 .. t
    BY <2>1
  <2> QED
    BY <2>1, <2>2
<1>2. PICK m \in 1 .. n : f[m] = f[i] + 1
  BY <1>1
<1> HIDE DEF n
<1>3. i \in 1 .. n /\ n \in Nat
  BY DEF n
<1>4. i < m
  <2>1. ~ (m < i) /\ m # i
    BY <1>1, <1>2, <1>3
  <2> QED
    BY <1>2, <1>3, <2>1
<1>5. i + 1 \in 1 .. n /\ i < i + 1
  BY <1>2, <1>3, <1>4
<1>6. ~ (i + 1 < m)
  <2> SUFFICES ASSUME i + 1 < m PROVE FALSE
    OBVIOUS
  <2>1. f[i] < f[i + 1] /\ f[i + 1] < f[m] /\ f[i] \in Int /\ f[i + 1] \in Int
    BY <1>1, <1>2, <1>3, <1>5
  <2> QED
    BY <1>2, <2>1
<1>7. m = i + 1
  BY <1>2, <1>3, <1>4, <1>6
<1> QED
  BY <1>2, <1>5, <1>7 DEF n

\* The header end, character by character.
LEMMA HeaderAt ==
  ASSUME NEW s \in Seq(Chars), NEW i \in Nat \ {0}, i + 3 <= Len(s)
  PROVE  SubSeq(s, i, i + 3) = P!HeaderEnd <=>
           s[i] = "\r" /\ s[i + 1] = "\n" /\ s[i + 2] = "\r" /\ s[i + 3] = "\n"
<1> DEFINE v == SubSeq(s, i, i + 3)
           w == P!HeaderEnd
<1>1. /\ v \in Seq(Chars) /\ Len(v) = 4
      /\ v[1] = s[i] /\ v[2] = s[i + 1] /\ v[3] = s[i + 2] /\ v[4] = s[i + 3]
  OBVIOUS
<1>2. /\ w \in Seq(Chars) /\ Len(w) = 4
      /\ w[1] = "\r" /\ w[2] = "\n" /\ w[3] = "\r" /\ w[4] = "\n"
  BY DEF P!HeaderEnd, Chars
<1> HIDE DEF v, w
<1>3. v = w <=> v[1] = w[1] /\ v[2] = w[2] /\ v[3] = w[3] /\ v[4] = w[4]
  <2>1. ASSUME v[1] = w[1], v[2] = w[2], v[3] = w[3], v[4] = w[4] PROVE v = w
    <3>1. \A m \in 1 .. Len(v) : v[m] = w[m]
      BY <1>1, <2>1
    <3> QED
      BY <1>1, <1>2, <3>1, SeqEqual
  <2> QED
    BY <2>1
<1> QED
  BY <1>1, <1>2, <1>3 DEF v, w

\* A run of line ends in one piece with text behind it is kept whole.
LEMMA RunKept ==
  ASSUME NEW ans, NEW t \in Nat, NEW C, NEW x \in 1 .. t, NEW q \in x .. t, ~ P!IsEol(ans[q]),
         \A j \in x .. (q - 1) : j \notin C
  PROVE  \A y \in x .. q : y \in Kept(ans, t, C)
<1> SUFFICES ASSUME NEW y \in x .. q PROVE y \in Kept(ans, t, C)
  OBVIOUS
<1>1. y \in 1 .. t /\ q \in y .. t /\ \A j \in y .. (q - 1) : j \in x .. (q - 1)
  OBVIOUS
<1> QED
  BY <1>1 DEF Kept

\* What http_client looks for is in r exactly when it stands in one piece of the
\* answer with text behind it.
LEMMA HeadersAgree ==
  ASSUME NEW ans \in Seq(Chars), NEW t \in Nat, t <= Len(ans), NEW C, NEW r \in Seq(Chars),
         NEW f, Maps(f, r, ans, t, C)
  PROVE  P!HasHeaders(r) <=>
           \E p \in 1 .. (t - 4), q \in 1 .. t :
             /\ SubSeq(ans, p, p + 3) = P!HeaderEnd
             /\ q > p + 3 /\ ~ P!IsEol(ans[q])
             /\ \A j \in p .. (q - 1) : P!IsEol(ans[j]) /\ j \notin C
<1> DEFINE n == Len(r)
           E == P!HeaderEnd
<1>0. n \in Nat /\ Len(ans) \in Nat
  OBVIOUS
<1>1. P!IsEol("\r") /\ P!IsEol("\n")
  BY DEF P!IsEol
<1>2. /\ f \in [1 .. n -> 1 .. t]
      /\ \A i \in 1 .. n : r[i] = ans[f[i]] /\ f[i] \in Kept(ans, t, C)
      /\ \A x \in Kept(ans, t, C) : \E i \in 1 .. n : f[i] = x
  BY DEF Maps
<1>3. ASSUME NEW i \in 1 .. n, f[i] + 1 \in Kept(ans, t, C)
      PROVE  i + 1 \in 1 .. n /\ f[i + 1] = f[i] + 1
  BY <1>0, <1>3, NextKept
<1>4. P!HasHeaders(r) <=> \E i \in 1 .. (n - 3) : SubSeq(r, i, i + 3) = E
  BY DEF P!HasHeaders
<1> HIDE DEF n, E
<1>5. ASSUME NEW i \in 1 .. (n - 3), SubSeq(r, i, i + 3) = E
      PROVE  \E p \in 1 .. (t - 4), q \in 1 .. t :
               /\ SubSeq(ans, p, p + 3) = E
               /\ q > p + 3 /\ ~ P!IsEol(ans[q])
               /\ \A j \in p .. (q - 1) : P!IsEol(ans[j]) /\ j \notin C
  <2> DEFINE p == f[i]
             S == {q \in p .. t : ~ P!IsEol(ans[q])}
  <2>1. i \in 1 .. n /\ i + 1 \in 1 .. n /\ i + 2 \in 1 .. n /\ i + 3 \in 1 .. n
    BY <1>0
  <2>2. r[i] = "\r" /\ r[i + 1] = "\n" /\ r[i + 2] = "\r" /\ r[i + 3] = "\n"
    <3>1. i \in Nat \ {0} /\ i + 3 <= Len(r)
      BY <1>0, <2>1 DEF n
    <3> QED
      BY <1>5, <3>1, HeaderAt DEF E
  <2>3. p \in 1 .. t /\ p \in Kept(ans, t, C) /\ ans[p] = r[i]
    BY <1>2, <2>1
  <2> HIDE DEF p
  <2>4. PICK z \in p .. t : ~ P!IsEol(ans[z]) /\ \A j \in p .. (z - 1) : j \notin C
    BY <2>3 DEF Kept
  <2>5. S \in SUBSET Nat /\ z \in S
    BY <2>3, <2>4
  <2>6. PICK q \in S : \A y \in S : q <= y
    <3> HIDE DEF S
    <3> QED
      BY <2>5, LeastOne
  <2>7. q \in p .. t /\ ~ P!IsEol(ans[q]) /\ q <= z
    BY <2>5, <2>6
  <2>8. \A j \in p .. (q - 1) : P!IsEol(ans[j]) /\ j \notin C
    <3> SUFFICES ASSUME NEW j \in p .. (q - 1) PROVE P!IsEol(ans[j]) /\ j \notin C
      OBVIOUS
    <3>1. j \in p .. (z - 1) /\ j \in p .. t /\ ~ (q <= j)
      BY <2>3, <2>4, <2>7
    <3>2. j \notin S
      BY <2>6, <3>1
    <3> QED
      BY <2>4, <3>1, <3>2
  <2>9. \A y \in p .. q : y \in Kept(ans, t, C)
    BY <2>3, <2>7, <2>8, RunKept
  <2> HIDE DEF S
  <2>10. p \in Nat /\ q \in Nat /\ p <= q /\ q <= t
    BY <2>3, <2>7
  <2>11. p # q /\ f[i + 1] = p + 1 /\ ans[p + 1] = "\n"
    <3>1. p # q
      BY <1>1, <2>2, <2>3, <2>7
    <3>2. p + 1 \in p .. q
      BY <2>10, <3>1
    <3>3. f[i + 1] = p + 1
      BY <1>3, <2>1, <2>9, <3>2 DEF p
    <3> QED
      BY <1>2, <2>1, <2>2, <3>1, <3>3
  <2>12. p + 1 # q /\ f[i + 2] = p + 2 /\ ans[p + 2] = "\r"
    <3>1. p + 1 # q
      BY <1>1, <2>7, <2>11
    <3>2. p + 2 \in p .. q /\ (p + 1) + 1 = p + 2 /\ (i + 1) + 1 = i + 2
      BY <2>1, <2>10, <2>11, <3>1
    <3>3. f[i + 2] = p + 2
      BY <1>3, <2>1, <2>9, <2>11, <3>2
    <3> QED
      BY <1>2, <2>1, <2>2, <3>1, <3>3
  <2>13. p + 2 # q /\ f[i + 3] = p + 3 /\ ans[p + 3] = "\n"
    <3>1. p + 2 # q
      BY <1>1, <2>7, <2>12
    <3>2. p + 3 \in p .. q /\ (p + 2) + 1 = p + 3 /\ (i + 2) + 1 = i + 3
      BY <2>1, <2>10, <2>11, <2>12, <3>1
    <3>3. f[i + 3] = p + 3
      BY <1>3, <2>1, <2>9, <2>12, <3>2
    <3> QED
      BY <1>2, <2>1, <2>2, <3>1, <3>3
  <2>14. p + 3 # q
    BY <1>1, <2>7, <2>13
  <2>15. q > p + 3 /\ p \in 1 .. (t - 4) /\ q \in 1 .. t /\ p + 3 <= Len(ans) /\ p \in Nat \ {0}
    BY <1>0, <2>3, <2>10, <2>11, <2>12, <2>13, <2>14
  <2>16. SubSeq(ans, p, p + 3) = E
    BY <2>2, <2>3, <2>11, <2>12, <2>13, <2>15, HeaderAt DEF E
  <2> QED
    BY <2>7, <2>8, <2>15, <2>16
<1>6. ASSUME NEW p \in 1 .. (t - 4), NEW q \in 1 .. t, SubSeq(ans, p, p + 3) = E,
             q > p + 3, ~ P!IsEol(ans[q]), \A j \in p .. (q - 1) : P!IsEol(ans[j]) /\ j \notin C
      PROVE  \E i \in 1 .. (n - 3) : SubSeq(r, i, i + 3) = E
  <2>1. /\ p \in 1 .. t /\ q \in p .. t /\ p \in Nat \ {0} /\ p + 3 <= Len(ans)
        /\ p \in p .. q /\ p + 1 \in p .. q /\ p + 2 \in p .. q /\ p + 3 \in p .. q
        /\ (p + 1) + 1 = p + 2 /\ (p + 2) + 1 = p + 3
    BY <1>0, <1>6
  <2>2. \A y \in p .. q : y \in Kept(ans, t, C)
    BY <1>6, <2>1, RunKept
  <2>3. PICK i \in 1 .. n : f[i] = p
    BY <1>2, <2>1, <2>2
  <2>4. i + 1 \in 1 .. n /\ f[i + 1] = p + 1
    BY <1>3, <2>1, <2>2, <2>3
  <2>5. (i + 1) + 1 \in 1 .. n /\ f[(i + 1) + 1] = p + 2
    BY <1>3, <2>1, <2>2, <2>4
  <2>6. (i + 1) + 1 = i + 2 /\ (i + 2) + 1 = i + 3
    OBVIOUS
  <2>7. i + 2 \in 1 .. n /\ f[i + 2] = p + 2
    BY <2>5, <2>6
  <2>8. i + 3 \in 1 .. n /\ f[i + 3] = p + 3
    BY <1>3, <2>1, <2>2, <2>6, <2>7
  <2>9. ans[p] = "\r" /\ ans[p + 1] = "\n" /\ ans[p + 2] = "\r" /\ ans[p + 3] = "\n"
    BY <1>6, <2>1, HeaderAt DEF E
  <2>10. r[i] = "\r" /\ r[i + 1] = "\n" /\ r[i + 2] = "\r" /\ r[i + 3] = "\n"
    <3>1. r[i] = ans[f[i]] /\ r[i + 1] = ans[f[i + 1]]
      BY <1>2, <2>3, <2>4
    <3>2. r[i + 2] = ans[f[i + 2]] /\ r[i + 3] = ans[f[i + 3]]
      BY <1>2, <2>7, <2>8
    <3> QED
      BY <2>3, <2>4, <2>7, <2>8, <2>9, <3>1, <3>2
  <2>11. i \in Nat \ {0} /\ i + 3 <= Len(r) /\ i \in 1 .. (n - 3)
    BY <1>0, <2>3, <2>8 DEF n
  <2>12. SubSeq(r, i, i + 3) = E
    BY <2>10, <2>11, HeaderAt DEF E
  <2> QED
    BY <2>11, <2>12
<1> QED
  BY <1>4, <1>5, <1>6 DEF E

\* What is received lists what is kept of the part of the answer that was taken.
RecvInv ==
  /\ answer \in Seq(Chars) /\ arrived \in 0 .. Len(answer) /\ taken \in 0 .. arrived
  /\ ret \in Seq(Chars) /\ (ret # << >> => ~ P!IsEol(ret[Len(ret)]))
  /\ cuts \in SUBSET (1 .. taken) /\ (taken # 0 => taken \in cuts)
  /\ \E f : Maps(f, ret, answer, taken, cuts)

\* A recv() that returns something keeps it.
LEMMA ReceiveKeeps ==
  ASSUME RecvInv, P!Receive, answer' = answer, arrived' = arrived
  PROVE  RecvInv'
<1>1. PICK k \in 1 .. BufSize :
        /\ taken + k <= arrived /\ taken' = taken + k /\ cuts' = cuts \cup {taken + k}
        /\ ret' = P!Trim(ret \o SubSeq(answer, taken + 1, taken + k))
  BY DEF P!Receive
<1>2. PICK f : Maps(f, ret, answer, taken, cuts)
  BY DEF RecvInv
<1>3. /\ answer \in Seq(Chars) /\ ret \in Seq(Chars) /\ (ret # << >> => ~ P!IsEol(ret[Len(ret)]))
      /\ cuts \in SUBSET (1 .. taken) /\ (taken # 0 => taken \in cuts)
  BY DEF RecvInv
<1>4. /\ arrived \in 0 .. Len(answer) /\ taken \in 0 .. arrived /\ Len(answer) \in Nat
  BY DEF RecvInv
<1>5. /\ taken \in Nat /\ k \in Nat \ {0} /\ taken + k <= Len(answer)
      /\ taken + k \in 0 .. arrived
  BY <1>1, <1>4, BufferAssumption
<1>6. /\ ret' \in Seq(Chars) /\ (ret' # << >> => ~ P!IsEol(ret'[Len(ret')]))
      /\ \E g : Maps(g, ret', answer, taken + k, cuts \cup {taken + k})
  BY <1>1, <1>2, <1>3, <1>5, PieceMaps
<1>7. cuts \cup {taken + k} \in SUBSET (1 .. (taken + k))
  BY <1>3, <1>5
<1> QED
  BY <1>1, <1>3, <1>4, <1>5, <1>6, <1>7 DEF RecvInv

\* For answers of any length and any size of the buffer, however recv() cuts them,
\* http_client finds the headers exactly when the header end and some text behind
\* it came in one piece.
THEOREM HeadersAreSeen == AllSpec => []HeadersSeen
<1>1. AllInit => RecvInv
  <2> SUFFICES ASSUME AllInit PROVE RecvInv
    OBVIOUS
  <2>1. /\ answer \in Answers /\ arrived = 0 /\ ret = << >> /\ taken = 0 /\ cuts = {}
    BY DEF AllInit, P!Init
  <2>2. answer \in Seq(Chars)
    BY <2>1, AnswersAssumption DEF Chars
  <2>3. Kept(answer, 0, {}) = {}
    BY DEF Kept
  <2>4. Maps([i \in 1 .. 0 |-> i], << >>, answer, 0, {})
    BY <2>3 DEF Maps
  <2> QED
    BY <2>1, <2>2, <2>4 DEF RecvInv
<1>2. RecvInv /\ [AllNext]_<<subject, startVars, clientVars>> => RecvInv'
  <2> SUFFICES ASSUME RecvInv, P!Next \/ UNCHANGED clientVars PROVE RecvInv'
    BY DEF AllNext
  <2>1. CASE UNCHANGED <<answer, arrived, ret, taken, cuts>>
    BY <2>1 DEF RecvInv
  <2>2. CASE P!Receive /\ P!Step
    <3>1. answer' = answer /\ arrived' = arrived
      BY <2>2 DEF P!Step, P!Runs, P!net
    <3> QED
      BY <2>2, <3>1, ReceiveKeeps
  <2>3. CASE P!Step /\ ~ P!Receive
    <3>1. UNCHANGED P!net /\ UNCHANGED P!inp
      BY <2>3 DEF P!Step, P!Runs, P!Proceeds, P!Sends, P!RecvMore, P!NoSocket, P!Connect, P!ConnectFails, P!ConnectTimed, P!SelectWritable,
        P!SelectTimeout, P!Return, P!SetOptions, P!SendPiece, P!SendFails, P!SendEnd, P!Write,
        P!RecvLoop, P!RecvLoopEnd, P!RecvFails, P!Callback, P!RecvTimed, P!Recv
    <3> QED
      BY <2>1, <3>1 DEF P!net, P!inp
  <2>4. CASE P!Server
    <3>1. ret' = ret /\ taken' = taken /\ cuts' = cuts /\ answer' = answer
      BY <2>4 DEF P!Server, P!inp, P!Settle, P!Arrive, P!ArriveMore, P!HangUp, P!net
    <3>2. \/ arrived' = arrived
          \/ arrived' = arrived + 1 /\ arrived < Len(answer)
      BY <2>4 DEF P!Server, P!Settle, P!Arrive, P!ArriveMore, P!HangUp, P!net
    <3>3. arrived \in 0 .. Len(answer) /\ taken \in 0 .. arrived /\ Len(answer) \in Nat
      BY DEF RecvInv
    <3>4. arrived' \in 0 .. Len(answer) /\ taken \in 0 .. arrived'
      BY <3>2, <3>3
    <3> QED
      BY <3>1, <3>4 DEF RecvInv
  <2>5. CASE UNCHANGED clientVars
    BY <2>1, <2>5 DEF clientVars
  <2> QED
    BY <2>2, <2>3, <2>4, <2>5 DEF P!Next
<1>3. RecvInv => HeadersSeen
  <2> SUFFICES ASSUME RecvInv PROVE HeadersSeen
    OBVIOUS
  <2>1. PICK f : Maps(f, ret, answer, taken, cuts)
    BY DEF RecvInv
  <2>2. /\ answer \in Seq(Chars) /\ ret \in Seq(Chars)
        /\ arrived \in 0 .. Len(answer) /\ taken \in 0 .. arrived /\ Len(answer) \in Nat
    BY DEF RecvInv
  <2>3. taken \in Nat /\ taken <= Len(answer)
    BY <2>2
  <2> QED
    BY <2>1, <2>2, <2>3, HeadersAgree DEF HeadersSeen, P!HeadersSeen
<1> QED
  BY <1>1, <1>2, <1>3, PTL DEF AllSpec

=============================================================================
