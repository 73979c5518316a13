--------------------------- MODULE SocketClients ---------------------------
(***************************************************************************)
(* The client programs of net/: http_client, client_connect_timeout and    *)
(* client_read_timeout on the Socket class of net/common, and the simplest *)
(* client on plain calls.  One program runs; the server at the far end     *)
(* accepts or not, answers bit by bit, goes on or not, closes or resets.   *)
(***************************************************************************)
EXTENDS Integers, SequencesExt

CONSTANTS
  Answers,    \* what servers answer: sequences of "x", "\r" and "\n"
  QuerySize,  \* characters of the query
  BufSize,    \* characters one recv() may take
  SizeMod,    \* 2^w for the width w of size_t
  MaxPieces   \* bound: send() calls of one query

Query == [i \in 1 .. QuerySize |-> i]
HeaderEnd == <<"\r", "\n", "\r", "\n">>

VARIABLES
  program,    \* "http", "connect_timeout", "read_timeout" or "simplest"
  pc,         \* where it is
  fd,         \* its socket: "none", local "sd", "m_Sd", "closed" or "leaked"
  conn,       \* kernel: "none", "trying", "up" or "failed"
  peer,       \* the server: "open", or it sent "fin" or "rst"
  answer, arrived,      \* what it answers, and how much of it has arrived
  more,       \* text behind the answer has arrived
  left, off, pieces,    \* send(): left, sent, and the number of calls
  stream,     \* what the server receives
  ret, taken, \* what was received, and how much of the answer that took
  cuts,       \* history: where in the answer a recv() ended
  outcome     \* "running", or how the program ended

vars == <<program, pc, fd, conn, peer, answer, arrived, more, left, off, pieces,
          stream, ret, taken, cuts, outcome>>
net  == <<peer, answer, arrived>>
out  == <<left, off, pieces, stream>>
inp  == <<ret, taken, cuts>>

Programs == {"http", "connect_timeout", "read_timeout", "simplest"}

Init ==
  /\ program \in Programs
  /\ pc = "connect" /\ fd = "none" /\ conn = "none"
  /\ peer = "open" /\ answer \in Answers /\ arrived = 0 /\ more = FALSE
  /\ left = QuerySize /\ off = 0 /\ pieces = 0 /\ stream = << >>
  /\ ret = << >> /\ taken = 0 /\ cuts = {}
  /\ outcome = "running"

(***************************************************************************)
(* The network and the server.                                             *)
(***************************************************************************)
Settle ==
  /\ conn = "trying"
  /\ conn' \in {"up", "failed"}
  /\ UNCHANGED net

Arrive ==
  /\ conn = "up" /\ peer = "open" /\ arrived < Len(answer)
  /\ arrived' = arrived + 1
  /\ UNCHANGED <<conn, peer, answer>>

\* The server may go on sending text behind its answer for as long as it likes.
ArriveMore ==
  /\ conn = "up" /\ peer = "open" /\ 0 < arrived /\ arrived = Len(answer) /\ ~ more
  /\ more' = TRUE
  /\ UNCHANGED <<conn, net>>

HangUp ==
  /\ conn = "up"
  /\ peer' \in IF peer = "open" THEN {"fin", "rst"} ELSE {"rst"}
  /\ UNCHANGED <<conn, answer, arrived>>

Server ==
  /\ outcome = "running"
  /\ ((Settle \/ Arrive \/ HangUp) /\ UNCHANGED more) \/ ArriveMore
  /\ UNCHANGED <<program, pc, fd, out, inp, outcome>>

(***************************************************************************)
(* How a program ends.  The Socket is a local of main's try block: its     *)
(* destructor closes m_Sd before the exception is reported.  The simplest  *)
(* client catches nothing.                                                 *)
(***************************************************************************)
Released == IF fd = "m_Sd" THEN "closed" ELSE fd

Ends(how) == pc' = "done" /\ fd' = Released /\ outcome' = how
Throws == Ends(IF program = "simplest" THEN "terminated" ELSE "caught")

\* make_query(), resolve() or socket() fails.
NoSocket ==
  /\ pc = "connect"
  /\ Ends(IF program = "simplest" THEN "exited" ELSE "caught")
  /\ UNCHANGED <<conn, out, inp>>

(***************************************************************************)
(* connect().                                                              *)
(***************************************************************************)
Connect ==
  /\ pc = "connect" /\ program # "connect_timeout"
  /\ conn' = "up" /\ fd' = "m_Sd"
  /\ pc' = IF program = "simplest" THEN "write" ELSE "options"
  /\ UNCHANGED <<outcome, out, inp>>

\* Mutant: the socket of a refused connection stays open.
ConnectFailsOpen ==
  /\ pc = "connect" /\ program # "connect_timeout"
  /\ conn' = "failed" /\ fd' = "sd" /\ pc' = "done"
  /\ outcome' = IF program = "simplest" THEN "exited" ELSE "caught"
  /\ UNCHANGED <<out, inp>>

ConnectFails ==
  /\ pc = "connect" /\ program # "connect_timeout"
  /\ conn' = "failed" /\ pc' = "done"
  /\ IF program = "simplest" THEN fd' = "sd" /\ outcome' = "exited"
                             ELSE fd' = "closed" /\ outcome' = "caught"
  /\ UNCHANGED <<out, inp>>

\* The connection with a timeout: fcntl() may fail and leaks the socket,
\* connect() may fail or succeed at once, or go on.
ConnectTimed ==
  /\ pc = "connect" /\ program = "connect_timeout"
  /\ \/ fd' = "leaked" /\ pc' = "done" /\ outcome' = "caught" /\ UNCHANGED conn
     \/ fd' = "closed" /\ pc' = "done" /\ outcome' = "caught" /\ conn' = "failed"
     \/ fd' = "sd" /\ pc' = "select" /\ conn' \in {"trying", "up"} /\ UNCHANGED outcome
  /\ UNCHANGED <<out, inp>>

\* select() reports the socket of a failed connection writable too, and nobody
\* asks SO_ERROR.
SelectWritable ==
  /\ pc = "select" /\ conn # "trying"
  /\ fd' = "m_Sd" /\ pc' = "return"
  /\ UNCHANGED <<conn, outcome, out, inp>>

SelectTimeout ==
  /\ pc = "select" /\ conn = "trying"
  /\ fd' = "closed" /\ pc' = "done" /\ outcome' = "caught"
  /\ UNCHANGED <<conn, out, inp>>

Return ==
  /\ pc = "return"
  /\ Ends("returned")
  /\ UNCHANGED <<conn, out, inp>>

\* setRcvTimeout() or setNonBlocked().
SetOptions ==
  /\ pc = "options"
  /\ \/ /\ pc' = IF program = "http" THEN "send" ELSE "recvTimed"
        /\ UNCHANGED <<fd, outcome>>
     \/ Throws
  /\ UNCHANGED <<conn, out, inp>>

(***************************************************************************)
(* send() goes on from the length of the last piece, not from where the    *)
(* last piece ended; left is a size_t.                                     *)
(***************************************************************************)
\* Mutant: every piece starts at the beginning.
SendPieceAgain ==
  /\ pc = "send" /\ left > 0 /\ pieces < MaxPieces /\ peer # "rst"
  /\ \E k \in 1 .. (QuerySize - off) :
       /\ stream' = stream \o SubSeq(Query, 1, k)
       /\ off' = k
       /\ left' = (left - k) % SizeMod
  /\ pieces' = pieces + 1
  /\ UNCHANGED <<pc, fd, conn, inp, outcome>>

SendPiece ==
  /\ pc = "send" /\ left > 0 /\ pieces < MaxPieces /\ peer # "rst"
  /\ \E k \in 1 .. (QuerySize - off) :
       /\ stream' = stream \o SubSeq(Query, off + 1, off + k)
       /\ off' = k
       /\ left' = (left - k) % SizeMod
  /\ pieces' = pieces + 1
  /\ UNCHANGED <<pc, fd, conn, inp, outcome>>

\* To a server that reset the connection.
SendFails ==
  /\ pc \in {"send", "write"} /\ left > 0 /\ peer = "rst"
  /\ Throws \/ Ends("sigpipe")
  /\ UNCHANGED <<conn, out, inp>>

SendEnd ==
  /\ pc = "send" /\ left = 0
  /\ pc' = "recv_loop"
  /\ UNCHANGED <<fd, conn, out, inp, outcome>>

\* The simplest client does not look at how much write() took.
Write ==
  /\ pc = "write" /\ peer # "rst"
  /\ \E k \in 1 .. QuerySize : stream' = SubSeq(Query, 1, k)
  /\ pieces' = 1
  /\ pc' = "read"
  /\ UNCHANGED <<fd, conn, left, off, inp, outcome>>

(***************************************************************************)
(* Receiving.                                                              *)
(***************************************************************************)
IsEol(ch) == ch \in {"\r", "\n"}

\* Mutant: one line end at most is popped.
TrimOne(s) == IF s # << >> /\ IsEol(Last(s)) THEN Front(s) ELSE s

\* The loop that pops trailing line ends.
Trim(s) ==
  LET Kept == {i \in DOMAIN s : ~ IsEol(s[i])} IN
  SubSeq(s, 1, IF Kept = {} THEN 0 ELSE Max(Kept))

\* recv() > 0.  back() of a string with nothing left in it is undefined: the
\* byte before it is taken for text, or popping goes wrong.
Receive ==
  /\ \E k \in 1 .. BufSize :
       /\ taken + k <= arrived
       /\ taken' = taken + k
       /\ cuts' = cuts \cup {taken + k}
       /\ ret' = Trim(ret \o SubSeq(answer, taken + 1, taken + k))
  /\ UNCHANGED <<conn, out>>

NothingLeft == taken = arrived /\ ~ more

RecvLoop ==
  /\ pc = "recv_loop"
  /\ Receive
  /\ \/ UNCHANGED <<pc, fd, outcome>>
     \/ ret' = << >> /\ Ends("undefined")

\* Text behind the answer is appended to ret; the trimming leaves it, and it
\* neither makes nor hides a header end.
RecvMore ==
  /\ pc = "recv_loop" /\ taken = arrived /\ more
  /\ more' = FALSE
  /\ UNCHANGED <<pc, fd, conn, out, inp, outcome>>

\* Mutant: without SO_RCVTIMEO.
RecvLoopEndUntimed ==
  /\ pc = "recv_loop" /\ NothingLeft /\ peer = "fin"
  /\ pc' = "callback"
  /\ UNCHANGED <<fd, conn, out, inp, outcome>>

\* recv() = 0, or a second without data.
RecvLoopEnd ==
  /\ pc = "recv_loop" /\ NothingLeft /\ peer # "rst"
  /\ pc' = "callback"
  /\ UNCHANGED <<fd, conn, out, inp, outcome>>

RecvFails ==
  /\ pc \in {"recv_loop", "recv", "read"} /\ NothingLeft
  /\ peer = "rst" \/ (pc # "recv_loop" /\ peer = "fin")
  /\ Throws
  /\ UNCHANGED <<conn, out, inp>>

\* The headers are found or an exception says they are not.
HasHeaders(s) == \E i \in 1 .. (Len(s) - 3) : SubSeq(s, i, i + 3) = HeaderEnd

Callback ==
  /\ pc = "callback"
  /\ Ends(IF HasHeaders(ret) THEN "returned" ELSE "caught")
  /\ UNCHANGED <<conn, out, inp>>

\* recvTimed() waits three seconds in select().
RecvTimed ==
  /\ pc = "recvTimed"
  /\ IF NothingLeft /\ peer = "open" THEN Throws
     ELSE pc' = "recv" /\ UNCHANGED <<fd, outcome>>
  /\ UNCHANGED <<conn, out, inp>>

Recv ==
  /\ pc \in {"recv", "read"}
  /\ Receive
  /\ Ends("returned") \/ (ret' = << >> /\ Ends("undefined"))

\* What the program does without waiting for room in the send buffer.
Proceeds ==
  \/ RecvMore
  \/ /\ \/ NoSocket \/ Connect \/ ConnectFails \/ ConnectTimed
        \/ SelectWritable \/ SelectTimeout \/ Return \/ SetOptions
        \/ SendFails \/ SendEnd
        \/ RecvLoop \/ RecvLoopEnd \/ RecvFails \/ Callback \/ RecvTimed \/ Recv
     /\ UNCHANGED more

Sends == (SendPiece \/ Write) /\ UNCHANGED more

Runs(step) == outcome = "running" /\ step /\ UNCHANGED <<program, net>>
Step == Runs(Proceeds \/ Sends)

Next == Server \/ Step

\* Timers run out and the program runs whenever it can; but a send() or write()
\* that finds no room waits, for ever if the server never reads.
Spec == Init /\ [][Next]_vars /\ WF_vars(Runs(Proceeds))

(***************************************************************************)
(* Properties.                                                             *)
(***************************************************************************)
\* When a program on the Socket class is over it has closed what it opened,
\* on every error path, except after a failed fcntl() (socket.cpp:108).
ClosedAtEnd ==
  outcome \in {"returned", "caught"} /\ program # "simplest" =>
    fd \in {"none", "closed", "leaked"}
    /\ (fd = "leaked" => program = "connect_timeout" /\ conn = "none")

\* A query that the kernel takes in one or two pieces reaches the server as it
\* is, although the next piece is looked for at the length of the last one
\* (socket.cpp:140); from the third piece on it does not.
SentIntact ==
  pieces \in {1, 2} /\ program = "http" =>
    IF left > 0 THEN IsPrefix(stream, Query) ELSE stream = Query

\* The http client finds the headers exactly when the header end and some text
\* behind it came in one recv(): recv_loop() trims what it has after every piece
\* (socket.cpp:231), which loses a header end that a piece ends in or after.
HeadersSeen ==
  pc = "callback" =>
    (HasHeaders(ret) <=>
       \E p \in 1 .. (taken - 4), q \in 1 .. taken :
         /\ SubSeq(answer, p, p + 3) = HeaderEnd
         /\ q > p + 3 /\ ~ IsEol(answer[q])
         /\ \A j \in p .. (q - 1) : IsEol(answer[j]) /\ j \notin cuts)

\* The programs with a timeout end, whatever the server does and fails to do, with
\* two exceptions: http_client may stay in send(), which has no timeout and whose
\* loop may not end for a query cut in three or more pieces (socket.cpp:139-140),
\* and recv_loop() goes on for as long as text keeps coming (socket.cpp:219).
EndsInTime ==
  program # "simplest" => <>(outcome # "running") \/ <>[](pc = "send") \/ []<>more

=============================================================================
