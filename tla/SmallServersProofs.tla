------------------------- MODULE SmallServersProofs -------------------------
(***************************************************************************)
(* Theorems about the small servers of net/, for every set of clients,     *)
(* every number of descriptors and of requests, and every size of the      *)
(* poll() server's array.                                                  *)
(***************************************************************************)
EXTENDS MCSmallServers, SequenceLemmas

(***************************************************************************)
(* The inductive invariant.                                                *)
(***************************************************************************)
\* What a server has read from a client and not written: answers that are ready,
\* and lines that libevent keeps for a later call of echo_read_cb.
Outgoing(c) ==
  CASE server = "libevent" -> output[c]
    [] server = "asio" -> taken[c]
    [] OTHER -> << >>
Incoming(c) == IF server = "libevent" THEN input[c] ELSE << >>

\* The requests of q are those of client c that follow the first m.
Numbered(c, m, q) == \A n \in DOMAIN q : q[n] = <<c, m + n>>

\* The requests answered, ready, kept and unread are all that were sent, in order.
Linked(c, a, o, p, b, total) ==
  /\ Numbered(c, 0, a)
  /\ Numbered(c, Len(a), o)
  /\ Numbered(c, Len(a) + Len(o), p)
  /\ Numbered(c, Len(a) + Len(o) + Len(p), b)
  /\ total = Len(a) + Len(o) + Len(p) + Len(b)

\* The server closed its end of the connection.
Gone(c) == link[c] = "accepted" /\ \A f \in Fds : fdt[f] # c

\* Nothing is lost of a connection that is neither reset nor closed, unless the
\* server never answers.
Intact(c) == server # "multiplex" /\ peer[c] # "rst" /\ ~ Gone(c)
Chain(c)  == Linked(c, replied[c], Outgoing(c), Incoming(c), inbox[c], sent[c])
InOrder   ==
  server # "poll" => \A c \in Conns : Numbered(c, 0, replied[c]) /\ (Intact(c) => Chain(c))

\* The poll() server owes answers in its slots.  What the only slot that watches a
\* client owes is what that client is next in line for; what a slot of two that
\* watch it owes may be for an earlier client.
Watches(k, c) == P!SocketAt(fds[k].fd) = c
Slotted(c) ==
  /\ (\A k \in DOMAIN fds : ~ Watches(k, c)) =>
       Linked(c, replied[c], << >>, << >>, inbox[c], sent[c])
  /\ \A k \in DOMAIN fds : Watches(k, c) =>
       Linked(c, replied[c], fds[k].owed, << >>, inbox[c], sent[c])
Simple(c) == peer[c] # "rst" /\ ~ Gone(c) /\ ~ P!Twins(c)
PollOrder ==
  server = "poll" /\ status # "overflow" => \A c \in Conns : Simple(c) => Slotted(c)

\* A client socket has one descriptor, and is not in the backlog.
Table ==
  /\ \A f \in Fds : fdt[f] # NoConn => link[fdt[f]] = "accepted"
  /\ \A f, g \in Fds : fdt[f] = fdt[g] /\ fdt[f] # NoConn => f = g

\* The clients that the select() and the multiplexing server visit are open.
VisitsOpen ==
  /\ server = "select" => \A s \in selectClients : fdt[s] # NoConn
  /\ server = "multiplex" => \A n \in DOMAIN clients : fdt[clients[n]] # NoConn

\* A slot of the poll() server that is still to be visited has something to
\* read, or another slot watches the same descriptor.
PollReady ==
  server = "poll" /\ status # "overflow" /\ pollPc = "loop" =>
    \A k \in DOMAIN fds :
      k >= i /\ fds[k].revents = "IN" /\ fds[k].fd \in Fds /\ fdt[fds[k].fd] # NoConn =>
        \/ inbox[fdt[fds[k].fd]] # << >>
        \/ peer[fdt[fds[k].fd]] # "open"
        \/ \E j \in DOMAIN fds : j # k /\ fds[j].fd = fds[k].fd

\* A client of the asio server whose chain of handlers goes on is open; only a
\* read that came to its end leads to HandleEof, and only a write holds requests.
AsioChains ==
  server = "asio" => \A c \in Conns :
    /\ op[c] # "none" => \E f \in Fds : fdt[f] = c
    /\ op[c] = "eof" => peer[c] # "open"
    /\ op[c] # "write" => taken[c] = << >>

SmallInv ==
  /\ StateTypes /\ BufferTypes /\ Table /\ InOrder /\ VisitsOpen
  /\ PollReady /\ PollOrder /\ AsioChains

(***************************************************************************)
(* Requests in order.                                                      *)
(***************************************************************************)
\* Consecutive requests, followed by the ones after them.
LEMMA JoinNumbered ==
  ASSUME NEW c, NEW m \in Nat, NEW q \in Seq(Request), NEW r \in Seq(Request),
         Numbered(c, m, q), Numbered(c, m + Len(q), r)
  PROVE  /\ Numbered(c, m, q \o r) /\ q \o r \in Seq(Request)
         /\ Len(q \o r) = Len(q) + Len(r)
<1>1. /\ q \o r \in Seq(Request) /\ Len(q \o r) = Len(q) + Len(r)
      /\ \A n \in 1 .. Len(q) + Len(r) : (q \o r)[n] = IF n <= Len(q) THEN q[n] ELSE r[n - Len(q)]
  BY ConcatProperties
<1>2. /\ DOMAIN q = 1 .. Len(q) /\ DOMAIN r = 1 .. Len(r) /\ Len(q) \in Nat /\ Len(r) \in Nat
      /\ DOMAIN (q \o r) = 1 .. Len(q \o r)
  BY <1>1
<1> DEFINE a == Len(q)
           b == Len(r)
<1>3. ASSUME NEW n \in 1 .. a + b PROVE (q \o r)[n] = <<c, m + n>>
  <2>1. a \in Nat /\ b \in Nat
    BY <1>2
  <2>2. CASE n <= a
    <3>1. n \in DOMAIN q /\ (q \o r)[n] = q[n]
      BY <1>1, <1>2, <1>3, <2>2
    <3> QED
      BY <3>1 DEF Numbered
  <2>3. CASE n > a
    <3>1. (q \o r)[n] = r[n - a]
      BY <1>1, <1>2, <1>3, <2>3
    <3> HIDE DEF a, b
    <3>2. n - a \in 1 .. b /\ m + a + (n - a) = m + n
      BY <1>3, <2>1, <2>3
    <3>3. n - a \in DOMAIN r
      BY <3>2, <1>2 DEF b
    <3>4. r[n - a] = <<c, m + a + (n - a)>>
      BY <3>3 DEF Numbered, a
    <3> QED
      BY <3>1, <3>2, <3>4
  <2> QED
    BY <1>3, <2>1, <2>2, <2>3
<1> QED
  BY <1>1, <1>2, <1>3 DEF Numbered

\* The first of consecutive requests, and the others.
LEMMA CutNumbered ==
  ASSUME NEW c, NEW m \in Nat, NEW q \in Seq(Request), NEW k \in 1 .. Len(q)
  PROVE  /\ SubSeq(q, 1, k) \in Seq(Request) /\ Len(SubSeq(q, 1, k)) = k
         /\ SubSeq(q, k + 1, Len(q)) \in Seq(Request)
         /\ Len(SubSeq(q, k + 1, Len(q))) = Len(q) - k
         /\ Numbered(c, m, q) => /\ Numbered(c, m, SubSeq(q, 1, k))
                                 /\ Numbered(c, m + k, SubSeq(q, k + 1, Len(q)))
<1> DEFINE a == SubSeq(q, 1, k)
           b == SubSeq(q, k + 1, Len(q))
<1>1. /\ Len(q) \in Nat /\ k \in Nat /\ DOMAIN q = 1 .. Len(q)
  OBVIOUS
<1>2. /\ a \in Seq(Request) /\ Len(a) = k /\ DOMAIN a = 1 .. k
      /\ \A n \in 1 .. k : a[n] = q[n]
  BY <1>1
<1>3. /\ b \in Seq(Request) /\ Len(b) = Len(q) - k /\ DOMAIN b = 1 .. (Len(q) - k)
      /\ \A n \in 1 .. (Len(q) - k) : b[n] = q[k + n]
  <2>1. b \in Seq(Request) /\ Len(b) = Len(q) - k /\ \A n \in 1 .. (Len(q) - k) : b[n] = q[k + n]
    BY <1>1
  <2> HIDE DEF b
  <2>2. DOMAIN b = 1 .. Len(b)
    BY <2>1
  <2> QED
    BY <2>1, <2>2
<1> HIDE DEF a, b
<1>4. ASSUME Numbered(c, m, q) PROVE Numbered(c, m, a) /\ Numbered(c, m + k, b)
  <2>1. \A n \in DOMAIN a : n \in DOMAIN q
    BY <1>1, <1>2
  <2>2. Numbered(c, m, a)
    BY <1>2, <1>4, <2>1 DEF Numbered
  <2>3. ASSUME NEW n \in DOMAIN b PROVE b[n] = <<c, m + k + n>>
    <3>1. k + n \in DOMAIN q /\ m + (k + n) = m + k + n /\ b[n] = q[k + n]
      BY <1>1, <1>3, <2>3
    <3> QED
      BY <1>4, <3>1 DEF Numbered
  <2> QED
    BY <2>2, <2>3 DEF Numbered
<1> QED
  BY <1>2, <1>3, <1>4 DEF a, b

\* A client sends its next request.
LEMMA LinkedSend ==
  ASSUME NEW c \in Conns, NEW a \in Seq(Request), NEW o \in Seq(Request), NEW p \in Seq(Request),
         NEW b \in Seq(Request), NEW total \in Nat, Linked(c, a, o, p, b, total)
  PROVE  Linked(c, a, o, p, Append(b, <<c, total + 1>>), total + 1)
<1> DEFINE i1 == Len(a)
           i2 == Len(o)
           i3 == Len(p)
           i4 == Len(b)
           x == <<c, total + 1>>
<1>1. i1 \in Nat /\ i2 \in Nat /\ i3 \in Nat /\ i4 \in Nat
  OBVIOUS
<1>2. x \in Request
  BY DEF Request
<1>3. /\ Len(Append(b, x)) = i4 + 1
      /\ \A n \in DOMAIN Append(b, x) : \/ n \in DOMAIN b /\ Append(b, x)[n] = b[n]
                                        \/ n = i4 + 1 /\ Append(b, x)[n] = x
  BY <1>2, AppendElements
<1>4. total = i1 + i2 + i3 + i4 /\ Numbered(c, i1 + i2 + i3, b)
  BY DEF Linked
<1> HIDE DEF i1, i2, i3, i4
<1>5. total + 1 = i1 + i2 + i3 + (i4 + 1)
  BY <1>1, <1>4
<1>6. Numbered(c, i1 + i2 + i3, Append(b, x))
  BY <1>3, <1>4, <1>5 DEF Numbered
<1> QED
  BY <1>3, <1>5, <1>6 DEF Linked, i1, i2, i3, i4

\* What was ready is written.
LEMMA LinkedWrite ==
  ASSUME NEW c \in Conns, NEW a \in Seq(Request), NEW o \in Seq(Request), NEW p \in Seq(Request),
         NEW b \in Seq(Request), NEW total \in Nat, Linked(c, a, o, p, b, total)
  PROVE  a \o o \in Seq(Request) /\ Linked(c, a \o o, << >>, p, b, total)
<1> DEFINE i1 == Len(a)
           i2 == Len(o)
           i3 == Len(p)
           i4 == Len(b)
<1>1. i1 \in Nat /\ i2 \in Nat /\ i3 \in Nat /\ i4 \in Nat
  OBVIOUS
<1>2. /\ Numbered(c, 0, a) /\ Numbered(c, i1, o) /\ Numbered(c, i1 + i2, p)
      /\ Numbered(c, i1 + i2 + i3, b) /\ total = i1 + i2 + i3 + i4
  BY DEF Linked
<1>3. 0 + i1 = i1
  BY <1>1
<1>4. Numbered(c, 0, a \o o) /\ a \o o \in Seq(Request) /\ Len(a \o o) = i1 + i2
  BY <1>2, <1>3, JoinNumbered
<1>5. Numbered(c, i1 + i2, << >>) /\ Len(<< >>) = 0
  BY DEF Numbered
<1> DEFINE w == a \o o
           z == Len(<< >>)
<1> HIDE DEF i1, i2, i3, i4, w, z
<1>6. i1 + i2 + z = i1 + i2 /\ i1 + i2 + z + i3 = i1 + i2 + i3
      /\ total = i1 + i2 + z + i3 + i4
  BY <1>1, <1>2, <1>5 DEF z
<1>7. Linked(c, w, << >>, p, b, total)
  BY <1>2, <1>4, <1>5, <1>6 DEF Linked, w, z, i3, i4
<1> QED
  BY <1>4, <1>7 DEF w

\* The first k requests are read and ready to be answered.
LEMMA LinkedRead ==
  ASSUME NEW c \in Conns, NEW a \in Seq(Request), NEW o \in Seq(Request),
         NEW b \in Seq(Request), NEW total \in Nat, NEW k \in 1 .. Len(b),
         Linked(c, a, o, << >>, b, total)
  PROVE  /\ o \o SubSeq(b, 1, k) \in Seq(Request)
         /\ Linked(c, a, o \o SubSeq(b, 1, k), << >>, SubSeq(b, k + 1, Len(b)), total)
<1> DEFINE i1 == Len(a)
           i2 == Len(o)
           i4 == Len(b)
           z == Len(<< >>)
           x == SubSeq(b, 1, k)
           y == SubSeq(b, k + 1, Len(b))
<1>1. i1 \in Nat /\ i2 \in Nat /\ i4 \in Nat /\ z = 0 /\ k \in Nat
  OBVIOUS
<1>2. /\ Numbered(c, 0, a) /\ Numbered(c, i1, o)
      /\ Numbered(c, i1 + i2 + z, b) /\ total = i1 + i2 + z + i4
  BY DEF Linked
<1>3. Numbered(c, i1 + i2, b)
  BY <1>1, <1>2
<1>4. i1 + i2 \in Nat
  BY <1>1
<1>5. /\ x \in Seq(Request) /\ Len(x) = k /\ y \in Seq(Request) /\ Len(y) = i4 - k
      /\ Numbered(c, i1 + i2, x) /\ Numbered(c, i1 + i2 + k, y)
  BY <1>3, <1>4, CutNumbered
<1> HIDE DEF x, y
<1>6. /\ Numbered(c, i1, o \o x) /\ o \o x \in Seq(Request) /\ Len(o \o x) = i2 + k
  <2>1. Numbered(c, i1, o \o x) /\ o \o x \in Seq(Request) /\ Len(o \o x) = i2 + Len(x)
    <3>1. i1 \in Nat /\ Numbered(c, i1, o) /\ Numbered(c, i1 + Len(o), x) /\ x \in Seq(Request)
      BY <1>1, <1>2, <1>5
    <3> HIDE DEF i1
    <3> QED
      BY <3>1, JoinNumbered
  <2> QED
    BY <1>5, <2>1
<1>7. Numbered(c, i1 + Len(o \o x), << >>)
  BY DEF Numbered
<1> DEFINE w == o \o x
<1> HIDE DEF i1, i2, i4, z, w
<1>8. /\ i1 + (i2 + k) + z = i1 + i2 + k
      /\ total = i1 + (i2 + k) + z + (i4 - k)
  BY <1>1, <1>2
<1>9. Linked(c, a, w, << >>, y, total)
  BY <1>2, <1>5, <1>6, <1>7, <1>8 DEF Linked, i1, z, w
<1> QED
  BY <1>6, <1>9 DEF w, x, y

\* The first of consecutive requests moves behind the ones before it.
LEMMA ShiftNumbered ==
  ASSUME NEW c \in Conns, NEW j \in Nat, NEW o \in Seq(Request), NEW q \in Seq(Request), q # << >>
  PROVE  /\ Append(o, Head(q)) \in Seq(Request) /\ Len(Append(o, Head(q))) = Len(o) + 1
         /\ Tail(q) \in Seq(Request) /\ Len(Tail(q)) = Len(q) - 1
         /\ Numbered(c, j, o) /\ Numbered(c, j + Len(o), q) =>
              Numbered(c, j, Append(o, Head(q))) /\ Numbered(c, j + (Len(o) + 1), Tail(q))
<1>1. /\ Head(q) \in Request /\ 1 \in DOMAIN q /\ q[1] = Head(q)
      /\ Tail(q) \in Seq(Request) /\ Len(Tail(q)) = Len(q) - 1
      /\ \A n \in DOMAIN Tail(q) :
           n + 1 \in DOMAIN q /\ n \in Nat \ {0} /\ Tail(q)[n] = q[n + 1]
  BY TailElements
<1> DEFINE h == Head(q)
           w == Append(o, h)
           t == Tail(q)
           m == Len(o)
<1>2. m \in Nat
  OBVIOUS
<1> HIDE DEF h, t
<1>3. /\ w \in Seq(Request) /\ Len(w) = m + 1
      /\ \A n \in DOMAIN w : \/ n \in DOMAIN o /\ w[n] = o[n]
                             \/ n = m + 1 /\ w[n] = h
  <2>1. h \in Request
    BY <1>1 DEF h
  <2> QED
    BY <2>1, AppendElements
<1> HIDE DEF w, m
<1>4. ASSUME Numbered(c, j, o), Numbered(c, j + m, q)
      PROVE  Numbered(c, j, w) /\ Numbered(c, j + (m + 1), t)
  <2>1. h = <<c, j + m + 1>> /\ j + m + 1 = j + (m + 1)
    BY <1>1, <1>2, <1>4 DEF Numbered, h
  <2>2. Numbered(c, j, w)
    BY <1>3, <1>4, <2>1 DEF Numbered
  <2>3. ASSUME NEW n \in DOMAIN t PROVE t[n] = <<c, j + (m + 1) + n>>
    <3>1. n + 1 \in DOMAIN q /\ n \in Nat /\ t[n] = q[n + 1]
      BY <1>1, <2>3 DEF t
    <3>2. q[n + 1] = <<c, j + m + (n + 1)>>
      BY <1>4, <3>1 DEF Numbered
    <3>3. j + m + (n + 1) = j + (m + 1) + n
      BY <1>2, <3>1
    <3> QED
      BY <3>1, <3>2, <3>3
  <2> QED
    BY <2>2, <2>3 DEF Numbered
<1> QED
  BY <1>1, <1>3, <1>4 DEF w, t, h, m

\* One line of what was kept and of the first k unread requests is ready, the
\* others are kept (echo_read_cb).
LEMMA LinkedLine ==
  ASSUME NEW c \in Conns, NEW a \in Seq(Request), NEW o \in Seq(Request), NEW p \in Seq(Request),
         NEW b \in Seq(Request), NEW total \in Nat, NEW k \in 1 .. Len(b)
  PROVE  LET lines == p \o SubSeq(b, 1, k) IN
         /\ Append(o, Head(lines)) \in Seq(Request) /\ Tail(lines) \in Seq(Request)
         /\ Linked(c, a, o, p, b, total) =>
              Linked(c, a, Append(o, Head(lines)), Tail(lines), SubSeq(b, k + 1, Len(b)), total)
<1> DEFINE i1 == Len(a)
           i2 == Len(o)
           i3 == Len(p)
           i4 == Len(b)
           x == SubSeq(b, 1, k)
           y == SubSeq(b, k + 1, Len(b))
           lines == p \o x
<1>1. i1 \in Nat /\ i2 \in Nat /\ i3 \in Nat /\ i4 \in Nat /\ k \in Nat \ {0}
  OBVIOUS
<1>2. i1 + i2 + i3 \in Nat /\ i1 + i2 \in Nat
  BY <1>1
<1>3. /\ x \in Seq(Request) /\ Len(x) = k /\ y \in Seq(Request) /\ Len(y) = i4 - k
      /\ Numbered(c, i1 + i2 + i3, b) => /\ Numbered(c, i1 + i2 + i3, x)
                                         /\ Numbered(c, i1 + i2 + i3 + k, y)
  BY <1>2, CutNumbered
<1> HIDE DEF x, y
<1>4. lines \in Seq(Request) /\ Len(lines) = i3 + k
  <2>1. p \o x \in Seq(Request) /\ Len(p \o x) = i3 + Len(x)
    BY <1>3, ConcatProperties
  <2> QED
    BY <1>3, <2>1
<1> DEFINE w == Append(o, Head(lines))
           t == Tail(lines)
<1>5. /\ w \in Seq(Request) /\ Len(w) = i2 + 1 /\ t \in Seq(Request) /\ Len(t) = Len(lines) - 1
      /\ Numbered(c, i1, o) /\ Numbered(c, i1 + i2, lines) =>
           Numbered(c, i1, w) /\ Numbered(c, i1 + (i2 + 1), t)
  <2> HIDE DEF lines
  <2>1. i3 + k # 0
    BY <1>1
  <2>2. lines # << >>
    BY <1>4, <2>1, EmptySeq
  <2> QED
    BY <1>1, <1>4, <2>2, ShiftNumbered
<1>6. ASSUME Linked(c, a, o, p, b, total) PROVE Linked(c, a, w, t, y, total)
  <2>1. /\ Numbered(c, 0, a) /\ Numbered(c, i1, o) /\ Numbered(c, i1 + i2, p)
        /\ Numbered(c, i1 + i2 + i3, b) /\ total = i1 + i2 + i3 + i4
    BY <1>6 DEF Linked
  <2>2. Numbered(c, i1 + i2, lines)
    <3> DEFINE j == i1 + i2
    <3>1. j \in Nat /\ Numbered(c, j, p) /\ Numbered(c, j + Len(p), x)
      BY <1>2, <1>3, <2>1
    <3> HIDE DEF j
    <3>2. Numbered(c, j, p \o x)
      BY <1>3, <3>1, JoinNumbered
    <3> QED
      BY <3>2 DEF j
  <2> HIDE DEF i1, i2, i3, i4, lines, t, w
  <2>3. Len(t) = i3 + k - 1
    BY <1>1, <1>4, <1>5
  <2>4. /\ i1 + (i2 + 1) + (i3 + k - 1) = i1 + i2 + i3 + k
        /\ total = i1 + (i2 + 1) + (i3 + k - 1) + (i4 - k)
    BY <1>1, <2>1
  <2> QED
    BY <1>3, <1>5, <2>1, <2>2, <2>3, <2>4 DEF Linked, i1
<1> QED
  BY <1>5, <1>6 DEF x, y

(***************************************************************************)
(* What the system calls do to the sockets.                                *)
(***************************************************************************)
\* A client is taken from the backlog.
LEMMA AcceptTable ==
  ASSUME SocketsType, Table, NEW c \in Conns, NEW s \in Fds, link[c] = "backlog", fdt[s] = NoConn,
         link' = [link EXCEPT ![c] = "accepted"], fdt' = [fdt EXCEPT ![s] = c],
         peer' = peer, sent' = sent, inbox' = inbox, replied' = replied
  PROVE  /\ SocketsType' /\ Table' /\ fdt'[s] = c
         /\ \A f \in Fds : fdt[f] # NoConn => fdt'[f] = fdt[f]
         /\ \A d \in Conns : Gone(d) => Gone(d)'
         /\ \A d \in Conns : Reachable(d) => Reachable(d)'
<1>1. SocketsType'
  BY DEF SocketsType
<1>2. \A f \in Fds : fdt[f] # c
  BY SocketsAssumption DEF Table, SocketsType
<1>3. /\ fdt'[s] = c /\ link'[c] = "accepted"
      /\ \A f \in Fds : f # s => fdt'[f] = fdt[f]
      /\ \A d \in Conns : d # c => link'[d] = link[d]
  BY DEF SocketsType
<1>4. \A f \in Fds : fdt'[f] # NoConn => link'[fdt'[f]] = "accepted"
  BY <1>2, <1>3 DEF Table, SocketsType
<1>5. \A f, g \in Fds : fdt'[f] = fdt'[g] /\ fdt'[f] # NoConn => f = g
  BY <1>2, <1>3 DEF Table, SocketsType
<1>6. \A d \in Conns : Gone(d) => Gone(d)'
  BY <1>2, <1>3, SocketsAssumption DEF Gone
<1>7. \A d \in Conns : Reachable(d) => Reachable(d)'
  BY <1>2, <1>3, SocketsAssumption DEF Reachable, SocketsType
<1> QED
  BY <1>1, <1>3, <1>4, <1>5, <1>6, <1>7 DEF Table

\* A descriptor is closed: only the client it belonged to is cut off.
LEMMA CloseTable ==
  ASSUME SocketsType, Table, NEW s, fdt' = [f \in Fds |-> IF f = s THEN NoConn ELSE fdt[f]],
         link' = link
  PROVE  /\ fdt' \in [Fds -> Conns \cup {NoConn}] /\ Table'
         /\ \A f \in Fds : f # s => fdt'[f] = fdt[f]
         /\ s \in Fds => fdt'[s] = NoConn
         /\ \A d \in Conns : Gone(d) => Gone(d)'
         /\ \A d \in Conns : s \in Fds /\ fdt[s] = d => Gone(d)'
         /\ \A d \in Conns : Reachable(d) /\ ~ Reachable(d)' => s \in Fds /\ fdt[s] = d
<1>1. fdt' \in [Fds -> Conns \cup {NoConn}]
  BY DEF SocketsType
<1>2. \A f \in Fds : fdt'[f] = IF f = s THEN NoConn ELSE fdt[f]
  OBVIOUS
<1>3. Table'
  BY <1>2 DEF Table
<1>4. \A d \in Conns : Gone(d) => Gone(d)'
  BY <1>2, SocketsAssumption DEF Gone
<1>5. ASSUME NEW d \in Conns, s \in Fds, fdt[s] = d PROVE Gone(d)'
  <2>1. link[d] = "accepted" /\ \A f \in Fds : f # s => fdt[f] # d
    BY <1>5, SocketsAssumption DEF Table
  <2> QED
    BY <1>2, <2>1, SocketsAssumption DEF Gone
<1>6. \A d \in Conns : Reachable(d) /\ ~ Reachable(d)' => s \in Fds /\ fdt[s] = d
  BY <1>2 DEF Reachable
<1> QED
  BY <1>1, <1>2, <1>3, <1>4, <1>5, <1>6

\* A client's step closes nothing.
LEMMA ClientTable ==
  ASSUME SocketsType, Table, NEW c \in Conns, ClientStep(c)
  PROVE  /\ SocketsType' /\ Table' /\ fdt' = fdt /\ replied' = replied
         /\ \A d \in Conns : Gone(d) <=> Gone(d)'
         /\ \A d \in Conns : Reachable(d) => Reachable(d)'
         /\ \A d \in Conns : peer[d] # "open" => peer'[d] # "open"
         /\ \A d \in Conns : peer[d] = "rst" => peer'[d] = "rst"
         /\ \A d \in Conns : \/ inbox'[d] = inbox[d] /\ sent'[d] = sent[d]
                             \/ /\ inbox'[d] = Append(inbox[d], <<d, sent[d] + 1>>)
                                /\ sent'[d] = sent[d] + 1
<1>1. SocketsType' /\ fdt' = fdt /\ replied' = replied
  <2> USE DEF SocketsType, Request
  <2>1. CASE Connect(c) /\ UNCHANGED fdt
    BY <2>1 DEF Connect
  <2>2. CASE Send(c) /\ UNCHANGED fdt
    <3>1. <<c, sent[c] + 1>> \in Conns \X Nat
      OBVIOUS
    <3>2. Append(inbox[c], <<c, sent[c] + 1>>) \in Seq(Conns \X Nat)
      BY <3>1
    <3> QED
      BY <2>2, <3>2 DEF Send
  <2>3. CASE Finish(c) /\ UNCHANGED fdt
    BY <2>3 DEF Finish
  <2>4. CASE Reset(c) /\ UNCHANGED fdt
    BY <2>4 DEF Reset
  <2> QED
    BY <2>1, <2>2, <2>3, <2>4 DEF ClientStep
<1>2. /\ \A d \in Conns : link[d] = "accepted" <=> link'[d] = "accepted"
      /\ \A d \in Conns : link[d] = "backlog" => link'[d] = "backlog"
  BY DEF ClientStep, Connect, Send, Finish, Reset, SocketsType
<1>3. /\ \A d \in Conns : peer[d] # "open" => peer'[d] # "open"
      /\ \A d \in Conns : peer[d] = "rst" => peer'[d] = "rst"
  BY DEF ClientStep, Connect, Send, Finish, Reset, SocketsType
<1>4. \A d \in Conns : \/ inbox'[d] = inbox[d] /\ sent'[d] = sent[d]
                       \/ /\ inbox'[d] = Append(inbox[d], <<d, sent[d] + 1>>)
                          /\ sent'[d] = sent[d] + 1
  BY DEF ClientStep, Connect, Send, Finish, Reset, SocketsType
<1>5. Table'
  BY <1>1, <1>2 DEF Table, SocketsType
<1>6. /\ \A d \in Conns : Gone(d) <=> Gone(d)'
      /\ \A d \in Conns : Reachable(d) => Reachable(d)'
  BY <1>1, <1>2 DEF Gone, Reachable
<1> QED
  BY <1>1, <1>3, <1>4, <1>5, <1>6

(***************************************************************************)
(* What a step leaves of the invariant.                                    *)
(***************************************************************************)
Statuses == {"starting", "running", "exited", "crashed", "sigpipe", "overflow", "terminated", "ended"}
PollFd   == [fd : Fds \cup {FirstFd - 1}, events : {"R", "W"},
             revents : {"0", "IN", "OUT", "HUP", "NVAL"}, owed : Seq(Request)]
Buffers  == <<taken, input, output>>

\* Nothing of client d moves.
Same(d) ==
  /\ inbox'[d] = inbox[d] /\ replied'[d] = replied[d] /\ sent'[d] = sent[d]
  /\ Outgoing(d)' = Outgoing(d) /\ Incoming(d)' = Incoming(d)

\* What OnlyLeaversClosed says of a step.
LeaversStep ==
  \A c \in Conns :
    Reachable(c) /\ ~ Reachable(c)' =>
      \/ peer[c] # "open"
      \/ server = "poll" /\ P!Twins(c)
      \/ Blocking /\ inbox[c] = << >> /\ \E p \in Fds : fdt[p] = c /\ ~ more[p]
      \/ Blocking /\ link[c] = "backlog" /\ up' # up

\* Descriptors are positive, so the listening socket's is none of a client.
LEMMA FdsAreNat == Fds \subseteq Nat /\ FirstFd - 1 \notin Fds /\ FirstFd \in Fds
BY SocketsAssumption, SmallServersAssumption DEF Fds

\* The order is kept when each client's requests stay or move in order.
LEMMA InOrderKept ==
  ASSUME InOrder, server' = server,
         \A d \in Conns : peer[d] = "rst" => peer'[d] = "rst",
         \A d \in Conns : Gone(d) => Gone(d)',
         \A d \in Conns : \/ Same(d)
                          \/ Numbered(d, 0, replied'[d]) /\ (Intact(d)' => Chain(d)')
  PROVE  InOrder'
<1> SUFFICES ASSUME server # "poll", NEW d \in Conns
             PROVE  Numbered(d, 0, replied'[d]) /\ (Intact(d)' => Chain(d)')
  BY DEF InOrder, Numbered
<1>1. CASE Same(d)
  <2>1. Numbered(d, 0, replied'[d])
    BY <1>1 DEF InOrder, Same
  <2>2. ASSUME Intact(d)' PROVE Chain(d)'
    <3>1. Intact(d)
      BY <2>2 DEF Intact
    <3>2. Chain(d)
      BY <3>1 DEF InOrder
    <3> QED
      BY <1>1, <3>2 DEF Chain, Same, Linked, Numbered
  <2> QED
    BY <2>1, <2>2
<1> QED
  BY <1>1

\* The buffers of the servers do not change.
LEMMA BuffersKept ==
  ASSUME server' = server, UNCHANGED Buffers, NEW d \in Conns
  PROVE  Outgoing(d)' = Outgoing(d) /\ Incoming(d)' = Incoming(d)
BY DEF Buffers, Outgoing, Incoming

\* A step of the server's own state.
LEMMA StillKept ==
  ASSUME SmallInv, server' = server, UNCHANGED Buffers, UNCHANGED <<env, fdt>>
  PROVE  SocketsType' /\ Table' /\ InOrder' /\ LeaversStep
<1>1. /\ link' = link /\ peer' = peer /\ sent' = sent /\ inbox' = inbox /\ replied' = replied
      /\ fdt' = fdt
  BY DEF env
<1>2. SocketsType'
  BY <1>1 DEF SmallInv, StateTypes, SocketsType
<1>3. Table'
  BY <1>1 DEF SmallInv, Table
<1>4. \A d \in Conns : (Gone(d) => Gone(d)') /\ (Reachable(d) => Reachable(d)')
  BY <1>1 DEF Gone, Reachable
<1>5. \A d \in Conns : Same(d)
  BY <1>1, BuffersKept DEF Same
<1>6. InOrder'
  BY <1>1, <1>4, <1>5, InOrderKept DEF SmallInv
<1> QED
  BY <1>2, <1>3, <1>4, <1>6 DEF LeaversStep

\* accept().
LEMMA AcceptKept ==
  ASSUME SmallInv, server' = server, UNCHANGED Buffers,
         NEW c \in Conns, NEW s \in Fds, link[c] = "backlog", fdt[s] = NoConn,
         link' = [link EXCEPT ![c] = "accepted"], fdt' = [fdt EXCEPT ![s] = c],
         peer' = peer, sent' = sent, inbox' = inbox, replied' = replied
  PROVE  /\ SocketsType' /\ Table' /\ InOrder' /\ LeaversStep /\ fdt'[s] = c
         /\ \A f \in Fds : fdt[f] # NoConn => fdt'[f] = fdt[f]
<1>1. /\ SocketsType' /\ Table' /\ fdt'[s] = c
      /\ \A f \in Fds : fdt[f] # NoConn => fdt'[f] = fdt[f]
      /\ \A d \in Conns : Gone(d) => Gone(d)'
      /\ \A d \in Conns : Reachable(d) => Reachable(d)'
  BY AcceptTable DEF SmallInv, StateTypes
<1>2. \A d \in Conns : Same(d)
  BY BuffersKept DEF Same
<1>3. InOrder'
  BY <1>1, <1>2, InOrderKept DEF SmallInv
<1> QED
  BY <1>1, <1>3 DEF LeaversStep

\* close().
LEMMA CloseKept ==
  ASSUME SmallInv, server' = server, UNCHANGED Buffers, UNCHANGED env, NEW s,
         fdt' = [f \in Fds |-> IF f = s THEN NoConn ELSE fdt[f]]
  PROVE  /\ SocketsType' /\ Table' /\ InOrder'
         /\ \A f \in Fds : f # s => fdt'[f] = fdt[f]
         /\ s \in Fds => fdt'[s] = NoConn
         /\ \A d \in Conns : Reachable(d) /\ ~ Reachable(d)' => s \in Fds /\ fdt[s] = d
<1>1. /\ link' = link /\ peer' = peer /\ sent' = sent /\ inbox' = inbox /\ replied' = replied
  BY DEF env
<1>2. /\ fdt' \in [Fds -> Conns \cup {NoConn}] /\ Table'
      /\ \A f \in Fds : f # s => fdt'[f] = fdt[f]
      /\ s \in Fds => fdt'[s] = NoConn
      /\ \A d \in Conns : Gone(d) => Gone(d)'
      /\ \A d \in Conns : Reachable(d) /\ ~ Reachable(d)' => s \in Fds /\ fdt[s] = d
  BY <1>1, CloseTable DEF SmallInv, StateTypes
<1>3. SocketsType'
  BY <1>1, <1>2 DEF SmallInv, StateTypes, SocketsType
<1>4. \A d \in Conns : Same(d)
  BY <1>1, BuffersKept DEF Same
<1>5. InOrder'
  BY <1>1, <1>2, <1>4, InOrderKept DEF SmallInv
<1> QED
  BY <1>2, <1>3, <1>5

\* Requests are read and answered at once, or their answer is lost with the
\* connection.
LEMMA ServeKept ==
  ASSUME SmallInv, server' = server, server \in {"select", "simple", "prefork"},
         NEW c \in Conns, ~ Gone(c), NEW k \in 1 .. Len(inbox[c]),
         inbox' = [inbox EXCEPT ![c] = SubSeq(@, k + 1, Len(@))],
         link' = link, peer' = peer, sent' = sent,
         \/ /\ peer[c] # "rst"
            /\ replied' = [replied EXCEPT ![c] = @ \o SubSeq(inbox[c], 1, k)]
         \/ peer[c] = "rst" /\ replied' = replied,
         \A d \in Conns : Gone(d) => Gone(d)',
         fdt' \in [Fds -> Conns \cup {NoConn}]
  PROVE  SocketsType' /\ InOrder'
<1>1. /\ inbox \in [Conns -> Seq(Request)] /\ replied \in [Conns -> Seq(Request)]
      /\ sent \in [Conns -> Nat] /\ inbox[c] \in Seq(Request) /\ replied[c] \in Seq(Request)
      /\ sent[c] \in Nat
  BY DEF SmallInv, StateTypes, SocketsType
<1>2. \A d \in Conns : Outgoing(d) = << >> /\ Incoming(d) = << >>
                       /\ Outgoing(d)' = << >> /\ Incoming(d)' = << >>
  BY DEF Outgoing, Incoming
<1>3. /\ inbox'[c] = SubSeq(inbox[c], k + 1, Len(inbox[c])) /\ inbox'[c] \in Seq(Request)
      /\ SubSeq(inbox[c], 1, k) \in Seq(Request)
  BY <1>1, CutNumbered
<1>4. /\ inbox' \in [Conns -> Seq(Request)]
      /\ \A d \in Conns : d # c => inbox'[d] = inbox[d]
  BY <1>1, <1>3
<1>5. /\ replied' \in [Conns -> Seq(Request)]
      /\ \A d \in Conns : d # c => replied'[d] = replied[d]
  <2>1. replied[c] \o SubSeq(inbox[c], 1, k) \in Seq(Request)
    BY <1>1, <1>3, ConcatProperties
  <2> QED
    BY <1>1, <2>1
<1>6. SocketsType'
  BY <1>4, <1>5 DEF SmallInv, StateTypes, SocketsType
<1>7. \A d \in Conns : d # c => Same(d)
  BY <1>2, <1>4, <1>5 DEF Same
<1>8. Numbered(c, 0, replied'[c]) /\ (Intact(c)' => Chain(c)')
  <2>1. CASE peer[c] = "rst"
    BY <2>1 DEF SmallInv, InOrder, Intact
  <2>2. CASE peer[c] # "rst"
    <3>1. Linked(c, replied[c], << >>, << >>, inbox[c], sent[c])
      BY <1>2, <2>2 DEF SmallInv, InOrder, Intact, Chain
    <3>2. /\ << >> \o SubSeq(inbox[c], 1, k) \in Seq(Request)
          /\ Linked(c, replied[c], << >> \o SubSeq(inbox[c], 1, k), << >>, inbox'[c], sent[c])
      BY <1>1, <1>3, <3>1, LinkedRead, EmptySeq
    <3>3. << >> \o SubSeq(inbox[c], 1, k) = SubSeq(inbox[c], 1, k)
      BY <1>3, ConcatEmptySeq
    <3>4. Linked(c, replied[c] \o SubSeq(inbox[c], 1, k), << >>, << >>, inbox'[c], sent[c])
      BY <1>1, <1>3, <3>2, <3>3, LinkedWrite, EmptySeq
    <3>5. replied'[c] = replied[c] \o SubSeq(inbox[c], 1, k)
      BY <1>1, <2>2
    <3> QED
      BY <1>2, <3>4, <3>5 DEF Chain, Linked, Numbered
  <2> QED
    BY <2>1, <2>2
<1>9. InOrder'
  BY <1>7, <1>8, InOrderKept DEF SmallInv
<1> QED
  BY <1>6, <1>9

\* The types of the poll() server's state.
LEMMA PollTypes ==
  ASSUME SmallInv
  PROVE  /\ SocketsType /\ status \in Statuses /\ fds \in Seq(PollFd)
         /\ Len(fds) \in Nat /\ Len(fds) <= POLL_SIZE /\ POLL_SIZE \in Nat
         /\ DOMAIN fds = 1 .. Len(fds) /\ i \in Nat \ {0} /\ i \in 1 .. (POLL_SIZE + 1)
         /\ i <= Len(fds) => i \in DOMAIN fds /\ i + 1 \in 1 .. (POLL_SIZE + 1)
         /\ \A k \in DOMAIN fds : fds[k] \in PollFd
<1>1. /\ SocketsType /\ status \in Statuses /\ fds \in Seq(PollFd) /\ i \in 1 .. (POLL_SIZE + 1)
      /\ Len(fds) <= POLL_SIZE
  BY DEF SmallInv, StateTypes, Statuses, PollFd, BufferTypes
<1>2. Len(fds) \in Nat /\ DOMAIN fds = 1 .. Len(fds) /\ \A k \in DOMAIN fds : fds[k] \in PollFd
  BY <1>1
<1> DEFINE n == Len(fds)
<1> HIDE DEF n
<1>3. n \in Nat /\ n <= POLL_SIZE
  BY <1>1, <1>2 DEF n
<1>4. i \in Nat \ {0} /\ POLL_SIZE \in Nat
      /\ (i <= n => i \in 1 .. n /\ i + 1 \in 1 .. (POLL_SIZE + 1))
  BY <1>1, <1>3, SmallServersAssumption
<1> QED
  BY <1>1, <1>2, <1>4 DEF n

\* The answers owed stay in order when all moves but those of c stay as they are:
\* nobody else comes to be watched, or to be owed anything.
LEMMA PollOrderKept ==
  ASSUME PollOrder, server = "poll", server' = server, status # "overflow", NEW c,
         \A k \in DOMAIN fds : k \in DOMAIN fds' /\ fds'[k].fd = fds[k].fd,
         \A d \in Conns : d # c =>
           /\ \A k \in DOMAIN fds' : Watches(k, d)' => k \in DOMAIN fds /\ Watches(k, d)
           /\ \A k \in DOMAIN fds : Watches(k, d) => fds'[k].owed = fds[k].owed
           /\ inbox'[d] = inbox[d] /\ replied'[d] = replied[d] /\ sent'[d] = sent[d]
           /\ peer[d] = "rst" => peer'[d] = "rst"
           /\ (\A k \in DOMAIN fds : Watches(k, d) => Watches(k, d)') \/ Gone(d)'
           /\ Gone(d) => Gone(d)',
         c \in Conns => (Simple(c)' => Slotted(c)')
  PROVE  PollOrder'
<1> SUFFICES ASSUME NEW d \in Conns, Simple(d)' PROVE Slotted(d)'
  BY DEF PollOrder
<1>1. CASE d = c
  BY <1>1
<1>2. CASE d # c
  <2>1. /\ \A k \in DOMAIN fds' : Watches(k, d)' => k \in DOMAIN fds /\ Watches(k, d)
        /\ \A k \in DOMAIN fds : Watches(k, d) => fds'[k].owed = fds[k].owed
        /\ inbox'[d] = inbox[d] /\ replied'[d] = replied[d] /\ sent'[d] = sent[d]
        /\ \A k \in DOMAIN fds : Watches(k, d) => Watches(k, d)'
    BY <1>2 DEF Simple
  <2>2. peer[d] # "rst" /\ ~ Gone(d)
    BY <1>2 DEF Simple
  <2>3. ~ P!Twins(d)
    <3>1. ASSUME NEW j \in DOMAIN fds, NEW k \in DOMAIN fds, j # k, fds[j].fd = fds[k].fd,
                 Watches(j, d)
          PROVE  FALSE
      <4>1. j \in DOMAIN fds' /\ k \in DOMAIN fds' /\ fds'[j].fd = fds'[k].fd /\ Watches(j, d)'
        BY <2>1, <3>1
      <4> QED
        BY <3>1, <4>1 DEF Simple, P!Twins, Watches
    <3> QED
      BY <3>1 DEF P!Twins, Watches
  <2>4. Slotted(d)
    BY <2>2, <2>3 DEF PollOrder, Simple
  <2>5. ASSUME \A k \in DOMAIN fds' : ~ Watches(k, d)'
        PROVE  Linked(d, replied'[d], << >>, << >>, inbox'[d], sent'[d])
    <3>1. \A k \in DOMAIN fds : ~ Watches(k, d)
      BY <2>1, <2>5
    <3>2. Linked(d, replied[d], << >>, << >>, inbox[d], sent[d])
      BY <2>4, <3>1 DEF Slotted
    <3> QED
      BY <2>1, <3>2
  <2>6. ASSUME NEW k \in DOMAIN fds', Watches(k, d)'
        PROVE  Linked(d, replied'[d], fds'[k].owed, << >>, inbox'[d], sent'[d])
    <3>1. k \in DOMAIN fds /\ Watches(k, d) /\ fds'[k].owed = fds[k].owed
      BY <2>1, <2>6
    <3>2. Linked(d, replied[d], fds[k].owed, << >>, inbox[d], sent[d])
      BY <2>4, <3>1 DEF Slotted
    <3> QED
      BY <2>1, <3>1, <3>2
  <2> QED
    BY <2>5, <2>6 DEF Slotted, Linked, Numbered
<1> QED
  BY <1>1, <1>2

\* Nothing but events and revents of the slots changes.
LEMMA PollOrderStill ==
  ASSUME PollOrder, server = "poll", server' = server, status # "overflow",
         DOMAIN fds' = DOMAIN fds, UNCHANGED <<env, fdt>>,
         \A k \in DOMAIN fds : fds'[k].fd = fds[k].fd /\ fds'[k].owed = fds[k].owed
  PROVE  PollOrder'
<1>1. link' = link /\ peer' = peer /\ sent' = sent /\ inbox' = inbox /\ replied' = replied
      /\ fdt' = fdt
  BY DEF env
<1>2. \A d \in Conns, k \in DOMAIN fds : Watches(k, d)' <=> Watches(k, d)
  BY <1>1 DEF Watches, P!SocketAt
<1>3. \A d \in Conns : Gone(d)' <=> Gone(d)
  BY <1>1 DEF Gone
<1>4. NoConn \notin Conns
  BY SocketsAssumption
<1> QED
  BY <1>1, <1>2, <1>3, <1>4, PollOrderKept

\* A client's step.
LEMMA ClientKept ==
  ASSUME SmallInv, NEW c \in Conns, Client(c), BlockingFrame, UNCHANGED blockVars
  PROVE  SmallInv' /\ LeaversStep
<1>1. /\ ClientStep(c) /\ server' = server /\ status' = status /\ up' = up
      /\ selectClients' = selectClients /\ readset' = readset /\ it' = it
      /\ fds' = fds /\ pollPc' = pollPc /\ i' = i
      /\ clients' = clients /\ at' = at
      /\ input' = input /\ output' = output /\ reads' = reads
      /\ op' = op /\ taken' = taken
  BY DEF Client, BlockingFrame, blockVars, selectVars, pollVars, multiVars, libeventVars, asioVars
<1>2. /\ SocketsType' /\ Table' /\ fdt' = fdt /\ replied' = replied
      /\ \A d \in Conns : Gone(d) <=> Gone(d)'
      /\ \A d \in Conns : Reachable(d) => Reachable(d)'
      /\ \A d \in Conns : peer[d] # "open" => peer'[d] # "open"
      /\ \A d \in Conns : peer[d] = "rst" => peer'[d] = "rst"
      /\ \A d \in Conns : \/ inbox'[d] = inbox[d] /\ sent'[d] = sent[d]
                          \/ /\ inbox'[d] = Append(inbox[d], <<d, sent[d] + 1>>)
                             /\ sent'[d] = sent[d] + 1
  BY <1>1, ClientTable DEF SmallInv, StateTypes
<1>3. StateTypes'
  BY <1>1, <1>2 DEF SmallInv, StateTypes
<1>4. BufferTypes'
  BY <1>1 DEF SmallInv, BufferTypes
<1>5. \A d \in Conns : Outgoing(d)' = Outgoing(d) /\ Incoming(d)' = Incoming(d)
  BY <1>1, BuffersKept DEF Buffers
<1>6. ASSUME NEW d \in Conns, server # "poll"
      PROVE  \/ Same(d)
             \/ Numbered(d, 0, replied'[d]) /\ (Intact(d)' => Chain(d)')
  <2>1. CASE inbox'[d] = inbox[d] /\ sent'[d] = sent[d]
    BY <1>2, <1>5, <2>1 DEF Same
  <2>2. CASE /\ inbox'[d] = Append(inbox[d], <<d, sent[d] + 1>>)
             /\ sent'[d] = sent[d] + 1
    <3>1. Numbered(d, 0, replied'[d])
      BY <1>2, <1>6 DEF SmallInv, InOrder
    <3>2. ASSUME Intact(d)' PROVE Chain(d)'
      <4>1. Intact(d)
        BY <1>1, <1>2, <3>2 DEF Intact
      <4>2. Linked(d, replied[d], Outgoing(d), Incoming(d), inbox[d], sent[d])
        BY <1>6, <4>1 DEF SmallInv, InOrder, Chain
      <4>3. /\ replied[d] \in Seq(Request) /\ inbox[d] \in Seq(Request) /\ sent[d] \in Nat
            /\ Outgoing(d) \in Seq(Request) /\ Incoming(d) \in Seq(Request)
        BY EmptySeq DEF SmallInv, StateTypes, SocketsType, BufferTypes, Outgoing, Incoming
      <4>4. Linked(d, replied[d], Outgoing(d), Incoming(d),
                   Append(inbox[d], <<d, sent[d] + 1>>), sent[d] + 1)
        BY <4>2, <4>3, LinkedSend
      <4>5. Linked(d, replied'[d], Outgoing(d)', Incoming(d)', inbox'[d], sent'[d])
        BY <1>2, <1>5, <2>2, <4>4
      <4> QED
        BY <4>5 DEF Chain, Linked, Numbered
    <3> QED
      BY <3>1, <3>2
  <2> QED
    BY <1>2, <2>1, <2>2
<1>7. InOrder'
  <2>1. CASE server = "poll"
    BY <1>1, <2>1 DEF InOrder
  <2>2. CASE server # "poll"
    BY <1>1, <1>2, <1>6, <2>2, InOrderKept DEF SmallInv
  <2> QED
    BY <2>1, <2>2
<1>8. VisitsOpen'
  BY <1>1, <1>2 DEF SmallInv, VisitsOpen
<1>9. PollReady'
  <2>1. \A d \in Conns : inbox[d] # << >> => inbox'[d] # << >>
    BY <1>2 DEF SmallInv, StateTypes, SocketsType, Request
  <2>2. \A f \in Fds : fdt[f] # NoConn => fdt[f] \in Conns
    BY DEF SmallInv, StateTypes, SocketsType
  <2> QED
    BY <1>1, <1>2, <2>1, <2>2 DEF SmallInv, PollReady
<1>10. AsioChains'
  BY <1>1, <1>2 DEF SmallInv, AsioChains
<1>11. PollOrder'
  <2> SUFFICES ASSUME server = "poll", status # "overflow", NEW d \in Conns, Simple(d)'
               PROVE  Slotted(d)'
    BY <1>1 DEF PollOrder
  <2>1. \A k \in DOMAIN fds : Watches(k, d)' <=> Watches(k, d)
    BY <1>1, <1>2 DEF Watches, P!SocketAt
  <2>2. Simple(d)
    BY <1>1, <1>2 DEF Simple, P!Twins, P!SocketAt
  <2>3. Slotted(d)
    BY <2>2 DEF SmallInv, PollOrder
  <2>4. /\ replied[d] \in Seq(Request) /\ inbox[d] \in Seq(Request) /\ sent[d] \in Nat
        /\ \A k \in DOMAIN fds : fds[k].owed \in Seq(Request)
    BY PollTypes DEF SocketsType, PollFd
  <2>5. ASSUME NEW o \in Seq(Request), Linked(d, replied[d], o, << >>, inbox[d], sent[d])
        PROVE  Linked(d, replied'[d], o, << >>, inbox'[d], sent'[d])
    <3>1. CASE inbox'[d] = inbox[d] /\ sent'[d] = sent[d]
      BY <1>2, <2>5, <3>1
    <3>2. CASE /\ inbox'[d] = Append(inbox[d], <<d, sent[d] + 1>>)
               /\ sent'[d] = sent[d] + 1
      <4>1. Linked(d, replied[d], o, << >>, Append(inbox[d], <<d, sent[d] + 1>>), sent[d] + 1)
        BY <2>4, <2>5, LinkedSend, EmptySeq
      <4> QED
        BY <1>2, <3>2, <4>1
    <3> QED
      BY <1>2, <3>1, <3>2
  <2> QED
    BY <1>1, <2>1, <2>3, <2>4, <2>5, EmptySeq DEF Slotted
<1> QED
  BY <1>2, <1>3, <1>4, <1>7, <1>8, <1>9, <1>10, <1>11 DEF SmallInv, LeaversStep

(***************************************************************************)
(* The select() server.                                                    *)
(***************************************************************************)
\* The rest of the invariant after a step of the select() server.
LEMMA SelectRest ==
  ASSUME SmallInv, server = "select", SelectFrame, SocketsType', Table', InOrder',
         status' \in Statuses, selectClients' \subseteq Fds,
         readset' \subseteq Fds \cup {FirstFd - 1}, it' \in Nat,
         \A s \in selectClients' : fdt'[s] # NoConn
  PROVE  SmallInv'
<1>1. /\ server' = server /\ up' = up /\ fds' = fds /\ i' = i
      /\ clients' = clients /\ at' = at /\ op' = op /\ taken' = taken
      /\ input' = input /\ output' = output /\ reads' = reads
  BY DEF SelectFrame, blockVars, pollVars, multiVars, libeventVars, asioVars
<1>2. StateTypes'
  BY <1>1 DEF SmallInv, StateTypes, Statuses
<1>3. BufferTypes'
  BY <1>1 DEF SmallInv, BufferTypes
<1>4. VisitsOpen' /\ PollReady' /\ PollOrder' /\ AsioChains'
  BY <1>1 DEF VisitsOpen, PollReady, PollOrder, AsioChains
<1> QED
  BY <1>2, <1>3, <1>4 DEF SmallInv

\* A step of the select() server.
LEMMA SelectKept ==
  ASSUME SmallInv, server = "select", S!Step, SelectFrame
  PROVE  SmallInv' /\ LeaversStep
<1>1. server' = server /\ UNCHANGED Buffers
  BY DEF SelectFrame, blockVars, pollVars, multiVars, libeventVars, asioVars, Buffers
<1>2. /\ SocketsType /\ status \in Statuses /\ selectClients \subseteq Fds
      /\ readset \subseteq Fds \cup {FirstFd - 1} /\ it \in Nat
      /\ \A s \in selectClients : fdt[s] \in Conns
  BY DEF SmallInv, StateTypes, VisitsOpen, Statuses, SocketsType
<1>3. CASE /\ UNCHANGED <<env, fdt, selectClients>> /\ status' \in Statuses
           /\ readset' \subseteq Fds \cup {FirstFd - 1} /\ it' \in Nat
  <2>1. SocketsType' /\ Table' /\ InOrder' /\ LeaversStep
    BY <1>1, <1>3, StillKept
  <2>2. \A s \in selectClients' : fdt'[s] # NoConn
    BY <1>2, <1>3, SocketsAssumption
  <2> QED
    BY <1>2, <1>3, <2>1, <2>2, SelectRest
<1>4. CASE S!MakeSocket
  BY <1>2, <1>3, <1>4 DEF S!MakeSocket, S!local, S!env, env, Statuses
<1>5. CASE S!Select
  <2>1. /\ UNCHANGED <<env, fdt, status, selectClients, it>>
        /\ readset' \subseteq selectClients \cup {FirstFd - 1}
    BY <1>5 DEF S!Select, S!env, env, S!Listener
  <2> QED
    BY <1>2, <1>3, <2>1
<1>6. CASE S!SelectTimeout
  BY <1>2, <1>3, <1>6 DEF S!SelectTimeout, S!local, S!env, env, Statuses
<1>7. CASE S!Accept
  <2>1. it' = 0 /\ readset' = readset
    BY <1>7 DEF S!Accept
  <2>2. CASE UNCHANGED <<env, fdt, status, selectClients>>
    BY <1>2, <1>3, <2>1, <2>2
  <2>3. CASE UNCHANGED <<env, fdt, selectClients>> /\ status' = "exited"
    BY <1>2, <1>3, <2>1, <2>3 DEF Statuses
  <2>4. ASSUME NEW c \in Conns, NEW s \in Fds, S!AcceptAs(c, s),
               selectClients' = selectClients \cup {s}, UNCHANGED status
        PROVE  SmallInv' /\ LeaversStep
    <3>1. /\ link[c] = "backlog" /\ fdt[s] = NoConn
          /\ link' = [link EXCEPT ![c] = "accepted"] /\ fdt' = [fdt EXCEPT ![s] = c]
          /\ peer' = peer /\ sent' = sent /\ inbox' = inbox /\ replied' = replied
      BY <2>4 DEF S!AcceptAs
    <3>2. /\ SocketsType' /\ Table' /\ InOrder' /\ LeaversStep /\ fdt'[s] = c
          /\ \A f \in Fds : fdt[f] # NoConn => fdt'[f] = fdt[f]
      BY <1>1, <3>1, AcceptKept
    <3>3. \A f \in selectClients' : fdt'[f] # NoConn
      BY <1>2, <2>4, <3>2, SocketsAssumption
    <3> QED
      BY <1>2, <2>1, <2>4, <3>2, <3>3, SelectRest
  <2> QED
    BY <1>7, <2>2, <2>3, <2>4 DEF S!Accept, S!env, env, S!Fds, Fds
<1>8. CASE S!LoopSkip
  <2>1. PICK s \in selectClients : it' = s /\ UNCHANGED <<env, fdt, status, selectClients, readset>>
    BY <1>8 DEF S!LoopSkip, S!env, env
  <2> QED
    BY <1>2, <1>3, <2>1, FdsAreNat
<1>9. CASE S!LoopServe
  <2>1. PICK s \in selectClients :
          /\ \E k \in 1 .. Len(inbox[fdt[s]]) :
               /\ inbox' = [inbox EXCEPT ![fdt[s]] = SubSeq(@, k + 1, Len(@))]
               /\ \/ S!WriteTo(fdt[s], SubSeq(inbox[fdt[s]], 1, k)) /\ UNCHANGED status
                  \/ peer[fdt[s]] = "rst" /\ status' = "sigpipe" /\ UNCHANGED replied
          /\ it' = s
          /\ UNCHANGED <<link, peer, sent, fdt, selectClients, readset>>
    BY <1>9 DEF S!LoopServe, S!Takes
  <2>2. PICK c \in Conns : c = fdt[s]
    BY <1>2
  <2>3. PICK k \in 1 .. Len(inbox[c]) :
          /\ inbox' = [inbox EXCEPT ![c] = SubSeq(@, k + 1, Len(@))]
          /\ \/ S!WriteTo(c, SubSeq(inbox[c], 1, k)) /\ UNCHANGED status
             \/ peer[c] = "rst" /\ status' = "sigpipe" /\ UNCHANGED replied
    BY <2>1, <2>2
  <2>4. /\ \/ /\ peer[c] # "rst"
              /\ replied' = [replied EXCEPT ![c] = @ \o SubSeq(inbox[c], 1, k)]
           \/ peer[c] = "rst" /\ replied' = replied
        /\ status' \in Statuses
    BY <1>2, <2>2, <2>3, SocketsAssumption DEF S!WriteTo, Statuses
  <2>5. ~ Gone(c) /\ link' = link /\ peer' = peer /\ sent' = sent /\ fdt' = fdt
    BY <1>2, <2>1, <2>2 DEF Gone
  <2>6. \A d \in Conns : (Gone(d) => Gone(d)') /\ (Reachable(d) => Reachable(d)')
    BY <2>5 DEF Gone, Reachable
  <2>7. SocketsType' /\ InOrder'
    BY <1>1, <1>2, <2>3, <2>4, <2>5, <2>6, ServeKept DEF SocketsType
  <2>8. Table'
    BY <2>5 DEF SmallInv, Table
  <2>9. \A f \in selectClients' : fdt'[f] # NoConn
    BY <1>2, <2>1, SocketsAssumption
  <2>10. it' \in Nat
    BY <1>2, <2>1, FdsAreNat
  <2> QED
    BY <1>2, <2>1, <2>4, <2>6, <2>7, <2>8, <2>9, <2>10, SelectRest DEF LeaversStep
<1>10. CASE S!LoopGone
  <2>1. PICK s \in selectClients :
          /\ S!AtEnd(fdt[s])
          /\ fdt' = [f \in Fds |-> IF f = s THEN NoConn ELSE fdt[f]]
          /\ selectClients' = selectClients \ {s}
          /\ \/ it' \in selectClients /\ UNCHANGED status
             \/ status' = "crashed" /\ UNCHANGED it
          /\ UNCHANGED <<env, readset>>
    BY <1>10 DEF S!LoopGone, S!Closed, S!Fds, Fds, S!env, env
  <2>2. /\ SocketsType' /\ Table' /\ InOrder'
        /\ \A f \in Fds : f # s => fdt'[f] = fdt[f]
        /\ \A d \in Conns : Reachable(d) /\ ~ Reachable(d)' => s \in Fds /\ fdt[s] = d
    BY <1>1, <2>1, CloseKept
  <2>3. LeaversStep
    BY <2>1, <2>2 DEF LeaversStep, S!AtEnd
  <2>4. \A f \in selectClients' : fdt'[f] # NoConn
    BY <1>2, <2>1, <2>2, SocketsAssumption
  <2>5. it' \in Nat /\ status' \in Statuses
    BY <1>2, <2>1, FdsAreNat DEF Statuses
  <2> QED
    BY <1>2, <2>1, <2>2, <2>3, <2>4, <2>5, SelectRest
<1>11. CASE S!LoopEnd
  BY <1>2, <1>3, <1>11 DEF S!LoopEnd, S!env, env
<1> QED
  BY <1>4, <1>5, <1>6, <1>7, <1>8, <1>9, <1>10, <1>11 DEF S!Step

(***************************************************************************)
(* The poll() server.                                                      *)
(***************************************************************************)
\* The rest of the invariant after a step of the poll() server.
LEMMA PollRest ==
  ASSUME SmallInv, server = "poll", PollFrame, SocketsType', Table', PollReady', PollOrder',
         status' \in Statuses, fds' \in Seq(PollFd), Len(fds') <= POLL_SIZE,
         i' \in 1 .. (POLL_SIZE + 1)
  PROVE  SmallInv'
<1>1. /\ server' = server /\ up' = up
      /\ selectClients' = selectClients /\ readset' = readset /\ it' = it
      /\ clients' = clients /\ at' = at /\ op' = op /\ taken' = taken
      /\ input' = input /\ output' = output /\ reads' = reads
  BY DEF PollFrame, blockVars, selectVars, multiVars, libeventVars, asioVars
<1>2. StateTypes'
  BY <1>1 DEF SmallInv, StateTypes, Statuses, PollFd
<1>3. BufferTypes'
  BY <1>1 DEF SmallInv, BufferTypes
<1>4. VisitsOpen' /\ AsioChains' /\ InOrder'
  BY <1>1 DEF VisitsOpen, AsioChains, InOrder
<1> QED
  BY <1>2, <1>3, <1>4 DEF SmallInv

\* The loop visits its next slot: of this one the events may have changed.
LEMMA PollVisited ==
  ASSUME SmallInv, server' = server, server = "poll", pollPc' = pollPc, pollPc = "loop",
         status # "overflow",
         fds' \in Seq(PollFd), Len(fds') = Len(fds), i' = i + 1,
         \A k \in DOMAIN fds : fds'[k].fd = fds[k].fd,
         \A k \in DOMAIN fds : k # i => fds'[k] = fds[k],
         fdt' = fdt, inbox' = inbox, peer' = peer
  PROVE  PollReady'
<1>1. DOMAIN fds' = DOMAIN fds
  BY PollTypes
<1>2. \A k \in DOMAIN fds : k >= i + 1 => k >= i /\ k # i
  BY PollTypes
<1> QED
  BY <1>1, <1>2 DEF SmallInv, PollReady

\* The visited slot gets other events.
LEMMA SlotUpdated ==
  ASSUME SmallInv, i \in DOMAIN fds, NEW x \in PollFd, x.fd = fds[i].fd,
         DOMAIN fds' = DOMAIN fds, fds'[i] = x, fds' = [n \in DOMAIN fds |-> fds'[n]],
         \A n \in DOMAIN fds : n # i => fds'[n] = fds[n]
  PROVE  /\ fds' \in Seq(PollFd) /\ Len(fds') = Len(fds) /\ DOMAIN fds' = DOMAIN fds
         /\ \A n \in DOMAIN fds : fds'[n].fd = fds[n].fd
         /\ \A n \in DOMAIN fds : n # i => fds'[n] = fds[n]
<1>1. /\ fds \in Seq(PollFd) /\ DOMAIN fds = 1 .. Len(fds) /\ Len(fds) \in Nat
      /\ \A n \in DOMAIN fds : fds[n] \in PollFd
  BY PollTypes
<1>2. \A n \in 1 .. Len(fds) : fds'[n] \in PollFd
  BY <1>1
<1>3. fds' \in Seq(PollFd) /\ Len(fds') = Len(fds)
  BY <1>1, <1>2
<1>4. \A n \in DOMAIN fds : fds'[n].fd = fds[n].fd
  OBVIOUS
<1> QED
  BY <1>3, <1>4

\* Something moves between the only slot that watches client c, its buffer and its
\* answers.
LEMMA PollOrderMoved ==
  ASSUME SmallInv, server = "poll", server' = server, status # "overflow",
         NEW c \in Conns, i \in DOMAIN fds, fds[i].fd \in Fds, c = fdt[fds[i].fd],
         DOMAIN fds' = DOMAIN fds,
         \A n \in DOMAIN fds : fds'[n].fd = fds[n].fd,
         \A n \in DOMAIN fds : n # i => fds'[n] = fds[n],
         link' = link, fdt' = fdt, peer' = peer, sent' = sent,
         \A d \in Conns : d # c => inbox'[d] = inbox[d] /\ replied'[d] = replied[d],
         Linked(c, replied[c], fds[i].owed, << >>, inbox[c], sent[c]) =>
           Linked(c, replied'[c], fds'[i].owed, << >>, inbox'[c], sent'[c])
  PROVE  PollOrder'
<1>1. \A d \in Conns, k \in DOMAIN fds : Watches(k, d)' <=> Watches(k, d)
  BY DEF Watches, P!SocketAt
<1>2. \A d \in Conns : Gone(d)' <=> Gone(d)
  BY DEF Gone
<1>3. Watches(i, c)
  BY DEF Watches, P!SocketAt, P!Fds, Fds
<1>4. ASSUME Simple(c)' PROVE Slotted(c)'
  <2>1. ~ P!Twins(c)
    BY <1>4 DEF Simple, P!Twins, P!SocketAt
  <2>2. Slotted(c)
    BY <1>2, <1>4, <2>1 DEF SmallInv, PollOrder, Simple
  <2>3. ASSUME NEW k \in DOMAIN fds, Watches(k, c) PROVE k = i
    <3>1. fds[k].fd \in Fds /\ fdt[fds[k].fd] = c
      BY <2>3, SocketsAssumption DEF Watches, P!SocketAt, P!Fds, Fds
    <3>2. fds[k].fd = fds[i].fd
      BY <3>1, SocketsAssumption DEF SmallInv, Table
    <3> QED
      BY <2>1, <2>3, <3>2 DEF P!Twins, Watches
  <2>4. Linked(c, replied'[c], fds'[i].owed, << >>, inbox'[c], sent'[c])
    BY <1>3, <2>2 DEF Slotted
  <2> QED
    BY <1>1, <1>3, <2>3, <2>4 DEF Slotted
<1>5. ASSUME NEW d \in Conns, d # c, NEW k \in DOMAIN fds, Watches(k, d)
      PROVE  fds'[k].owed = fds[k].owed
  BY <1>3, <1>5 DEF Watches
<1> QED
  BY <1>1, <1>2, <1>4, <1>5, PollOrderKept DEF SmallInv

\* A client from the backlog gets a descriptor and slot n.
LEMMA PollOrderNew ==
  ASSUME SmallInv, server = "poll", server' = server, status # "overflow",
         NEW c \in Conns, NEW s \in Fds, link[c] = "backlog", fdt[s] = NoConn,
         link' = [link EXCEPT ![c] = "accepted"], fdt' = [fdt EXCEPT ![s] = c],
         peer' = peer, sent' = sent, inbox' = inbox, replied' = replied,
         NEW n, n \notin DOMAIN fds, n \in DOMAIN fds', fds'[n].fd = s, fds'[n].owed = << >>,
         \A k \in DOMAIN fds : k \in DOMAIN fds' /\ fds'[k] = fds[k],
         \A k \in DOMAIN fds' : k \in DOMAIN fds \/ k = n
  PROVE  PollOrder'
<1>1. SocketsType /\ Table
  BY DEF SmallInv, StateTypes
<1>2. /\ Table' /\ fdt'[s] = c /\ \A d \in Conns : Gone(d) => Gone(d)'
  BY <1>1, AcceptTable
<1>3. \A f \in Fds : f # s => fdt'[f] = fdt[f]
  BY <1>1 DEF SocketsType
<1>4. \A f \in Fds : fdt[f] # c
  BY <1>1, SocketsAssumption DEF Table
<1>5. Watches(n, c)'
  BY <1>2 DEF Watches, P!SocketAt, P!Fds, Fds
<1>6. ASSUME Simple(c)' PROVE Slotted(c)'
  <2>1. \A k \in DOMAIN fds : ~ Watches(k, c)
    BY <1>4, SocketsAssumption DEF Watches, P!SocketAt, P!Fds, Fds
  <2>2. ~ P!Twins(c) /\ ~ Gone(c) /\ peer[c] # "rst"
    BY <1>6, <2>1 DEF P!Twins, Watches, Gone, Simple
  <2>3. Linked(c, replied[c], << >>, << >>, inbox[c], sent[c])
    BY <2>1, <2>2 DEF SmallInv, PollOrder, Simple, Slotted
  <2>4. ASSUME NEW k \in DOMAIN fds', Watches(k, c)' PROVE k = n
    <3>1. fds'[k].fd \in Fds /\ fdt'[fds'[k].fd] = c
      BY <2>4, SocketsAssumption DEF Watches, P!SocketAt, P!Fds, Fds
    <3>2. fds'[k].fd = fds'[n].fd
      BY <1>2, <3>1, SocketsAssumption DEF Table
    <3> QED
      BY <1>6, <2>4, <3>2 DEF Simple, P!Twins, Watches
  <2> QED
    BY <1>5, <2>3, <2>4 DEF Slotted
<1>7. ASSUME NEW d \in Conns, d # c
      PROVE  /\ \A k \in DOMAIN fds' : Watches(k, d)' => k \in DOMAIN fds /\ Watches(k, d)
             /\ \A k \in DOMAIN fds : Watches(k, d) => Watches(k, d)'
  <2>1. ASSUME NEW k \in DOMAIN fds', Watches(k, d)' PROVE k \in DOMAIN fds /\ Watches(k, d)
    <3>1. fds'[k].fd \in Fds /\ fdt'[fds'[k].fd] = d
      BY <2>1, SocketsAssumption DEF Watches, P!SocketAt, P!Fds, Fds
    <3>2. fds'[k].fd # s
      BY <1>2, <1>7, <3>1
    <3>3. k \in DOMAIN fds /\ fds'[k] = fds[k]
      BY <3>2
    <3>4. fds[k].fd \in Fds /\ fdt[fds[k].fd] = d
      BY <1>3, <3>1, <3>2, <3>3
    <3> QED
      BY <3>3, <3>4 DEF Watches, P!SocketAt, P!Fds, Fds
  <2>2. ASSUME NEW k \in DOMAIN fds, Watches(k, d) PROVE Watches(k, d)'
    <3>1. fds[k].fd \in Fds /\ fdt[fds[k].fd] = d /\ fds[k].fd # s
      BY <2>2, SocketsAssumption DEF Watches, P!SocketAt, P!Fds, Fds
    <3>2. fds'[k].fd \in Fds /\ fdt'[fds'[k].fd] = d
      BY <1>3, <3>1
    <3> QED
      BY <3>2 DEF Watches, P!SocketAt, P!Fds, Fds
  <2> QED
    BY <2>1, <2>2
<1> QED
  BY <1>2, <1>6, <1>7, PollOrderKept DEF SmallInv

\* The socket of slot i is closed.
LEMMA PollOrderClosed ==
  ASSUME SmallInv, server = "poll", server' = server, status # "overflow", UNCHANGED env,
         NEW s, fdt' = [f \in Fds |-> IF f = s THEN NoConn ELSE fdt[f]],
         DOMAIN fds' = DOMAIN fds,
         \A k \in DOMAIN fds : fds'[k].fd = fds[k].fd /\ fds'[k].owed = fds[k].owed
  PROVE  PollOrder'
<1>1. link' = link /\ peer' = peer /\ sent' = sent /\ inbox' = inbox /\ replied' = replied
  BY DEF env
<1>2. SocketsType /\ Table
  BY DEF SmallInv, StateTypes
<1>3. /\ \A f \in Fds : f # s => fdt'[f] = fdt[f]
      /\ s \in Fds => fdt'[s] = NoConn
      /\ \A d \in Conns : Gone(d) => Gone(d)'
      /\ \A d \in Conns : s \in Fds /\ fdt[s] = d => Gone(d)'
  BY <1>1, <1>2, CloseTable
<1>4. ASSUME NEW d \in Conns, NEW k \in DOMAIN fds PROVE Watches(k, d)' => Watches(k, d)
  BY <1>3, SocketsAssumption DEF Watches, P!SocketAt, P!Fds, Fds
<1>5. ASSUME NEW d \in Conns, ~ Gone(d)', NEW k \in DOMAIN fds, Watches(k, d) PROVE Watches(k, d)'
  <2>1. fds[k].fd \in Fds /\ fdt[fds[k].fd] = d
    BY <1>5, SocketsAssumption DEF Watches, P!SocketAt, P!Fds, Fds
  <2>2. fds[k].fd # s
    BY <1>3, <1>5, <2>1
  <2>3. fds'[k].fd \in Fds /\ fdt'[fds'[k].fd] = d
    BY <1>3, <2>1, <2>2
  <2> QED
    BY <2>3 DEF Watches, P!SocketAt, P!Fds, Fds
<1>6. NoConn \notin Conns
  BY SocketsAssumption
<1> QED
  BY <1>1, <1>3, <1>4, <1>5, <1>6, PollOrderKept DEF SmallInv

\* What OwnAnswersInOrder says of a step.
AnswersStep ==
  \A c \in Conns : replied'[c] # replied[c] => Own(c)' \/ (server = "poll" /\ P!Twins(c))

\* Numbered requests are a client's own, in order.
LEMMA NumberedIsOwn ==
  ASSUME NEW c \in Conns, NEW q \in Seq(Request), Numbered(c, 0, q)
  PROVE  q = [n \in 1 .. Len(q) |-> <<c, n>>]
<1>1. DOMAIN q = 1 .. Len(q) /\ q = [n \in 1 .. Len(q) |-> q[n]]
  OBVIOUS
<1>2. \A n \in 1 .. Len(q) : 0 + n = n
  OBVIOUS
<1>3. \A n \in 1 .. Len(q) : q[n] = <<c, n>>
  BY <1>1, <1>2 DEF Numbered
<1> QED
  BY <1>1, <1>3

\* A step of the poll() server.
LEMMA PollKept ==
  ASSUME SmallInv, server = "poll", P!Step, PollFrame
  PROVE  SmallInv' /\ LeaversStep /\ AnswersStep
<1>1. /\ server' = server /\ taken' = taken /\ input' = input /\ output' = output
      /\ status = "running" => status # "overflow"
      /\ status = "starting" => status # "overflow"
  BY DEF PollFrame, selectVars, multiVars, libeventVars, asioVars
<1>2. PollOrder
  BY DEF SmallInv
<1>3. CASE P!MakeSocket
  <2>1. /\ UNCHANGED <<env, fdt>> /\ fds' = fds /\ pollPc' = pollPc /\ i' = i
        /\ status = "starting" /\ status' \in Statuses
    BY <1>3 DEF P!MakeSocket, P!env, env, P!local, Statuses
  <2>2. SocketsType' /\ Table' /\ LeaversStep
    BY <1>1, <2>1, StillKept DEF Buffers
  <2>3. PollReady' /\ AnswersStep
    BY <1>1, <2>1 DEF SmallInv, PollReady, env, AnswersStep
  <2>4. PollOrder'
    BY <1>1, <1>2, <2>1, PollOrderStill
  <2> QED
    BY <2>1, <2>2, <2>3, <2>4, PollTypes, PollRest
<1>4. CASE status = "running" /\ P!Poll
  <2>1. /\ UNCHANGED <<env, fdt>> /\ status' = status /\ i' = 1
        /\ fds' = [k \in DOMAIN fds |-> [fds[k] EXCEPT !.revents = P!Revents(fds[k])]]
    BY <1>4 DEF P!Poll, P!env, env
  <2>2. SocketsType' /\ Table' /\ LeaversStep /\ AnswersStep
    BY <1>1, <2>1, StillKept DEF Buffers, AnswersStep, env
  <2>3. \A k \in DOMAIN fds : P!Revents(fds[k]) \in {"0", "IN", "OUT", "HUP", "NVAL"}
    BY DEF P!Revents, P!PollEvents
  <2>4. DOMAIN fds' = DOMAIN fds /\ \A k \in DOMAIN fds : /\ fds'[k] \in PollFd
                                                          /\ fds'[k].fd = fds[k].fd
                                                          /\ fds'[k].owed = fds[k].owed
                                                          /\ fds'[k].revents = P!Revents(fds[k])
    BY <2>1, <2>3, PollTypes DEF PollFd
  <2>5. fds' \in Seq(PollFd) /\ Len(fds') = Len(fds)
    <3>1. fds' = [k \in 1 .. Len(fds) |-> fds'[k]]
      BY <2>1, PollTypes
    <3>2. \A k \in 1 .. Len(fds) : fds'[k] \in PollFd
      BY <2>4, PollTypes
    <3> QED
      BY <3>1, <3>2, PollTypes
  <2>6. PollReady'
    <3> SUFFICES ASSUME NEW k \in DOMAIN fds, fds'[k].revents = "IN", fds[k].fd \in Fds,
                        fdt[fds[k].fd] # NoConn
                 PROVE  inbox[fdt[fds[k].fd]] # << >> \/ peer[fdt[fds[k].fd]] # "open"
      BY <2>1, <2>4 DEF PollReady, env
    <3>1. P!Revents(fds[k]) = P!PollEvents(fds[k].fd, fds[k].events)
      BY FdsAreNat DEF P!Revents, P!Listener
    <3> QED
      BY <2>4, <3>1 DEF P!PollEvents, P!Fds, Fds
  <2>7. 1 \in 1 .. (POLL_SIZE + 1)
    BY PollTypes
  <2>8. PollOrder'
    BY <1>1, <1>2, <1>4, <2>1, <2>4, PollOrderStill
  <2> QED
    BY <2>1, <2>2, <2>5, <2>6, <2>7, <2>8, PollTypes, PollRest
<1>5. CASE status = "running" /\ P!LoopSkip
  <2>1. /\ UNCHANGED <<env, fdt>> /\ status' = status /\ i' = i + 1
        /\ fds' = fds /\ pollPc' = pollPc /\ pollPc = "loop" /\ i <= Len(fds)
    BY <1>5 DEF P!LoopSkip, P!env, env, P!Iterates
  <2>2. SocketsType' /\ Table' /\ LeaversStep /\ AnswersStep
    BY <1>1, <2>1, StillKept DEF Buffers, AnswersStep, env
  <2>3. PollReady'
    BY <1>1, <1>5, <2>1, PollTypes, PollVisited DEF env
  <2>4. PollOrder'
    BY <1>1, <1>2, <1>5, <2>1, PollOrderStill
  <2> QED
    BY <2>1, <2>2, <2>3, <2>4, PollTypes, PollRest
<1>6. CASE status = "running" /\ P!LoopAccept
  <2>1. /\ i' = i + 1 /\ pollPc' = pollPc /\ pollPc = "loop" /\ i <= Len(fds)
    BY <1>6 DEF P!LoopAccept, P!Iterates
  <2>2. CASE status' = "exited" /\ UNCHANGED <<env, fdt, fds>>
    <3>1. SocketsType' /\ Table' /\ LeaversStep /\ AnswersStep
      BY <1>1, <2>1, <2>2, StillKept DEF Buffers, AnswersStep, env
    <3>2. PollReady'
      BY <1>1, <1>6, <2>1, <2>2, PollTypes, PollVisited DEF env
    <3>3. PollOrder'
      BY <1>1, <1>2, <1>6, <2>2, PollOrderStill
    <3> QED
      BY <2>1, <2>2, <3>1, <3>2, <3>3, PollTypes, PollRest DEF Statuses
  <2>3. ASSUME NEW c \in Conns, NEW s \in Fds, P!AcceptAs(c, s),
               IF Len(fds) < POLL_SIZE THEN fds' = Append(fds, P!NewSlot(s)) /\ UNCHANGED status
                                       ELSE status' = "overflow" /\ UNCHANGED fds
        PROVE  SmallInv' /\ LeaversStep /\ AnswersStep
    <3>1. /\ link[c] = "backlog" /\ fdt[s] = NoConn
          /\ link' = [link EXCEPT ![c] = "accepted"] /\ fdt' = [fdt EXCEPT ![s] = c]
          /\ peer' = peer /\ sent' = sent /\ inbox' = inbox /\ replied' = replied
      BY <2>3 DEF P!AcceptAs
    <3>2. /\ SocketsType' /\ Table' /\ LeaversStep /\ AnswersStep
          /\ \A f \in Fds : f # s => fdt'[f] = fdt[f]
      <4>1. SocketsType' /\ Table' /\ LeaversStep
        BY <1>1, <2>1, <3>1, AcceptKept DEF Buffers
      <4>2. \A f \in Fds : f # s => fdt'[f] = fdt[f]
        BY <3>1, PollTypes DEF SocketsType
      <4>3. AnswersStep
        BY <3>1 DEF AnswersStep
      <4> QED
        BY <4>1, <4>2, <4>3
    <3>3. CASE Len(fds) < POLL_SIZE
      <4>1. /\ P!NewSlot(s) \in PollFd /\ P!NewSlot(s).fd = s /\ P!NewSlot(s).revents = "0"
            /\ P!NewSlot(s).owed = << >>
        BY EmptySeq DEF P!NewSlot, PollFd
      <4> DEFINE x == P!NewSlot(s)
                 n == Len(fds)
      <4> HIDE DEF x
      <4>2. fds' = Append(fds, x) /\ status' = status
        BY <2>3, <3>3 DEF x
      <4>3. /\ fds' \in Seq(PollFd) /\ Len(fds') = n + 1 /\ DOMAIN fds = 1 .. n
            /\ n + 1 \notin DOMAIN fds
            /\ \A k \in DOMAIN fds : k \in DOMAIN fds' /\ fds'[k] = fds[k]
            /\ \A k \in DOMAIN fds' : \/ k \in DOMAIN fds /\ fds'[k] = fds[k]
                                      \/ k = n + 1 /\ fds'[k] = x
        BY <4>1, <4>2, PollTypes, AppendElements DEF x
      <4>4. n + 1 \in DOMAIN fds' /\ fds'[n + 1] = x
        <5>1. n + 1 \in DOMAIN fds'
          BY <4>3, PollTypes
        <5> QED
          BY <4>3, <5>1
      <4>5. PollReady'
        <5> SUFFICES ASSUME NEW k \in DOMAIN fds', k >= i + 1, fds'[k].revents = "IN",
                            fds'[k].fd \in Fds, fdt'[fds'[k].fd] # NoConn
                     PROVE  \/ inbox[fdt'[fds'[k].fd]] # << >>
                            \/ peer[fdt'[fds'[k].fd]] # "open"
                            \/ \E j \in DOMAIN fds' : j # k /\ fds'[j].fd = fds'[k].fd
          BY <2>1, <3>1 DEF PollReady
        <5>1. k \in DOMAIN fds /\ fds'[k] = fds[k]
          BY <4>1, <4>3 DEF x
        <5>2. CASE fds[k].fd = s
          BY <4>1, <4>3, <4>4, <5>1, <5>2 DEF x
        <5>3. CASE fds[k].fd # s
          <6>1. fdt'[fds[k].fd] = fdt[fds[k].fd] /\ k >= i
            BY <3>2, <5>1, <5>3, PollTypes
          <6>2. \/ inbox[fdt[fds[k].fd]] # << >>
                \/ peer[fdt[fds[k].fd]] # "open"
                \/ \E j \in DOMAIN fds : j # k /\ fds[j].fd = fds[k].fd
            BY <1>1, <1>6, <2>1, <5>1, <6>1 DEF SmallInv, PollReady
          <6> QED
            BY <4>3, <5>1, <6>1, <6>2
        <5> QED
          BY <5>2, <5>3
      <4>6. Len(fds') <= POLL_SIZE
        BY <3>3, <4>3, PollTypes
      <4>7. PollOrder'
        BY <1>1, <1>2, <1>6, <3>1, <3>2, <4>1, <4>3, <4>4, PollOrderNew DEF x
      <4> QED
        BY <2>1, <3>2, <4>2, <4>3, <4>5, <4>6, <4>7, PollTypes, PollRest
    <3>4. CASE ~ (Len(fds) < POLL_SIZE)
      <4>1. fds' = fds /\ status' = "overflow"
        BY <2>3, <3>4
      <4>2. PollReady' /\ PollOrder'
        BY <4>1 DEF PollReady, PollOrder
      <4> QED
        BY <2>1, <3>2, <4>1, <4>2, PollTypes, PollRest DEF Statuses
    <3> QED
      BY <3>3, <3>4
  <2> QED
    BY <1>6, <2>2, <2>3 DEF P!LoopAccept, P!env, env, P!Fds, Fds
<1>7. CASE status = "running" /\ P!LoopRead
  <2>1. /\ P!Target # NoConn /\ i' = i + 1 /\ pollPc' = pollPc /\ pollPc = "loop"
        /\ i <= Len(fds) /\ fdt' = fdt /\ link' = link /\ peer' = peer /\ sent' = sent
        /\ replied' = replied /\ status' = status
    BY <1>7 DEF P!LoopRead, P!Reads, P!Iterates
  <2>2. fds[i].fd \in Fds /\ P!Target = fdt[fds[i].fd]
    BY <2>1 DEF P!Target, P!SocketAt, P!Fds, Fds
  <2>3. PICK c \in Conns : c = fdt[fds[i].fd]
    BY <2>1, <2>2, PollTypes DEF SocketsType
  <2>4. PICK k \in 1 .. Len(inbox[c]) :
          /\ inbox' = [inbox EXCEPT ![c] = SubSeq(@, k + 1, Len(@))]
          /\ fds' = [fds EXCEPT ![i].revents = "0", ![i].events = "W",
                                ![i].owed = @ \o SubSeq(inbox[c], 1, k)]
    BY <1>7, <2>2, <2>3 DEF P!LoopRead, P!Takes
  <2>5. /\ inbox[c] \in Seq(Request) /\ replied[c] \in Seq(Request) /\ sent[c] \in Nat
        /\ i \in DOMAIN fds /\ fds[i] \in PollFd /\ fds[i].owed \in Seq(Request)
    BY <2>1, PollTypes DEF SocketsType, PollFd
  <2>6. /\ inbox'[c] = SubSeq(inbox[c], k + 1, Len(inbox[c])) /\ inbox'[c] \in Seq(Request)
        /\ SubSeq(inbox[c], 1, k) \in Seq(Request)
        /\ inbox' \in [Conns -> Seq(Request)]
        /\ \A d \in Conns : d # c => inbox'[d] = inbox[d]
    <3>1. /\ SubSeq(inbox[c], k + 1, Len(inbox[c])) \in Seq(Request)
          /\ SubSeq(inbox[c], 1, k) \in Seq(Request)
      BY <2>5, CutNumbered
    <3> QED
      BY <2>4, <3>1, PollTypes DEF SocketsType
  <2>7. fds[i].owed \o SubSeq(inbox[c], 1, k) \in Seq(Request)
    BY <2>5, <2>6, ConcatProperties
  <2>8. SocketsType' /\ Table' /\ LeaversStep /\ AnswersStep
    <3>1. SocketsType'
      BY <2>1, <2>6, PollTypes DEF SocketsType
    <3>2. Table'
      BY <2>1 DEF SmallInv, Table
    <3>3. LeaversStep /\ AnswersStep
      BY <2>1 DEF LeaversStep, Reachable, AnswersStep
    <3> QED
      BY <3>1, <3>2, <3>3
  <2>9. /\ fds'[i] \in PollFd /\ fds'[i].fd = fds[i].fd
        /\ fds'[i].owed = fds[i].owed \o SubSeq(inbox[c], 1, k)
    <3> DEFINE q == fds[i].owed \o SubSeq(inbox[c], 1, k)
    <3>1. q \in Seq(Request)
      BY <2>7
    <3>2. fds'[i] = [fds[i] EXCEPT !.revents = "0", !.events = "W", !.owed = q]
      BY <2>4, <2>5
    <3> HIDE DEF q
    <3>3. fds'[i] \in PollFd /\ fds'[i].fd = fds[i].fd /\ fds'[i].owed = q
      BY <2>5, <3>1, <3>2 DEF PollFd
    <3> QED
      BY <3>3 DEF q
  <2>10. /\ fds' \in Seq(PollFd) /\ Len(fds') = Len(fds) /\ DOMAIN fds' = DOMAIN fds
         /\ \A n \in DOMAIN fds : fds'[n].fd = fds[n].fd
         /\ \A n \in DOMAIN fds : n # i => fds'[n] = fds[n]
    BY <2>4, <2>5, <2>9, SlotUpdated
  <2>11. PollReady'
    <3> SUFFICES ASSUME NEW n \in DOMAIN fds, n >= i + 1, fds[n].revents = "IN",
                        fds[n].fd \in Fds, fdt[fds[n].fd] # NoConn
                 PROVE  \/ inbox'[fdt[fds[n].fd]] # << >>
                        \/ peer[fdt[fds[n].fd]] # "open"
                        \/ \E j \in DOMAIN fds : j # n /\ fds[j].fd = fds[n].fd
      <4>1. \A n \in DOMAIN fds : n >= i + 1 => fds'[n] = fds[n]
        BY <2>10, PollTypes
      <4> QED
        BY <2>1, <2>10, <4>1 DEF PollReady
    <3>1. n >= i /\ n # i /\ i \in DOMAIN fds
      BY <2>1, PollTypes
    <3>2. CASE fdt[fds[n].fd] = c
      <4>1. fds[n].fd = fds[i].fd
        BY <2>2, <2>3, <3>2, SocketsAssumption DEF SmallInv, Table
      <4> QED
        BY <3>1, <4>1
    <3>3. CASE fdt[fds[n].fd] # c
      <4>1. fdt[fds[n].fd] \in Conns
        BY PollTypes DEF SocketsType
      <4>2. inbox'[fdt[fds[n].fd]] = inbox[fdt[fds[n].fd]]
        BY <2>6, <3>3, <4>1
      <4> QED
        BY <1>1, <1>7, <2>1, <3>1, <4>2 DEF SmallInv, PollReady
    <3> QED
      BY <3>2, <3>3
  <2>12. PollOrder'
    <3>1. ASSUME Linked(c, replied[c], fds[i].owed, << >>, inbox[c], sent[c])
          PROVE  Linked(c, replied'[c], fds'[i].owed, << >>, inbox'[c], sent'[c])
      <4>1. Linked(c, replied[c], fds[i].owed \o SubSeq(inbox[c], 1, k), << >>,
                   SubSeq(inbox[c], k + 1, Len(inbox[c])), sent[c])
        BY <2>5, <3>1, LinkedRead
      <4> QED
        BY <2>1, <2>6, <2>9, <4>1
    <3> QED
      BY <1>1, <1>7, <2>1, <2>2, <2>3, <2>5, <2>6, <2>10, <3>1, PollOrderMoved
  <2> QED
    BY <2>1, <2>8, <2>10, <2>11, <2>12, PollTypes, PollRest
<1>8. CASE status = "running" /\ P!LoopEnds
  <2>1. /\ i' = i + 1 /\ pollPc' = pollPc /\ pollPc = "loop" /\ i <= Len(fds) /\ UNCHANGED env
        /\ status' = status
        /\ fdt' = [f \in Fds |-> IF f = fds[i].fd THEN NoConn ELSE fdt[f]]
        /\ fds' = [fds EXCEPT ![i].revents = "0"]
        /\ fds[i].revents = "IN"
        /\ P!Target # NoConn => inbox[P!Target] = << >>
    BY <1>8 DEF P!LoopEnds, P!Reads, P!Iterates, P!Closed, P!Fds, Fds, P!env, env
  <2>2. /\ SocketsType' /\ Table'
        /\ \A f \in Fds : f # fds[i].fd => fdt'[f] = fdt[f]
        /\ fds[i].fd \in Fds => fdt'[fds[i].fd] = NoConn
        /\ \A d \in Conns :
             Reachable(d) /\ ~ Reachable(d)' => fds[i].fd \in Fds /\ fdt[fds[i].fd] = d
    BY <1>1, <2>1, CloseKept DEF Buffers
  <2>3. LeaversStep
    <3> SUFFICES ASSUME NEW d \in Conns, Reachable(d), ~ Reachable(d)'
                 PROVE  peer[d] # "open" \/ P!Twins(d)
      BY DEF LeaversStep
    <3>1. fds[i].fd \in Fds /\ fdt[fds[i].fd] = d /\ d # NoConn
      BY <2>2, SocketsAssumption
    <3>2. P!Target = d /\ P!SocketAt(fds[i].fd) = d /\ i \in DOMAIN fds /\ i >= i
      BY <2>1, <3>1, PollTypes DEF P!Target, P!SocketAt, P!Fds, Fds
    <3>3. inbox[d] = << >>
      BY <2>1, <3>1, <3>2
    <3>4. \/ peer[d] # "open"
          \/ \E j \in DOMAIN fds : j # i /\ fds[j].fd = fds[i].fd
      BY <1>1, <1>8, <2>1, <3>1, <3>2, <3>3 DEF SmallInv, PollReady
    <3> QED
      BY <3>2, <3>4 DEF P!Twins
  <2>4. /\ fds' \in Seq(PollFd) /\ Len(fds') = Len(fds) /\ DOMAIN fds' = DOMAIN fds
        /\ \A n \in DOMAIN fds : fds'[n].fd = fds[n].fd /\ fds'[n].owed = fds[n].owed
        /\ \A n \in DOMAIN fds : n # i => fds'[n] = fds[n]
    <3>1. i \in DOMAIN fds /\ fds[i] \in PollFd
      BY <2>1, PollTypes
    <3>2. fds'[i] \in PollFd /\ fds'[i].fd = fds[i].fd /\ fds'[i].owed = fds[i].owed
      BY <2>1, <3>1 DEF PollFd
    <3> QED
      BY <2>1, <3>1, <3>2, SlotUpdated
  <2>5. PollReady'
    <3>1. \A n \in DOMAIN fds : n >= i + 1 => n >= i /\ fds'[n] = fds[n]
      BY <2>4, PollTypes
    <3>2. inbox' = inbox /\ peer' = peer
      BY <2>1 DEF env
    <3> QED
      BY <1>1, <1>8, <2>1, <2>2, <2>4, <3>1, <3>2 DEF SmallInv, PollReady
  <2>6. PollOrder'
    BY <1>1, <1>8, <2>1, <2>4, PollOrderClosed
  <2>7. AnswersStep
    BY <2>1 DEF AnswersStep, env
  <2> QED
    BY <2>1, <2>2, <2>3, <2>4, <2>5, <2>6, <2>7, PollTypes, PollRest
<1>9. CASE status = "running" /\ P!LoopWrite
  <2>1. /\ i' = i + 1 /\ pollPc' = pollPc /\ pollPc = "loop" /\ i <= Len(fds)
        /\ fds' = [fds EXCEPT ![i].events = "R", ![i].owed = << >>]
        /\ link' = link /\ peer' = peer /\ sent' = sent /\ inbox' = inbox /\ fdt' = fdt
        /\ status' \in Statuses
    BY <1>9 DEF P!LoopWrite, P!Iterates, Statuses
  <2>2. i \in DOMAIN fds /\ fds[i] \in PollFd /\ fds[i].owed \in Seq(Request)
    BY <2>1, PollTypes DEF PollFd
  <2>3. fds'[i] \in PollFd /\ fds'[i].fd = fds[i].fd /\ fds'[i].owed = << >>
    BY <2>1, <2>2, EmptySeq DEF PollFd
  <2>4. /\ fds' \in Seq(PollFd) /\ Len(fds') = Len(fds) /\ DOMAIN fds' = DOMAIN fds
        /\ \A n \in DOMAIN fds : fds'[n].fd = fds[n].fd
        /\ \A n \in DOMAIN fds : n # i => fds'[n] = fds[n]
    BY <2>1, <2>2, <2>3, SlotUpdated
  <2>5. PollReady'
    BY <1>1, <1>9, <2>1, <2>4, PollVisited
  <2>6. Table' /\ LeaversStep
    BY <2>1 DEF SmallInv, Table, LeaversStep, Reachable
  <2>7. CASE P!Target = NoConn
    <3>1. replied' = replied
      BY <1>9, <2>7 DEF P!LoopWrite, P!WriteTo
    <3>2. SocketsType' /\ AnswersStep
      BY <2>1, <3>1, PollTypes DEF SocketsType, AnswersStep
    <3>3. \A d \in Conns : ~ Watches(i, d)
      BY <2>7, SocketsAssumption DEF Watches, P!Target
    <3>4. \A d \in Conns, k \in DOMAIN fds : Watches(k, d)' <=> Watches(k, d)
      BY <2>1, <2>4 DEF Watches, P!SocketAt
    <3>5. \A d \in Conns : Gone(d)' <=> Gone(d)
      BY <2>1 DEF Gone
    <3>6. \A d \in Conns, k \in DOMAIN fds : Watches(k, d) => fds'[k].owed = fds[k].owed
      BY <2>4, <3>3
    <3>7. NoConn \notin Conns /\ PollOrder
      BY <1>2, SocketsAssumption
    <3>8. PollOrder'
      BY <1>1, <1>9, <2>1, <2>4, <3>1, <3>4, <3>5, <3>6, <3>7, PollOrderKept
    <3> QED
      BY <2>1, <2>4, <2>5, <2>6, <3>2, <3>8, PollTypes, PollRest
  <2>8. ASSUME NEW c \in Conns, c = P!Target PROVE SmallInv' /\ LeaversStep /\ AnswersStep
    <3>1. fds[i].fd \in Fds /\ c = fdt[fds[i].fd] /\ P!SocketAt(fds[i].fd) = c
      BY <2>8, SocketsAssumption DEF P!Target, P!SocketAt, P!Fds, Fds
    <3>2. /\ inbox[c] \in Seq(Request) /\ replied[c] \in Seq(Request) /\ sent[c] \in Nat
          /\ replied \in [Conns -> Seq(Request)]
          /\ replied[c] \o fds[i].owed \in Seq(Request)
      BY <2>2, PollTypes, ConcatProperties DEF SocketsType
    <3>3. \/ peer[c] # "rst" /\ replied' = [replied EXCEPT ![c] = @ \o fds[i].owed]
          \/ peer[c] = "rst" /\ replied' = replied
      BY <1>9, <2>8, SocketsAssumption DEF P!LoopWrite, P!WriteTo
    <3>4. /\ replied' \in [Conns -> Seq(Request)]
          /\ \A d \in Conns : d # c => replied'[d] = replied[d]
          /\ peer[c] # "rst" => replied'[c] = replied[c] \o fds[i].owed
          /\ peer[c] = "rst" => replied'[c] = replied[c]
      BY <3>2, <3>3
    <3>5. SocketsType'
      BY <2>1, <3>4, PollTypes DEF SocketsType
    <3>6. CASE peer[c] = "rst"
      <4>1. \A d \in Conns : replied'[d] = replied[d]
        BY <3>4, <3>6
      <4>2. AnswersStep
        BY <4>1 DEF AnswersStep
      <4>3. \A d \in Conns : d # c => ~ Watches(i, d)
        BY <3>1 DEF Watches
      <4>4. \A d \in Conns, k \in DOMAIN fds : Watches(k, d)' <=> Watches(k, d)
        BY <2>1, <2>4 DEF Watches, P!SocketAt
      <4>5. \A d \in Conns : Gone(d)' <=> Gone(d)
        BY <2>1 DEF Gone
      <4>6. \A d \in Conns, k \in DOMAIN fds :
              d # c /\ Watches(k, d) => fds'[k].owed = fds[k].owed
        BY <2>4, <4>3
      <4>7. PollOrder /\ ~ Simple(c)'
        BY <1>2, <2>1, <3>6 DEF Simple
      <4>8. PollOrder'
        BY <1>1, <1>9, <2>1, <2>4, <4>1, <4>4, <4>5, <4>6, <4>7, PollOrderKept
      <4> QED
        BY <2>1, <2>4, <2>5, <2>6, <3>5, <4>2, <4>8, PollTypes, PollRest
    <3>7. CASE peer[c] # "rst"
      <4>1. ASSUME Linked(c, replied[c], fds[i].owed, << >>, inbox[c], sent[c])
            PROVE  Linked(c, replied'[c], << >>, << >>, inbox'[c], sent'[c])
        <5>1. Linked(c, replied[c] \o fds[i].owed, << >>, << >>, inbox[c], sent[c])
          BY <2>2, <3>2, <4>1, LinkedWrite, EmptySeq
        <5> QED
          BY <2>1, <3>4, <3>7, <5>1
      <4>2. PollOrder'
        BY <1>1, <1>9, <2>1, <2>2, <2>3, <2>4, <3>1, <3>4, <4>1, PollOrderMoved
      <4>3. ASSUME ~ P!Twins(c) PROVE Own(c)'
        <5>1. Simple(c) /\ Watches(i, c)
          BY <3>1, <3>7, <4>3, SocketsAssumption DEF Simple, Gone, Watches
        <5>2. Linked(c, replied[c], fds[i].owed, << >>, inbox[c], sent[c])
          BY <1>1, <1>2, <1>9, <2>2, <5>1 DEF PollOrder, Slotted
        <5>3. Numbered(c, 0, replied'[c]) /\ replied'[c] \in Seq(Request)
          BY <3>4, <4>1, <5>2 DEF Linked
        <5> QED
          BY <5>3, NumberedIsOwn DEF Own
      <4>4. AnswersStep
        BY <3>4, <4>3 DEF AnswersStep
      <4> QED
        BY <2>1, <2>4, <2>5, <2>6, <3>5, <4>2, <4>4, PollTypes, PollRest
    <3> QED
      BY <3>6, <3>7
  <2>9. P!Target \in Conns \cup {NoConn}
    BY PollTypes DEF P!Target, P!SocketAt, P!Fds, Fds, SocketsType
  <2> QED
    BY <2>7, <2>8, <2>9
<1>10. CASE status = "running" /\ P!LoopEnd
  <2>1. /\ UNCHANGED <<env, fdt>> /\ status' = status /\ i' = 1
        /\ fds' = fds /\ pollPc' = "poll"
    BY <1>10 DEF P!LoopEnd, P!env, env
  <2>2. SocketsType' /\ Table' /\ LeaversStep /\ AnswersStep
    BY <1>1, <2>1, StillKept DEF Buffers, AnswersStep, env
  <2>3. PollReady' /\ 1 \in 1 .. (POLL_SIZE + 1)
    BY <2>1, PollTypes DEF PollReady
  <2>4. PollOrder'
    BY <1>1, <1>2, <1>10, <2>1, PollOrderStill
  <2> QED
    BY <2>1, <2>2, <2>3, <2>4, PollTypes, PollRest
<1> QED
  BY <1>3, <1>4, <1>5, <1>6, <1>7, <1>8, <1>9, <1>10 DEF P!Step

(***************************************************************************)
(* The blocking servers.                                                   *)
(***************************************************************************)
\* The rest of the invariant after a step of a blocking server.
LEMMA BlockingRest ==
  ASSUME SmallInv, Blocking, BlockingFrame, SocketsType', Table', InOrder',
         up' \in [Fds -> {"start", "up", "ended", "crashed", "sigpipe"}]
  PROVE  SmallInv'
<1>1. /\ server' = server /\ status' = status /\ fds' = fds /\ i' = i
      /\ selectClients' = selectClients /\ readset' = readset /\ it' = it
      /\ clients' = clients /\ at' = at /\ op' = op /\ taken' = taken
      /\ input' = input /\ output' = output /\ reads' = reads
  BY DEF BlockingFrame, selectVars, pollVars, multiVars, libeventVars, asioVars
<1>2. StateTypes'
  BY <1>1 DEF SmallInv, StateTypes
<1>3. BufferTypes'
  BY <1>1 DEF SmallInv, BufferTypes
<1>4. VisitsOpen' /\ PollReady' /\ PollOrder' /\ AsioChains'
  BY <1>1 DEF VisitsOpen, PollReady, PollOrder, AsioChains, Blocking
<1> QED
  BY <1>2, <1>3, <1>4 DEF SmallInv

\* A step of a process of a blocking server, or of all before they serve.
LEMMA BlockingKept ==
  ASSUME SmallInv, Blocking, BlockingFrame,
         \/ B!CreateServerSocket(Processes)
         \/ \E p \in Processes : B!Step(p)
  PROVE  SmallInv' /\ LeaversStep
<1>1. server' = server /\ UNCHANGED Buffers
  BY DEF BlockingFrame, selectVars, pollVars, multiVars, libeventVars, asioVars, Buffers
<1> DEFINE Up == [Fds -> {"start", "up", "ended", "crashed", "sigpipe"}]
<1>2. SocketsType /\ up \in Up /\ Processes \subseteq Fds
  BY FdsAreNat DEF SmallInv, StateTypes, Processes
<1>3. CASE B!CreateServerSocket(Processes)
  <2>1. UNCHANGED <<env, fdt>>
    BY <1>3 DEF B!CreateServerSocket, B!env, env
  <2>2. up' \in Up
    BY <1>3 DEF B!CreateServerSocket, B!Fds, Fds
  <2> QED
    BY <1>1, <2>1, <2>2, StillKept, BlockingRest
<1>4. ASSUME NEW p \in Processes, up[p] = "up", B!Accept(p) PROVE SmallInv' /\ LeaversStep
  <2>1. PICK c \in Conns :
          /\ link[c] = "backlog"
          /\ link' = [link EXCEPT ![c] = "accepted"]
          /\ \/ fdt' = [fdt EXCEPT ![p] = c] /\ UNCHANGED up
             \/ peer[c] = "rst" /\ up' = [up EXCEPT ![p] = "crashed"] /\ UNCHANGED fdt
             \/ up' = [up EXCEPT ![p] = "ended"] /\ UNCHANGED fdt
    BY <1>4 DEF B!Accept
  <2>2. /\ peer' = peer /\ sent' = sent /\ inbox' = inbox /\ replied' = replied /\ fdt[p] = NoConn
        /\ p \in Fds
    BY <1>2, <1>4 DEF B!Accept
  <2>3. CASE fdt' = [fdt EXCEPT ![p] = c] /\ UNCHANGED up
    <3>1. SocketsType' /\ Table' /\ InOrder' /\ LeaversStep
      BY <1>1, <2>1, <2>2, <2>3, AcceptKept
    <3> QED
      BY <1>2, <2>3, <3>1, BlockingRest
  <2>4. CASE up' \in {[up EXCEPT ![p] = "crashed"], [up EXCEPT ![p] = "ended"]} /\ UNCHANGED fdt
    <3>1. /\ link'[c] = "accepted" /\ link' \in [Conns -> {"none", "backlog", "accepted"}]
          /\ \A d \in Conns : d # c => link'[d] = link[d]
      BY <1>2, <2>1 DEF SocketsType
    <3>2. SocketsType' /\ up' \in Up
      <4>1. up' \in Up
        BY <1>2, <2>2, <2>4
      <4>2. SocketsType'
        BY <1>2, <2>2, <2>4, <3>1 DEF SocketsType
      <4> QED
        BY <4>1, <4>2
    <3>3. Table'
      BY <1>2, <2>1, <2>4, <3>1 DEF SmallInv, Table, SocketsType
    <3>4. \A d \in Conns : Gone(d) => Gone(d)'
      BY <2>4, <3>1 DEF Gone
    <3>5. \A d \in Conns : Same(d)
      BY <1>1, <2>2, BuffersKept DEF Same
    <3>6. InOrder'
      BY <1>1, <2>2, <3>4, <3>5, InOrderKept DEF SmallInv
    <3>7. up'[p] # up[p]
      BY <1>2, <1>4, <2>2, <2>4
    <3>8. LeaversStep
      BY <2>1, <2>4, <3>1, <3>7 DEF LeaversStep, Reachable
    <3> QED
      BY <3>2, <3>3, <3>6, <3>8, BlockingRest
  <2> QED
    BY <2>1, <2>3, <2>4
<1>5. ASSUME NEW p \in Processes, B!Serve(p) PROVE SmallInv' /\ LeaversStep
  <2>1. /\ fdt[p] # NoConn /\ link' = link /\ peer' = peer /\ sent' = sent /\ p \in Fds
    BY <1>2, <1>5 DEF B!Serve
  <2>2. PICK c \in Conns : c = fdt[p]
    BY <1>2, <2>1 DEF SocketsType
  <2>3. PICK k \in 1 .. Len(inbox[c]) :
          /\ inbox' = [inbox EXCEPT ![c] = SubSeq(@, k + 1, Len(@))]
          /\ \/ /\ peer[c] # "rst" /\ B!WriteTo(c, SubSeq(inbox[c], 1, k))
                /\ UNCHANGED <<fdt, up>>
             \/ /\ peer[c] = "rst"
                /\ fdt' = [f \in Fds |-> IF f = p THEN NoConn ELSE fdt[f]]
                /\ up' \in {up, [up EXCEPT ![p] = "sigpipe"]}
                /\ UNCHANGED replied
    BY <1>5, <2>2 DEF B!Serve, B!WriteFails, B!Takes, B!Closed, B!Fds, Fds
  <2>4. \/ /\ peer[c] # "rst"
           /\ replied' = [replied EXCEPT ![c] = @ \o SubSeq(inbox[c], 1, k)]
        \/ peer[c] = "rst" /\ replied' = replied
    BY <2>3, SocketsAssumption DEF B!WriteTo
  <2>5. up' \in Up
    BY <1>2, <2>1, <2>3
  <2>6. ~ Gone(c)
    BY <2>1, <2>2 DEF Gone
  <2>7. /\ fdt' \in [Fds -> Conns \cup {NoConn}] /\ Table' /\ LeaversStep
        /\ \A d \in Conns : Gone(d) => Gone(d)'
    <3>1. CASE peer[c] # "rst"
      <4>1. fdt' = fdt
        BY <2>3, <3>1
      <4> QED
        BY <1>2, <2>1, <4>1 DEF SmallInv, SocketsType, Table, LeaversStep, Reachable, Gone
    <3>2. CASE peer[c] = "rst"
      <4>1. fdt' = [f \in Fds |-> IF f = p THEN NoConn ELSE fdt[f]]
        BY <2>3, <3>2
      <4>2. /\ fdt' \in [Fds -> Conns \cup {NoConn}] /\ Table'
            /\ \A d \in Conns : Gone(d) => Gone(d)'
            /\ \A d \in Conns : Reachable(d) /\ ~ Reachable(d)' => p \in Fds /\ fdt[p] = d
        BY <1>2, <2>1, <4>1, CloseTable DEF SmallInv
      <4> QED
        BY <2>2, <3>2, <4>2 DEF LeaversStep
    <3> QED
      BY <3>1, <3>2
  <2>8. SocketsType' /\ InOrder'
    BY <1>1, <2>1, <2>3, <2>4, <2>6, <2>7, ServeKept DEF Blocking
  <2> QED
    BY <2>5, <2>7, <2>8, BlockingRest
<1>6. ASSUME NEW p \in Processes, B!GiveUp(p) PROVE SmallInv' /\ LeaversStep
  <2>1. /\ inbox[fdt[p]] = << >> /\ ~ more[p] /\ UNCHANGED env /\ up' = up
        /\ fdt' = [f \in Fds |-> IF f = p THEN NoConn ELSE fdt[f]]
    BY <1>6 DEF B!GiveUp, B!Closed, B!Fds, Fds, B!env, env
  <2>2. /\ SocketsType' /\ Table' /\ InOrder'
        /\ \A d \in Conns : Reachable(d) /\ ~ Reachable(d)' => p \in Fds /\ fdt[p] = d
    BY <1>1, <2>1, CloseKept
  <2>3. LeaversStep
    BY <2>1, <2>2 DEF LeaversStep
  <2> QED
    BY <1>2, <2>1, <2>2, <2>3, BlockingRest
<1>7. ASSUME NEW p \in Processes, B!ServeMore(p) PROVE SmallInv' /\ LeaversStep
  <2>1. UNCHANGED env
    BY <1>7 DEF B!ServeMore, B!env, env
  <2>2. CASE UNCHANGED <<fdt, up>>
    BY <1>1, <1>2, <2>1, <2>2, StillKept, BlockingRest
  <2>3. CASE peer[fdt[p]] = "rst" /\ B!WriteFails(p)
    <3>1. /\ fdt' = [f \in Fds |-> IF f = p THEN NoConn ELSE fdt[f]]
          /\ up' \in {up, [up EXCEPT ![p] = "sigpipe"]}
      BY <2>3 DEF B!WriteFails, B!Closed, B!Fds, Fds
    <3>2. /\ SocketsType' /\ Table' /\ InOrder'
          /\ \A d \in Conns : Reachable(d) /\ ~ Reachable(d)' => p \in Fds /\ fdt[p] = d
      BY <1>1, <2>1, <3>1, CloseKept
    <3>3. LeaversStep
      BY <2>3, <3>2 DEF LeaversStep
    <3>4. up' \in Up
      BY <1>2, <3>1
    <3> QED
      BY <3>2, <3>3, <3>4, BlockingRest
  <2> QED
    BY <1>7, <2>2, <2>3 DEF B!ServeMore
<1> QED
  BY <1>3, <1>4, <1>5, <1>6, <1>7 DEF B!Step

\* A client of a blocking server sends on.
LEMMA SendMoreKept ==
  ASSUME SmallInv, Blocking, BlockingFrame, NEW p \in Fds, B!SendMore(p)
  PROVE  SmallInv' /\ LeaversStep
<1>1. server' = server /\ UNCHANGED Buffers
  BY DEF BlockingFrame, selectVars, pollVars, multiVars, libeventVars, asioVars, Buffers
<1>2. UNCHANGED <<env, fdt, up>>
  BY DEF B!SendMore, B!env, env
<1>3. SocketsType' /\ Table' /\ InOrder' /\ LeaversStep
  BY <1>1, <1>2, StillKept
<1>4. up' \in [Fds -> {"start", "up", "ended", "crashed", "sigpipe"}]
  BY <1>2 DEF SmallInv, StateTypes
<1> QED
  BY <1>3, <1>4, BlockingRest

(***************************************************************************)
(* The multiplexing server.                                                *)
(***************************************************************************)
\* A step of the multiplexing server.
LEMMA MultiplexKept ==
  ASSUME SmallInv, server = "multiplex", M!Step, MultiFrame
  PROVE  SmallInv' /\ LeaversStep
<1>1. /\ server' = server /\ up' = up /\ fds' = fds /\ i' = i
      /\ selectClients' = selectClients /\ readset' = readset /\ it' = it
      /\ op' = op /\ taken' = taken /\ input' = input /\ output' = output /\ reads' = reads
  BY DEF MultiFrame, blockVars, selectVars, pollVars, libeventVars, asioVars
<1>2. /\ SocketsType /\ status \in Statuses /\ clients \in Seq(Fds) /\ at \in 1 .. (Len(clients) + 1)
      /\ Len(clients) \in Nat /\ DOMAIN clients = 1 .. Len(clients) /\ at \in Nat \ {0}
      /\ \A n \in DOMAIN clients : clients[n] \in Fds /\ fdt[clients[n]] \in Conns
  <2>1. /\ SocketsType /\ status \in Statuses /\ clients \in Seq(Fds)
        /\ at \in 1 .. (Len(clients) + 1)
        /\ \A n \in DOMAIN clients : fdt[clients[n]] # NoConn
    BY DEF SmallInv, StateTypes, Statuses, VisitsOpen
  <2>2. /\ Len(clients) \in Nat /\ DOMAIN clients = 1 .. Len(clients)
        /\ \A n \in DOMAIN clients : clients[n] \in Fds
    BY <2>1
  <2> QED
    BY <2>1, <2>2 DEF SocketsType
<1>3. ASSUME SocketsType', Table', InOrder', status' \in Statuses, clients' \in Seq(Fds),
             at' \in 1 .. (Len(clients') + 1),
             \A n \in DOMAIN clients' : fdt'[clients'[n]] # NoConn
      PROVE  SmallInv'
  <2>1. StateTypes'
    BY <1>1, <1>3 DEF SmallInv, StateTypes, Statuses
  <2>2. BufferTypes'
    BY <1>1 DEF SmallInv, BufferTypes
  <2>3. VisitsOpen' /\ PollReady' /\ PollOrder' /\ AsioChains'
    BY <1>1, <1>3 DEF VisitsOpen, PollReady, PollOrder, AsioChains
  <2> QED
    BY <1>3, <2>1, <2>2, <2>3 DEF SmallInv
<1>4. CASE /\ UNCHANGED <<env, fdt, clients>> /\ status' \in Statuses
           /\ at' \in 1 .. (Len(clients) + 1)
  <2>1. SocketsType' /\ Table' /\ InOrder' /\ LeaversStep
    BY <1>1, <1>4, StillKept DEF Buffers
  <2> QED
    BY <1>2, <1>3, <1>4, <2>1, SocketsAssumption
<1>5. CASE M!Start
  <2>1. UNCHANGED <<env, fdt, clients, at>> /\ status' \in Statuses
    BY <1>5 DEF M!Start, M!local, M!env, env, Statuses
  <2> QED
    BY <1>2, <1>4, <2>1
<1>6. CASE M!Accept /\ UNCHANGED status
  <2>1. PICK c \in Conns, s \in Fds : M!AcceptAs(c, s) /\ clients' = Append(clients, s)
    BY <1>6 DEF M!Accept, M!Fds, Fds
  <2>2. /\ link[c] = "backlog" /\ fdt[s] = NoConn
        /\ link' = [link EXCEPT ![c] = "accepted"] /\ fdt' = [fdt EXCEPT ![s] = c]
        /\ peer' = peer /\ sent' = sent /\ inbox' = inbox /\ replied' = replied
    BY <2>1 DEF M!AcceptAs
  <2>3. /\ SocketsType' /\ Table' /\ InOrder' /\ LeaversStep /\ fdt'[s] = c
        /\ \A f \in Fds : fdt[f] # NoConn => fdt'[f] = fdt[f]
    BY <1>1, <2>2, AcceptKept DEF Buffers
  <2>4. /\ clients' \in Seq(Fds) /\ Len(clients') = Len(clients) + 1
        /\ \A n \in DOMAIN clients' : \/ n \in DOMAIN clients /\ clients'[n] = clients[n]
                                      \/ clients'[n] = s
    BY <1>2, <2>1, AppendElements
  <2>5. \A n \in DOMAIN clients' : fdt'[clients'[n]] # NoConn
    BY <1>2, <2>3, <2>4, SocketsAssumption
  <2>6. at' \in 1 .. (Len(clients') + 1)
    BY <1>2, <1>6, <2>4 DEF M!Accept
  <2> QED
    BY <1>2, <1>3, <1>6, <2>3, <2>4, <2>5, <2>6
<1>7. CASE M!AcceptNone /\ UNCHANGED status
  <2>1. UNCHANGED <<env, fdt, clients>> /\ at' = 1
    BY <1>7 DEF M!AcceptNone, M!env, env
  <2> QED
    BY <1>2, <1>4, <1>7, <2>1
<1>8. CASE M!EachSkip /\ UNCHANGED status
  <2>1. UNCHANGED <<env, fdt, clients>> /\ at' = at + 1 /\ at <= Len(clients)
    BY <1>8 DEF M!EachSkip, M!env, env
  <2> QED
    BY <1>2, <1>4, <1>8, <2>1
<1>9. CASE M!EachRecv /\ UNCHANGED status
  <2>1. /\ at' = at + 1 /\ at <= Len(clients) /\ clients' = clients /\ fdt' = fdt
        /\ link' = link /\ peer' = peer /\ sent' = sent /\ replied' = replied
    BY <1>9 DEF M!EachRecv
  <2>2. PICK c \in Conns : c = fdt[clients[at]]
    BY <1>2, <2>1
  <2>3. PICK k \in 1 .. Len(inbox[c]) :
          inbox' = [inbox EXCEPT ![c] = SubSeq(@, k + 1, Len(@))]
    BY <1>9, <2>2 DEF M!EachRecv, M!Takes
  <2>4. SubSeq(inbox[c], k + 1, Len(inbox[c])) \in Seq(Request)
    BY <1>2, CutNumbered DEF SocketsType
  <2>5. SocketsType'
    BY <1>2, <2>1, <2>3, <2>4 DEF SocketsType
  <2>6. Table' /\ LeaversStep
    BY <2>1 DEF SmallInv, Table, LeaversStep, Reachable
  <2>7. InOrder'
    BY <1>1, <2>1 DEF SmallInv, InOrder, Intact
  <2>8. at' \in 1 .. (Len(clients') + 1)
    BY <1>2, <2>1
  <2> QED
    BY <1>2, <1>3, <1>9, <2>1, <2>5, <2>6, <2>7, <2>8, SocketsAssumption
<1>10. CASE M!EachEnd /\ UNCHANGED status
  <2>1. UNCHANGED <<env, fdt, clients, at>>
    BY <1>10 DEF M!EachEnd, M!env, env
  <2> QED
    BY <1>2, <1>4, <1>10, <2>1
<1> QED
  BY <1>5, <1>6, <1>7, <1>8, <1>9, <1>10 DEF M!Step

(***************************************************************************)
(* The libevent server.                                                    *)
(***************************************************************************)
\* A step of the libevent server.
LEMMA LibeventKept ==
  ASSUME SmallInv, server = "libevent", L!Step, LibeventFrame
  PROVE  SmallInv' /\ LeaversStep
<1>1. /\ server' = server /\ up' = up /\ fds' = fds /\ i' = i
      /\ selectClients' = selectClients /\ readset' = readset /\ it' = it
      /\ clients' = clients /\ at' = at /\ op' = op /\ taken' = taken
  BY DEF LibeventFrame, blockVars, selectVars, pollVars, multiVars, asioVars
<1>2. /\ SocketsType /\ status \in Statuses /\ reads \in [Conns -> Nat]
      /\ input \in [Conns -> Seq(Request)] /\ output \in [Conns -> Seq(Request)]
  BY DEF SmallInv, StateTypes, Statuses, BufferTypes
<1>3. \A d \in Conns : /\ Outgoing(d) = output[d] /\ Incoming(d) = input[d]
                       /\ Outgoing(d)' = output'[d] /\ Incoming(d)' = input'[d]
  BY <1>1 DEF Outgoing, Incoming
<1>4. ASSUME SocketsType', Table', InOrder', status' \in Statuses, reads' \in [Conns -> Nat],
             input' \in [Conns -> Seq(Request)], output' \in [Conns -> Seq(Request)]
      PROVE  SmallInv'
  <2>1. StateTypes'
    BY <1>1, <1>4 DEF SmallInv, StateTypes, Statuses
  <2>2. BufferTypes'
    BY <1>1, <1>4 DEF SmallInv, BufferTypes
  <2>3. VisitsOpen' /\ PollReady' /\ PollOrder' /\ AsioChains'
    BY <1>1 DEF VisitsOpen, PollReady, PollOrder, AsioChains
  <2> QED
    BY <1>4, <2>1, <2>2, <2>3 DEF SmallInv
<1>5. CASE UNCHANGED <<env, fdt, input, output, reads>> /\ status' \in Statuses
  <2>1. SocketsType' /\ Table' /\ InOrder' /\ LeaversStep
    BY <1>1, <1>5, StillKept DEF Buffers
  <2> QED
    BY <1>2, <1>4, <1>5, <2>1
<1>6. CASE L!Dispatch
  BY <1>5, <1>6 DEF L!Dispatch, L!local, L!env, env, Statuses
<1>7. CASE L!AcceptConnectionCb
  <2>1. PICK c \in Conns, s \in Fds : L!AcceptAs(c, s)
    BY <1>7 DEF L!AcceptConnectionCb, L!Fds, Fds
  <2>2. /\ link[c] = "backlog" /\ fdt[s] = NoConn
        /\ link' = [link EXCEPT ![c] = "accepted"] /\ fdt' = [fdt EXCEPT ![s] = c]
        /\ peer' = peer /\ sent' = sent /\ inbox' = inbox /\ replied' = replied
    BY <2>1 DEF L!AcceptAs
  <2>3. /\ status' = status /\ input' = input /\ output' = output /\ reads' = reads
    BY <1>7 DEF L!AcceptConnectionCb, L!local
  <2>4. SocketsType' /\ Table' /\ InOrder' /\ LeaversStep
    BY <1>1, <2>2, <2>3, AcceptKept DEF Buffers
  <2> QED
    BY <1>2, <1>4, <2>3, <2>4
<1>8. CASE L!AcceptErrorCb
  BY <1>5, <1>8 DEF L!AcceptErrorCb, L!local, L!env, env, Statuses
<1>9. ASSUME NEW c \in Conns, L!EchoReadCb(c) PROVE SmallInv' /\ LeaversStep
  <2>1. /\ link' = link /\ peer' = peer /\ sent' = sent /\ replied' = replied /\ fdt' = fdt
        /\ status' = status /\ reads' = [reads EXCEPT ![c] = @ + 1]
    BY <1>9 DEF L!EchoReadCb
  <2>2. PICK k \in 1 .. Len(inbox[c]) :
          /\ inbox' = [inbox EXCEPT ![c] = SubSeq(@, k + 1, Len(@))]
          /\ input' = [input EXCEPT ![c] = Tail(input[c] \o SubSeq(inbox[c], 1, k))]
          /\ output' = [output EXCEPT ![c] = Append(@, Head(input[c] \o SubSeq(inbox[c], 1, k)))]
    BY <1>9 DEF L!EchoReadCb, L!Takes
  <2> DEFINE w == Append(output[c], Head(input[c] \o SubSeq(inbox[c], 1, k)))
             t == Tail(input[c] \o SubSeq(inbox[c], 1, k))
             y == SubSeq(inbox[c], k + 1, Len(inbox[c]))
  <2>3. /\ inbox[c] \in Seq(Request) /\ replied[c] \in Seq(Request) /\ sent[c] \in Nat
        /\ input[c] \in Seq(Request) /\ output[c] \in Seq(Request)
    BY <1>2 DEF SocketsType
  <2>4. /\ w \in Seq(Request) /\ t \in Seq(Request)
        /\ Linked(c, replied[c], output[c], input[c], inbox[c], sent[c]) =>
             Linked(c, replied[c], w, t, y, sent[c])
    BY <2>3, LinkedLine
  <2>5. y \in Seq(Request)
    BY <2>3, CutNumbered
  <2>6. inbox' = [inbox EXCEPT ![c] = y] /\ input' = [input EXCEPT ![c] = t]
        /\ output' = [output EXCEPT ![c] = w]
    BY <2>2
  <2> HIDE DEF w, t, y
  <2>7. /\ input' \in [Conns -> Seq(Request)] /\ output' \in [Conns -> Seq(Request)]
        /\ inbox' \in [Conns -> Seq(Request)] /\ reads' \in [Conns -> Nat]
        /\ input'[c] = t /\ output'[c] = w /\ inbox'[c] = y
        /\ \A d \in Conns : d # c => /\ input'[d] = input[d] /\ output'[d] = output[d]
                                     /\ inbox'[d] = inbox[d]
    BY <1>2, <2>1, <2>4, <2>5, <2>6 DEF SocketsType
  <2>8. SocketsType'
    BY <1>2, <2>1, <2>7 DEF SocketsType
  <2>9. Table' /\ LeaversStep
    BY <2>1 DEF SmallInv, Table, LeaversStep, Reachable
  <2>10. \A d \in Conns : Gone(d) <=> Gone(d)'
    BY <2>1 DEF Gone
  <2>11. \A d \in Conns : d # c => Same(d)
    <3> SUFFICES ASSUME NEW d \in Conns, d # c PROVE Same(d)
      OBVIOUS
    <3>1. input'[d] = input[d] /\ output'[d] = output[d] /\ inbox'[d] = inbox[d]
      BY <2>7
    <3>2. Outgoing(d)' = Outgoing(d) /\ Incoming(d)' = Incoming(d)
      BY <1>3, <3>1
    <3> QED
      BY <2>1, <3>1, <3>2 DEF Same
  <2>12. Numbered(c, 0, replied'[c])
    BY <2>1 DEF SmallInv, InOrder
  <2>13. ASSUME Intact(c)' PROVE Chain(c)'
    <3>1. Intact(c)
      BY <1>1, <2>1, <2>10, <2>13 DEF Intact
    <3>2. Linked(c, replied[c], output[c], input[c], inbox[c], sent[c])
      BY <1>3, <3>1 DEF SmallInv, InOrder, Chain
    <3>3. Linked(c, replied'[c], output'[c], input'[c], inbox'[c], sent'[c])
      BY <2>1, <2>4, <2>7, <3>2
    <3> QED
      BY <1>3, <3>3 DEF Chain, Linked, Numbered
  <2>14. InOrder'
    BY <1>1, <2>1, <2>10, <2>11, <2>12, <2>13, InOrderKept DEF SmallInv
  <2> QED
    BY <1>2, <1>4, <2>1, <2>7, <2>8, <2>9, <2>14
<1>10. ASSUME NEW c \in Conns, L!Flush(c) PROVE SmallInv' /\ LeaversStep
  <2>1. /\ link' = link /\ peer' = peer /\ sent' = sent /\ inbox' = inbox /\ fdt' = fdt
        /\ status' = status /\ input' = input /\ reads' = reads /\ peer[c] # "rst"
        /\ output' = [output EXCEPT ![c] = << >>]
        /\ replied' = [replied EXCEPT ![c] = @ \o output[c]]
    BY <1>10, SocketsAssumption DEF L!Flush, L!WriteTo
  <2>2. ~ Gone(c)
    BY <1>10 DEF L!Flush, L!Open, L!Fds, Fds, Gone
  <2>3. /\ inbox[c] \in Seq(Request) /\ replied[c] \in Seq(Request) /\ sent[c] \in Nat
        /\ input[c] \in Seq(Request) /\ output[c] \in Seq(Request)
    BY <1>2 DEF SocketsType
  <2>4. /\ Linked(c, replied[c] \o output[c], << >>, input[c], inbox[c], sent[c])
        /\ replied[c] \o output[c] \in Seq(Request)
    <3>1. Linked(c, replied[c], output[c], input[c], inbox[c], sent[c])
      BY <1>3, <2>1, <2>2 DEF SmallInv, InOrder, Chain, Intact
    <3> QED
      BY <2>3, <3>1, LinkedWrite
  <2>5. /\ output' \in [Conns -> Seq(Request)] /\ replied' \in [Conns -> Seq(Request)]
        /\ output'[c] = << >> /\ replied'[c] = replied[c] \o output[c]
        /\ \A d \in Conns : d # c => output'[d] = output[d] /\ replied'[d] = replied[d]
    BY <1>2, <2>1, <2>4, EmptySeq DEF SocketsType
  <2>6. SocketsType'
    BY <1>2, <2>1, <2>5 DEF SocketsType
  <2>7. Table' /\ LeaversStep
    BY <2>1 DEF SmallInv, Table, LeaversStep, Reachable
  <2>8. \A d \in Conns : Gone(d) => Gone(d)'
    BY <2>1 DEF Gone
  <2>9. \A d \in Conns : d # c => Same(d)
    BY <1>3, <2>1, <2>5 DEF Same
  <2>10. Linked(c, replied'[c], output'[c], input'[c], inbox'[c], sent'[c])
    BY <2>1, <2>4, <2>5
  <2>11. Numbered(c, 0, replied'[c]) /\ Chain(c)'
    BY <1>3, <2>10 DEF Chain, Linked, Numbered
  <2>12. InOrder'
    BY <1>1, <2>1, <2>8, <2>9, <2>11, InOrderKept DEF SmallInv
  <2> QED
    BY <1>2, <1>4, <2>1, <2>5, <2>6, <2>7, <2>12
<1>11. ASSUME NEW c \in Conns, L!FlushSigpipe(c) PROVE SmallInv' /\ LeaversStep
  BY <1>5, <1>11 DEF L!FlushSigpipe, L!local, L!env, env, Statuses
<1>12. ASSUME NEW c \in Conns, L!EchoEventCb(c) PROVE SmallInv' /\ LeaversStep
  <2> DEFINE s == L!FdOf(c)
  <2>1. /\ UNCHANGED env /\ status' = status /\ reads' = reads /\ peer[c] # "open"
        /\ fdt' = [f \in Fds |-> IF f = s THEN NoConn ELSE fdt[f]]
        /\ input' = [input EXCEPT ![c] = << >>] /\ output' = [output EXCEPT ![c] = << >>]
    BY <1>12 DEF L!EchoEventCb, L!Closed, L!Fds, Fds, L!AtEnd, L!env, env
  <2>2. s \in Fds /\ fdt[s] = c
    BY <1>12 DEF L!EchoEventCb, L!Open, L!FdOf, L!Fds, Fds
  <2> HIDE DEF s
  <2>3. /\ link' = link /\ peer' = peer /\ sent' = sent /\ inbox' = inbox /\ replied' = replied
    BY <2>1 DEF env
  <2>4. /\ fdt' \in [Fds -> Conns \cup {NoConn}] /\ Table'
        /\ \A d \in Conns : Gone(d) => Gone(d)'
        /\ \A d \in Conns : s \in Fds /\ fdt[s] = d => Gone(d)'
        /\ \A d \in Conns : Reachable(d) /\ ~ Reachable(d)' => s \in Fds /\ fdt[s] = d
    BY <1>2, <2>1, <2>3, CloseTable DEF SmallInv
  <2>5. SocketsType'
    BY <1>2, <2>3, <2>4 DEF SocketsType
  <2>6. LeaversStep
    BY <2>1, <2>2, <2>4 DEF LeaversStep
  <2>7. /\ output' \in [Conns -> Seq(Request)] /\ input' \in [Conns -> Seq(Request)]
        /\ \A d \in Conns : d # c => output'[d] = output[d] /\ input'[d] = input[d]
    BY <1>2, <2>1, EmptySeq
  <2>8. \A d \in Conns : d # c => Same(d)
    BY <1>3, <2>3, <2>7 DEF Same
  <2>9. Numbered(c, 0, replied'[c]) /\ ~ Intact(c)'
    BY <2>2, <2>3, <2>4 DEF SmallInv, InOrder, Intact
  <2>10. InOrder'
    BY <1>1, <2>3, <2>4, <2>8, <2>9, InOrderKept DEF SmallInv
  <2> QED
    BY <1>2, <1>4, <2>1, <2>4, <2>5, <2>6, <2>7, <2>10
<1> QED
  BY <1>6, <1>7, <1>8, <1>9, <1>10, <1>11, <1>12 DEF L!Step, L!Accepts, L!Input, L!Output

(***************************************************************************)
(* The asio server.                                                        *)
(***************************************************************************)
\* A step of the asio server.
LEMMA AsioKept ==
  ASSUME SmallInv, server = "asio", A!Step, AsioFrame
  PROVE  SmallInv' /\ LeaversStep
<1>1. /\ server' = server /\ up' = up /\ fds' = fds /\ i' = i
      /\ selectClients' = selectClients /\ readset' = readset /\ it' = it
      /\ clients' = clients /\ at' = at /\ input' = input /\ output' = output /\ reads' = reads
  BY DEF AsioFrame, blockVars, selectVars, pollVars, multiVars, libeventVars
<1> DEFINE Ops == {"none", "read", "eof", "write"}
<1>2. /\ SocketsType /\ status \in Statuses /\ op \in [Conns -> Ops]
      /\ taken \in [Conns -> Seq(Request)]
      /\ \A d \in Conns : /\ op[d] # "none" => \E f \in Fds : fdt[f] = d
                          /\ op[d] = "eof" => peer[d] # "open"
                          /\ op[d] # "write" => taken[d] = << >>
  BY DEF SmallInv, StateTypes, Statuses, BufferTypes, AsioChains
<1>3. \A d \in Conns : /\ Outgoing(d) = taken[d] /\ Incoming(d) = << >>
                       /\ Outgoing(d)' = taken'[d] /\ Incoming(d)' = << >>
  BY <1>1 DEF Outgoing, Incoming
<1>4. ASSUME SocketsType', Table', InOrder', status' \in Statuses, op' \in [Conns -> Ops],
             taken' \in [Conns -> Seq(Request)],
             \A d \in Conns : /\ op'[d] # "none" => \E f \in Fds : fdt'[f] = d
                              /\ op'[d] = "eof" => peer'[d] # "open"
                              /\ op'[d] # "write" => taken'[d] = << >>
      PROVE  SmallInv'
  <2>1. StateTypes'
    BY <1>1, <1>4 DEF SmallInv, StateTypes, Statuses
  <2>2. BufferTypes'
    BY <1>1, <1>4 DEF SmallInv, BufferTypes
  <2>3. VisitsOpen' /\ PollReady' /\ PollOrder' /\ AsioChains'
    BY <1>1, <1>4 DEF VisitsOpen, PollReady, PollOrder, AsioChains
  <2> QED
    BY <1>4, <2>1, <2>2, <2>3 DEF SmallInv
<1>5. CASE UNCHANGED <<env, fdt, op, taken>> /\ status' \in Statuses
  <2>1. SocketsType' /\ Table' /\ InOrder' /\ LeaversStep
    BY <1>1, <1>5, StillKept DEF Buffers
  <2>2. peer' = peer /\ fdt' = fdt /\ op' = op /\ taken' = taken
    BY <1>5 DEF env
  <2> QED
    BY <1>2, <1>4, <1>5, <2>1, <2>2
<1>6. CASE A!StartServer
  BY <1>5, <1>6 DEF A!StartServer, A!local, A!env, env, Statuses
<1>7. CASE A!OnAccept
  <2>1. PICK c \in Conns, s \in Fds :
          /\ A!AcceptAs(c, s)
          /\ \/ op' = [op EXCEPT ![c] = "read"] /\ UNCHANGED status
             \/ peer[c] = "rst" /\ status' = "terminated" /\ UNCHANGED op
    BY <1>7 DEF A!OnAccept, A!Fds, Fds
  <2>2. /\ link[c] = "backlog" /\ fdt[s] = NoConn
        /\ link' = [link EXCEPT ![c] = "accepted"] /\ fdt' = [fdt EXCEPT ![s] = c]
        /\ peer' = peer /\ sent' = sent /\ inbox' = inbox /\ replied' = replied
    BY <2>1 DEF A!AcceptAs
  <2>3. taken' = taken /\ status' \in Statuses /\ op' \in [Conns -> Ops]
        /\ \A d \in Conns : d # c => op'[d] = op[d]
    BY <1>2, <1>7, <2>1 DEF A!OnAccept, Statuses
  <2>4. /\ SocketsType' /\ Table' /\ InOrder' /\ LeaversStep /\ fdt'[s] = c
        /\ \A f \in Fds : fdt[f] # NoConn => fdt'[f] = fdt[f]
    BY <1>1, <2>2, <2>3, AcceptKept DEF Buffers
  <2>5. op[c] = "none" /\ taken[c] = << >> /\ op'[c] \in {"none", "read"}
    <3>1. op[c] = "none"
      BY <1>2, <2>2, SocketsAssumption DEF SmallInv, Table
    <3> QED
      BY <1>2, <2>1, <3>1
  <2>6. \A d \in Conns : /\ op'[d] # "none" => \E f \in Fds : fdt'[f] = d
                         /\ op'[d] = "eof" => peer'[d] # "open"
                         /\ op'[d] # "write" => taken'[d] = << >>
    <3> SUFFICES ASSUME NEW d \in Conns
                 PROVE  /\ op'[d] # "none" => \E f \in Fds : fdt'[f] = d
                        /\ op'[d] = "eof" => peer'[d] # "open"
                        /\ op'[d] # "write" => taken'[d] = << >>
      OBVIOUS
    <3>1. peer' = peer /\ taken' = taken /\ fdt'[s] = c /\ s \in Fds
      BY <2>1, <2>2, <2>3, <2>4
    <3>2. CASE d = c
      BY <2>5, <3>1, <3>2
    <3>3. CASE d # c
      <4>1. op'[d] = op[d]
        BY <2>3, <3>3
      <4>2. \A f \in Fds : fdt[f] = d => fdt'[f] = d
        BY <2>4, SocketsAssumption
      <4> QED
        BY <1>2, <3>1, <4>1, <4>2
    <3> QED
      BY <3>2, <3>3
  <2> QED
    BY <1>2, <1>4, <2>3, <2>4, <2>6
<1>8. CASE A!OnAcceptError
  BY <1>2, <1>5, <1>8 DEF A!OnAcceptError, A!env, env
<1>9. ASSUME NEW c \in Conns, A!HandleRead(c) PROVE SmallInv' /\ LeaversStep
  <2>1. /\ link' = link /\ peer' = peer /\ sent' = sent /\ replied' = replied /\ fdt' = fdt
        /\ status' = status /\ op[c] = "read" /\ op' = [op EXCEPT ![c] = "write"]
    BY <1>9 DEF A!HandleRead
  <2>2. PICK k \in 1 .. Len(inbox[c]) :
          /\ inbox' = [inbox EXCEPT ![c] = SubSeq(@, k + 1, Len(@))]
          /\ taken' = [taken EXCEPT ![c] = SubSeq(inbox[c], 1, k)]
    BY <1>9 DEF A!HandleRead, A!Takes
  <2> DEFINE x == SubSeq(inbox[c], 1, k)
             y == SubSeq(inbox[c], k + 1, Len(inbox[c]))
  <2>3. /\ inbox[c] \in Seq(Request) /\ replied[c] \in Seq(Request) /\ sent[c] \in Nat
        /\ taken[c] = << >>
    BY <1>2, <2>1 DEF SocketsType
  <2>4. x \in Seq(Request) /\ y \in Seq(Request)
    BY <2>3, CutNumbered
  <2>5. Linked(c, replied[c], << >>, << >>, inbox[c], sent[c]) =>
          Linked(c, replied[c], x, << >>, y, sent[c])
    <3>1. << >> \o x = x
      BY <2>4, ConcatEmptySeq
    <3>2. Linked(c, replied[c], << >>, << >>, inbox[c], sent[c]) =>
            Linked(c, replied[c], << >> \o x, << >>, y, sent[c])
      BY <2>3, LinkedRead, EmptySeq
    <3> QED
      BY <3>1, <3>2
  <2>6. inbox' = [inbox EXCEPT ![c] = y] /\ taken' = [taken EXCEPT ![c] = x]
    BY <2>2
  <2> HIDE DEF x, y
  <2>7. /\ inbox' \in [Conns -> Seq(Request)] /\ taken' \in [Conns -> Seq(Request)]
        /\ inbox'[c] = y /\ taken'[c] = x
        /\ \A d \in Conns : d # c => inbox'[d] = inbox[d] /\ taken'[d] = taken[d]
    BY <1>2, <2>4, <2>6 DEF SocketsType
  <2>8. SocketsType'
    BY <1>2, <2>1, <2>7 DEF SocketsType
  <2>9. Table' /\ LeaversStep
    BY <2>1 DEF SmallInv, Table, LeaversStep, Reachable
  <2>10. \A d \in Conns : Gone(d) <=> Gone(d)'
    BY <2>1 DEF Gone
  <2>11. \A d \in Conns : d # c => Same(d)
    BY <1>3, <2>1, <2>7 DEF Same
  <2>12. Numbered(c, 0, replied'[c])
    BY <2>1 DEF SmallInv, InOrder
  <2>13. ASSUME Intact(c)' PROVE Chain(c)'
    <3>1. Intact(c)
      BY <1>1, <2>1, <2>10, <2>13 DEF Intact
    <3>2. Linked(c, replied[c], << >>, << >>, inbox[c], sent[c])
      BY <1>3, <2>3, <3>1 DEF SmallInv, InOrder, Chain
    <3>3. Linked(c, replied'[c], taken'[c], << >>, inbox'[c], sent'[c])
      BY <2>1, <2>5, <2>7, <3>2
    <3> QED
      BY <1>3, <3>3 DEF Chain, Linked, Numbered
  <2>14. InOrder'
    BY <1>1, <2>1, <2>10, <2>11, <2>12, <2>13, InOrderKept DEF SmallInv
  <2>15. /\ op' \in [Conns -> Ops]
         /\ \A d \in Conns : /\ op'[d] # "none" => \E f \in Fds : fdt'[f] = d
                             /\ op'[d] = "eof" => peer'[d] # "open"
                             /\ op'[d] # "write" => taken'[d] = << >>
    BY <1>2, <2>1, <2>7
  <2> QED
    BY <1>2, <1>4, <2>1, <2>7, <2>8, <2>9, <2>14, <2>15
<1>10. ASSUME NEW c \in Conns, op[c] # "none", peer[c] # "open", op[c] # "write",
              op' = [op EXCEPT ![c] = "none"], taken' = taken, status' = status, UNCHANGED env,
              fdt' = A!Closed(A!FdOf(c))
       PROVE  SmallInv' /\ LeaversStep
  <2> DEFINE s == A!FdOf(c)
  <2>1. fdt' = [f \in Fds |-> IF f = s THEN NoConn ELSE fdt[f]]
    BY <1>10 DEF A!Closed, A!Fds, Fds
  <2>2. s \in Fds /\ fdt[s] = c
    BY <1>2, <1>10 DEF A!FdOf, A!Fds, Fds
  <2> HIDE DEF s
  <2>3. /\ SocketsType' /\ Table' /\ InOrder'
        /\ \A f \in Fds : f # s => fdt'[f] = fdt[f]
        /\ \A d \in Conns : Reachable(d) /\ ~ Reachable(d)' => s \in Fds /\ fdt[s] = d
    BY <1>1, <1>10, <2>1, CloseKept DEF Buffers
  <2>4. LeaversStep
    BY <1>10, <2>2, <2>3 DEF LeaversStep
  <2>5. /\ op' \in [Conns -> Ops] /\ op'[c] = "none"
        /\ \A d \in Conns : d # c => op'[d] = op[d]
    BY <1>2, <1>10
  <2>6. peer' = peer
    BY <1>10 DEF env
  <2>7. \A d \in Conns : /\ op'[d] # "none" => \E f \in Fds : fdt'[f] = d
                         /\ op'[d] = "eof" => peer'[d] # "open"
                         /\ op'[d] # "write" => taken'[d] = << >>
    <3>1. \A d \in Conns : d # c => \A f \in Fds : fdt[f] = d => fdt'[f] = d
      BY <2>2, <2>3
    <3>2. taken[c] = << >> /\ taken' = taken
      BY <1>2, <1>10
    <3> QED
      BY <1>2, <2>5, <2>6, <3>1, <3>2
  <2> QED
    BY <1>2, <1>4, <1>10, <2>3, <2>4, <2>5, <2>7
<1>11. ASSUME NEW c \in Conns, A!HandleReadError(c) PROVE SmallInv' /\ LeaversStep
  <2>1. op[c] = "read" /\ peer[c] # "open" /\ UNCHANGED env /\ status' = status /\ taken' = taken
    BY <1>11 DEF A!HandleReadError, A!AtEnd, A!env, env
  <2>2. CASE op' = [op EXCEPT ![c] = "eof"] /\ UNCHANGED fdt
    <3>1. SocketsType' /\ Table' /\ InOrder' /\ LeaversStep
      BY <1>1, <2>1, <2>2, StillKept DEF Buffers
    <3>2. peer' = peer /\ fdt' = fdt
      BY <2>1, <2>2 DEF env
    <3>3. /\ op' \in [Conns -> Ops] /\ op'[c] = "eof"
          /\ \A d \in Conns : d # c => op'[d] = op[d]
      BY <1>2, <2>2
    <3>4. \A d \in Conns : /\ op'[d] # "none" => \E f \in Fds : fdt'[f] = d
                           /\ op'[d] = "eof" => peer'[d] # "open"
                           /\ op'[d] # "write" => taken'[d] = << >>
      BY <1>2, <2>1, <3>2, <3>3
    <3> QED
      BY <1>2, <1>4, <2>1, <3>1, <3>3, <3>4
  <2>3. CASE op' = [op EXCEPT ![c] = "none"] /\ fdt' = A!Closed(A!FdOf(c))
    BY <1>10, <2>1, <2>3
  <2> QED
    BY <1>11, <2>2, <2>3 DEF A!HandleReadError
<1>12. ASSUME NEW c \in Conns, A!HandleEof(c) PROVE SmallInv' /\ LeaversStep
  <2>1. op[c] = "eof" /\ peer[c] # "open" /\ UNCHANGED env /\ taken' = taken
    BY <1>2, <1>12 DEF A!HandleEof, A!env, env
  <2>2. CASE status' = "terminated" /\ UNCHANGED <<fdt, op>>
    BY <1>5, <2>1, <2>2 DEF Statuses
  <2>3. CASE op' = [op EXCEPT ![c] = "none"] /\ fdt' = A!Closed(A!FdOf(c)) /\ UNCHANGED status
    BY <1>10, <2>1, <2>3
  <2> QED
    BY <1>12, <2>2, <2>3 DEF A!HandleEof
<1>13. ASSUME NEW c \in Conns, A!HandleWrite(c) PROVE SmallInv' /\ LeaversStep
  <2>1. /\ link' = link /\ peer' = peer /\ sent' = sent /\ inbox' = inbox /\ fdt' = fdt
        /\ status' = status /\ op[c] = "write" /\ op' = [op EXCEPT ![c] = "read"]
        /\ taken' = [taken EXCEPT ![c] = << >>]
        /\ \/ peer[c] # "rst" /\ replied' = [replied EXCEPT ![c] = @ \o taken[c]]
           \/ peer[c] = "rst" /\ replied' = replied
    BY <1>13, SocketsAssumption DEF A!HandleWrite, A!WriteTo
  <2>2. /\ inbox[c] \in Seq(Request) /\ replied[c] \in Seq(Request) /\ sent[c] \in Nat
        /\ taken[c] \in Seq(Request)
    BY <1>2 DEF SocketsType
  <2>3. ~ Gone(c)
    BY <1>2, <2>1 DEF Gone
  <2>4. /\ taken' \in [Conns -> Seq(Request)] /\ taken'[c] = << >>
        /\ \A d \in Conns : d # c => taken'[d] = taken[d]
    BY <1>2, <2>1, EmptySeq
  <2>5. /\ replied' \in [Conns -> Seq(Request)]
        /\ \A d \in Conns : d # c => replied'[d] = replied[d]
        /\ peer[c] # "rst" => replied'[c] = replied[c] \o taken[c]
        /\ peer[c] = "rst" => replied'[c] = replied[c]
    <3>1. replied[c] \o taken[c] \in Seq(Request)
      BY <2>2, ConcatProperties
    <3> QED
      BY <1>2, <2>1, <3>1 DEF SocketsType
  <2>6. SocketsType'
    BY <1>2, <2>1, <2>5 DEF SocketsType
  <2>7. Table' /\ LeaversStep
    BY <2>1 DEF SmallInv, Table, LeaversStep, Reachable
  <2>8. \A d \in Conns : Gone(d) => Gone(d)'
    BY <2>1 DEF Gone
  <2>9. \A d \in Conns : d # c => Same(d)
    BY <1>3, <2>1, <2>4, <2>5 DEF Same
  <2>10. Numbered(c, 0, replied'[c]) /\ (Intact(c)' => Chain(c)')
    <3>1. CASE peer[c] = "rst"
      BY <2>1, <2>5, <3>1 DEF SmallInv, InOrder, Intact
    <3>2. CASE peer[c] # "rst"
      <4>1. Linked(c, replied[c], taken[c], << >>, inbox[c], sent[c])
        BY <1>3, <2>3, <3>2 DEF SmallInv, InOrder, Chain, Intact
      <4>2. Linked(c, replied[c] \o taken[c], << >>, << >>, inbox[c], sent[c])
        BY <2>2, <4>1, LinkedWrite, EmptySeq
      <4>3. Linked(c, replied'[c], taken'[c], << >>, inbox'[c], sent'[c])
        BY <2>1, <2>4, <2>5, <3>2, <4>2
      <4> QED
        BY <1>3, <4>3 DEF Chain, Linked, Numbered
    <3> QED
      BY <3>1, <3>2
  <2>11. InOrder'
    BY <1>1, <2>1, <2>8, <2>9, <2>10, InOrderKept DEF SmallInv
  <2>12. /\ op' \in [Conns -> Ops]
         /\ \A d \in Conns : /\ op'[d] # "none" => \E f \in Fds : fdt'[f] = d
                             /\ op'[d] = "eof" => peer'[d] # "open"
                             /\ op'[d] # "write" => taken'[d] = << >>
    BY <1>2, <2>1, <2>4
  <2> QED
    BY <1>2, <1>4, <2>1, <2>4, <2>6, <2>7, <2>11, <2>12
<1>14. CASE A!RunEnds
  BY <1>5, <1>14 DEF A!RunEnds, A!local, A!env, env, Statuses
<1> QED
  BY <1>6, <1>7, <1>8, <1>9, <1>11, <1>12, <1>13, <1>14 DEF A!Step, A!Accepts, A!Handler

(***************************************************************************)
(* The theorems.                                                           *)
(***************************************************************************)
\* The servers start with the invariant.
LEMMA SmallInvInit == AllInit => SmallInv
<1> SUFFICES ASSUME AllInit PROVE SmallInv
  OBVIOUS
<1>1. /\ link = [c \in Conns |-> "none"] /\ peer = [c \in Conns |-> "open"]
      /\ sent = [c \in Conns |-> 0] /\ inbox = [c \in Conns |-> << >>]
      /\ replied = [c \in Conns |-> << >>] /\ fdt = [f \in Fds |-> NoConn]
      /\ status = "starting" /\ selectClients = {} /\ readset = {} /\ it = 0
  BY DEF AllInit, S!Init, S!SocketsInit, S!Fds, Fds
<1>2. /\ fds = <<[fd |-> FirstFd - 1, events |-> "R", revents |-> "0", owed |-> << >>]>>
      /\ pollPc = "poll" /\ i = 1
  BY DEF AllInit, P!Init, P!NewSlot, P!Listener
<1>3. /\ up = [p \in Fds |-> "start"] /\ clients = << >> /\ at = 1
      /\ input = [c \in Conns |-> << >>] /\ output = [c \in Conns |-> << >>]
      /\ reads = [c \in Conns |-> 0]
      /\ op = [c \in Conns |-> "none"] /\ taken = [c \in Conns |-> << >>]
  BY DEF AllInit, B!Init, M!Init, L!Init, A!Init, B!Fds, Fds
<1>4. SocketsType
  BY <1>1, EmptySeq DEF SocketsType
<1>5. fds \in Seq(PollFd) /\ Len(fds) = 1
  BY <1>2, EmptySeq DEF PollFd
<1>6. clients \in Seq(Fds) /\ at \in 1 .. (Len(clients) + 1)
  BY <1>3, EmptySeq
<1>7. i \in 1 .. (POLL_SIZE + 1) /\ Len(fds) <= POLL_SIZE
  BY <1>2, <1>5, SmallServersAssumption
<1>8. StateTypes
  BY <1>1, <1>3, <1>4, <1>5, <1>6, <1>7 DEF StateTypes, PollFd
<1>9. BufferTypes
  BY <1>2, <1>3, <1>7, EmptySeq DEF BufferTypes
<1>10. Table
  BY <1>1 DEF Table
<1>11. InOrder
  <2>1. \A c \in Conns : Outgoing(c) = << >> /\ Incoming(c) = << >>
    BY <1>2, <1>3 DEF Outgoing, Incoming
  <2>2. \A c \in Conns : Linked(c, << >>, << >>, << >>, << >>, 0)
    BY DEF Linked, Numbered
  <2> QED
    BY <1>1, <2>1, <2>2 DEF InOrder, Chain, Linked
<1>12. VisitsOpen /\ PollReady /\ AsioChains
  BY <1>1, <1>2, <1>3 DEF VisitsOpen, PollReady, AsioChains
<1>13. PollOrder
  <2>1. \A c \in Conns : Linked(c, replied[c], << >>, << >>, inbox[c], sent[c])
    <3>1. \A c \in Conns : Linked(c, << >>, << >>, << >>, << >>, 0)
      BY DEF Linked, Numbered
    <3>2. \A c \in Conns : replied[c] = << >> /\ inbox[c] = << >> /\ sent[c] = 0
      BY <1>1
    <3> QED
      BY <3>1, <3>2
  <2>2. \A c \in Conns, k \in DOMAIN fds : fds[k].owed = << >>
    BY <1>2
  <2> QED
    BY <2>1, <2>2 DEF PollOrder, Slotted
<1> QED
  BY <1>8, <1>9, <1>10, <1>11, <1>12, <1>13 DEF SmallInv

\* In a server that answers whom it read from, what a client was sent is its own.
LEMMA OwnElsewhere ==
  ASSUME SmallInv', server' = server, server # "poll"
  PROVE  AnswersStep
<1> SUFFICES ASSUME NEW c \in Conns PROVE Own(c)'
  BY DEF AnswersStep
<1>1. replied'[c] \in Seq(Request) /\ Numbered(c, 0, replied'[c])
  BY DEF SmallInv, StateTypes, SocketsType, InOrder
<1> QED
  BY <1>1, NumberedIsOwn DEF Own

\* Every step keeps the invariant, closes only the clients it may, and answers
\* only whom it may.
LEMMA SmallInvNext == SmallInv /\ [AllNext]_allVars => SmallInv' /\ LeaversStep /\ AnswersStep
<1> SUFFICES ASSUME SmallInv, [AllNext]_allVars PROVE SmallInv' /\ LeaversStep /\ AnswersStep
  OBVIOUS
<1>1. CASE ServerStep
  <2>1. CASE server = "poll" /\ P!Step /\ PollFrame
    BY <2>1, PollKept
  <2>2. CASE server # "poll"
    <3>1. SmallInv' /\ LeaversStep
      BY <1>1, <2>2, SelectKept, BlockingKept, MultiplexKept, LibeventKept, AsioKept DEF ServerStep
    <3>2. server' = server
      BY <1>1, <2>2 DEF ServerStep, SelectFrame, BlockingFrame, MultiFrame, LibeventFrame, AsioFrame
    <3> QED
      BY <2>2, <3>1, <3>2, OwnElsewhere
  <2> QED
    BY <1>1, <2>1, <2>2 DEF ServerStep, Blocking
<1>2. ASSUME NEW c \in Conns, Client(c), BlockingFrame, UNCHANGED blockVars
      PROVE  SmallInv' /\ LeaversStep /\ AnswersStep
  <2>1. SmallInv' /\ LeaversStep
    BY <1>2, ClientKept
  <2>2. replied' = replied
    BY <1>2 DEF Client, ClientStep, Connect, Send, Finish, Reset
  <2> QED
    BY <2>1, <2>2 DEF AnswersStep
<1>4. ASSUME Blocking, NEW p \in Fds, B!SendMore(p), BlockingFrame
      PROVE  SmallInv' /\ LeaversStep /\ AnswersStep
  <2>1. SmallInv' /\ LeaversStep
    BY <1>4, SendMoreKept
  <2>2. replied' = replied
    BY <1>4 DEF B!SendMore, B!env
  <2> QED
    BY <2>1, <2>2 DEF AnswersStep
<1>3. CASE UNCHANGED allVars
  <2>1. /\ server' = server /\ status' = status /\ up' = up /\ fds' = fds /\ i' = i
        /\ pollPc' = pollPc
        /\ selectClients' = selectClients /\ readset' = readset /\ it' = it
        /\ clients' = clients /\ at' = at /\ op' = op /\ taken' = taken
        /\ input' = input /\ output' = output /\ reads' = reads /\ UNCHANGED <<env, fdt>>
    BY <1>3 DEF allVars, blockVars, selectVars, pollVars, multiVars, libeventVars, asioVars
  <2>2. SocketsType' /\ Table' /\ InOrder' /\ LeaversStep /\ AnswersStep
    BY <2>1, StillKept DEF Buffers, AnswersStep, env
  <2>3. StateTypes'
    BY <2>1, <2>2 DEF SmallInv, StateTypes
  <2>4. BufferTypes'
    BY <2>1 DEF SmallInv, BufferTypes
  <2>5. VisitsOpen' /\ PollReady' /\ AsioChains'
    BY <2>1 DEF SmallInv, VisitsOpen, PollReady, AsioChains, env
  <2>6. PollOrder'
    <3>1. CASE server = "poll" /\ status # "overflow"
      BY <2>1, <3>1, PollOrderStill DEF SmallInv
    <3>2. CASE ~ (server = "poll" /\ status # "overflow")
      BY <2>1, <3>2 DEF PollOrder
    <3> QED
      BY <3>1, <3>2
  <2> QED
    BY <2>2, <2>3, <2>4, <2>5, <2>6 DEF SmallInv
<1> QED
  BY <1>1, <1>2, <1>3, <1>4 DEF AllNext, B!Fds, Fds

\* The places of the servers' loops, and the flags.
LEMMA ControlInit == AllInit => ControlTypes
BY DEF AllInit, ControlTypes, S!Init, P!Init, B!Init, M!Init, A!Init, B!Fds, Fds

\* Every step leaves them among the places the servers have.
LEMMA ControlNext == ControlTypes /\ [AllNext]_allVars => ControlTypes'
<1> SUFFICES ASSUME ControlTypes, [AllNext]_allVars PROVE ControlTypes'
  OBVIOUS
<1>1. CASE server = "select" /\ S!Step /\ SelectFrame
  <2>1. pollPc' = pollPc /\ pc' = pc /\ accepting' = accepting /\ more' = more
    BY <1>1 DEF SelectFrame, blockVars, pollVars, multiVars, asioVars
  <2>2. selectPc' \in {selectPc, "select", "accept", "loop"}
    BY <1>1 DEF S!Step, S!MakeSocket, S!Select, S!SelectTimeout, S!Accept, S!LoopSkip, S!LoopServe,
                S!LoopGone, S!LoopEnd, S!local
  <2> QED
    BY <2>1, <2>2 DEF ControlTypes
<1>2. CASE server = "poll" /\ P!Step /\ PollFrame
  <2>1. selectPc' = selectPc /\ pc' = pc /\ accepting' = accepting /\ more' = more
    BY <1>2 DEF PollFrame, blockVars, selectVars, multiVars, asioVars
  <2>2. pollPc' \in {pollPc, "poll", "loop"}
    BY <1>2 DEF P!Step, P!MakeSocket, P!Poll, P!LoopSkip, P!LoopAccept, P!LoopRead, P!LoopEnds,
                P!LoopWrite, P!LoopEnd, P!local
  <2> QED
    BY <2>1, <2>2 DEF ControlTypes
<1>3. CASE BlockingFrame
  <2>1. selectPc' = selectPc /\ pollPc' = pollPc /\ pc' = pc /\ accepting' = accepting
    BY <1>3 DEF BlockingFrame, selectVars, pollVars, multiVars, asioVars
  <2>2. more' \in [Fds -> BOOLEAN]
    <3>1. CASE UNCHANGED blockVars
      BY <3>1 DEF ControlTypes, blockVars
    <3>2. CASE B!CreateServerSocket(Processes)
      BY <3>2 DEF ControlTypes, B!CreateServerSocket
    <3>3. ASSUME NEW p, B!Step(p) \/ B!SendMore(p) PROVE more' \in [Fds -> BOOLEAN]
      <4>1. more' \in {more, [more EXCEPT ![p] = FALSE], [more EXCEPT ![p] = TRUE]}
        BY <3>3 DEF B!Step, B!Accept, B!Serve, B!ServeMore, B!GiveUp, B!SendMore, B!WriteFails
      <4> QED
        BY <4>1 DEF ControlTypes
    <3>4. \/ UNCHANGED blockVars \/ B!CreateServerSocket(Processes)
          \/ \E p : B!Step(p) \/ B!SendMore(p)
      BY <1>3 DEF AllNext, ServerStep, allVars, SelectFrame, PollFrame, MultiFrame, LibeventFrame,
                  AsioFrame
    <3> QED
      BY <3>1, <3>2, <3>3, <3>4
  <2> QED
    BY <2>1, <2>2 DEF ControlTypes
<1>4. CASE server = "multiplex" /\ M!Step /\ MultiFrame
  <2>1. selectPc' = selectPc /\ pollPc' = pollPc /\ accepting' = accepting /\ more' = more
    BY <1>4 DEF MultiFrame, blockVars, selectVars, pollVars, asioVars
  <2>2. pc' \in {pc, "accept", "each"}
    BY <1>4 DEF M!Step, M!Start, M!Accept, M!AcceptNone, M!EachSkip, M!EachRecv, M!EachEnd, M!local
  <2> QED
    BY <2>1, <2>2 DEF ControlTypes
<1>5. CASE server = "libevent" /\ L!Step /\ LibeventFrame
  BY <1>5 DEF ControlTypes, LibeventFrame, blockVars, selectVars, pollVars, multiVars, asioVars
<1>6. CASE server = "asio" /\ A!Step /\ AsioFrame
  <2>1. selectPc' = selectPc /\ pollPc' = pollPc /\ pc' = pc /\ more' = more
    BY <1>6 DEF AsioFrame, blockVars, selectVars, pollVars, multiVars
  <2>2. accepting' \in {accepting, TRUE, FALSE}
    BY <1>6 DEF A!Step, A!Accepts, A!Handler, A!StartServer, A!OnAccept, A!OnAcceptError, A!HandleRead,
                A!HandleReadError, A!HandleEof, A!HandleWrite, A!RunEnds, A!local
  <2> QED
    BY <2>1, <2>2 DEF ControlTypes
<1>7. CASE UNCHANGED allVars
  BY <1>7 DEF ControlTypes, allVars, blockVars, selectVars, pollVars, multiVars, asioVars
<1> QED
  BY <1>1, <1>2, <1>3, <1>4, <1>5, <1>6, <1>7 DEF AllNext, ServerStep

\* Every variable of the small servers and of the kernel keeps its type, and the
\* poll() server never has more slots than its array, whatever its size.
THEOREM SmallServersTypesHold == AllSpec => []TypeOK
<1>1. SmallInv /\ ControlTypes => TypeOK
  BY DEF SmallInv, TypeOK
<1> QED
  BY <1>1, SmallInvInit, SmallInvNext, ControlInit, ControlNext, PTL DEF AllSpec

\* What a small server sends a client are the answers to the client's own requests,
\* in order and once, with any number of clients, whatever descriptor numbers
\* accept() gives out again and whatever part of the data read() takes; but for
\* the poll() server's hello to a client whose number a second slot watches, which
\* may be for an earlier client (server_poll.cpp:155).
THEOREM AnswersAreOwn == AllSpec => OwnAnswersInOrder
<1>1. SmallInv /\ [AllNext]_allVars =>
        [\A c \in Conns :
           replied'[c] # replied[c] => Own(c)' \/ (server = "poll" /\ P!Twins(c))]_allVars
  BY SmallInvNext DEF AnswersStep
<1> QED
  BY <1>1, SmallInvInit, SmallInvNext, PTL DEF AllSpec, OwnAnswersInOrder

\* The small servers close only clients that left, but for the twins of the
\* poll() server, the silent clients of the blocking ones, and the client whose
\* setRcvTimeout() ends its process.
THEOREM SmallServersCloseLeavers == AllSpec => OnlyLeaversClosed
<1>1. SmallInv /\ [AllNext]_allVars =>
        [\A c \in Conns :
           Reachable(c) /\ ~ Reachable(c)' =>
             \/ peer[c] # "open"
             \/ server = "poll" /\ P!Twins(c)
             \/ Blocking /\ inbox[c] = << >> /\ \E p \in Fds : fdt[p] = c /\ ~ more[p]
             \/ Blocking /\ link[c] = "backlog" /\ up' # up]_allVars
  BY SmallInvNext DEF LeaversStep
<1> QED
  BY <1>1, SmallInvInit, SmallInvNext, PTL DEF AllSpec, OnlyLeaversClosed

=============================================================================
