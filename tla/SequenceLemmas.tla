--------------------------- MODULE SequenceLemmas ---------------------------
(***************************************************************************)
(* What the vectors of the servers hold after push_back(), after their     *)
(* first element is taken and after one is erased; and induction on counts *)
(* and finite sets, with which loops written as recursive functions are    *)
(* reasoned about.                                                         *)
(***************************************************************************)
EXTENDS Integers, SequencesExt, SequenceTheorems, WellFoundedInduction, TLAPS

\* The elements of a sequence that one was appended to.
LEMMA AppendElements ==
  ASSUME NEW T, NEW q \in Seq(T), NEW x \in T
  PROVE  /\ DOMAIN q = 1 .. Len(q) /\ Len(q) + 1 \notin DOMAIN q
         /\ Append(q, x) \in Seq(T) /\ Len(Append(q, x)) = Len(q) + 1
         /\ \A i \in DOMAIN q : i \in DOMAIN Append(q, x) /\ Append(q, x)[i] = q[i]
         /\ \A i \in DOMAIN Append(q, x) : \/ i \in DOMAIN q /\ Append(q, x)[i] = q[i]
                                           \/ i = Len(q) + 1 /\ Append(q, x)[i] = x
<1>1. DOMAIN q = 1 .. Len(q) /\ Len(q) \in Nat
  OBVIOUS
<1>2. /\ Append(q, x) \in Seq(T) /\ Len(Append(q, x)) = Len(q) + 1
      /\ DOMAIN Append(q, x) = 1 .. (Len(q) + 1)
      /\ \A i \in 1 .. Len(q) : Append(q, x)[i] = q[i]
      /\ Append(q, x)[Len(q) + 1] = x
  OBVIOUS
<1> DEFINE n == Len(q)
<1>3. Len(q) + 1 \notin 1 .. Len(q)
      /\ \A i \in 1 .. (Len(q) + 1) : i \in 1 .. Len(q) \/ i = Len(q) + 1
  <2>1. n \in Nat
    BY <1>1
  <2> HIDE DEF n
  <2>2. n + 1 \notin 1 .. n /\ \A i \in 1 .. (n + 1) : i \in 1 .. n \/ i = n + 1
    BY <2>1
  <2> QED
    BY <2>2 DEF n
<1>4. \A i \in 1 .. Len(q) : i \in 1 .. (Len(q) + 1)
  BY <1>1
<1> QED
  BY <1>1, <1>2, <1>3, <1>4

\* The elements of a sequence whose first one is taken.
LEMMA TailElements ==
  ASSUME NEW T, NEW q \in Seq(T), q # << >>
  PROVE  /\ Head(q) \in T /\ 1 \in DOMAIN q /\ q[1] = Head(q)
         /\ Tail(q) \in Seq(T) /\ Len(Tail(q)) = Len(q) - 1
         /\ \A i \in DOMAIN Tail(q) : i + 1 \in DOMAIN q /\ i \in Nat \ {0} /\ Tail(q)[i] = q[i + 1]
<1>1. /\ DOMAIN q = 1 .. Len(q) /\ Len(q) \in Nat \ {0} /\ Head(q) = q[1] /\ Tail(q) \in Seq(T)
      /\ DOMAIN Tail(q) = 1 .. (Len(q) - 1) /\ Len(Tail(q)) = Len(q) - 1
      /\ \A i \in 1 .. (Len(q) - 1) : Tail(q)[i] = q[i + 1]
  OBVIOUS
<1>2. 1 \in DOMAIN q /\ Head(q) \in T
  BY <1>1
<1>3. \A i \in DOMAIN Tail(q) : i + 1 \in DOMAIN q /\ i \in Nat \ {0}
  BY <1>1
<1> QED
  BY <1>1, <1>2, <1>3

\* Of distinct elements, the rest are distinct and differ from the first.
LEMMA TailDistinct ==
  ASSUME NEW T, NEW q \in Seq(T), q # << >>,
         \A i, j \in DOMAIN q : q[i] = q[j] => i = j
  PROVE  /\ \A i \in DOMAIN Tail(q) : Tail(q)[i] # Head(q)
         /\ \A i, j \in DOMAIN Tail(q) : Tail(q)[i] = Tail(q)[j] => i = j
<1>1. /\ 1 \in DOMAIN q /\ q[1] = Head(q)
      /\ \A i \in DOMAIN Tail(q) : i + 1 \in DOMAIN q /\ i \in Nat \ {0} /\ Tail(q)[i] = q[i + 1]
  BY TailElements
<1>2. \A i \in DOMAIN Tail(q) : i + 1 # 1
  BY <1>1
<1>3. \A i \in DOMAIN Tail(q) : Tail(q)[i] # Head(q)
  BY <1>1, <1>2
<1>4. ASSUME NEW i \in DOMAIN Tail(q), NEW j \in DOMAIN Tail(q), Tail(q)[i] = Tail(q)[j] PROVE i = j
  <2>1. i + 1 = j + 1
    BY <1>1, <1>4
  <2> QED
    BY <1>1, <2>1
<1> QED
  BY <1>3, <1>4

\* The elements of a sequence that one was erased from, in their order.
LEMMA RemoveElements ==
  ASSUME NEW T, NEW q \in Seq(T), NEW k \in DOMAIN q
  PROVE  /\ RemoveAt(q, k) \in Seq(T) /\ Len(RemoveAt(q, k)) = Len(q) - 1
         /\ \A i \in DOMAIN q :
              /\ i < k => i \in DOMAIN RemoveAt(q, k) /\ RemoveAt(q, k)[i] = q[i]
              /\ i > k => i - 1 \in DOMAIN RemoveAt(q, k) /\ RemoveAt(q, k)[i - 1] = q[i]
         /\ \A i \in DOMAIN RemoveAt(q, k) :
              \/ i < k /\ i \in DOMAIN q /\ RemoveAt(q, k)[i] = q[i]
              \/ i >= k /\ i \in Nat /\ i + 1 \in DOMAIN q /\ RemoveAt(q, k)[i] = q[i + 1]
<1> DEFINE a == SubSeq(q, 1, k - 1)
           b == SubSeq(q, k + 1, Len(q))
           r == RemoveAt(q, k)
           n == Len(q)
<1>1. k \in 1 .. n /\ n \in Nat /\ DOMAIN q = 1 .. n
  OBVIOUS
<1>2. r = a \o b
  BY DEF RemoveAt
<1>3. a \in Seq(T) /\ Len(a) = k - 1 /\ \A i \in 1 .. (k - 1) : a[i] = q[i]
  BY <1>1
<1>4. b \in Seq(T) /\ Len(b) = n - k /\ \A i \in 1 .. (n - k) : b[i] = q[k + i]
  BY <1>1
<1> HIDE DEF a, b, r, n
<1>5. r \in Seq(T) /\ Len(r) = n - 1 /\ DOMAIN r = 1 .. (n - 1)
  <2>1. a \o b \in Seq(T) /\ Len(a \o b) = Len(a) + Len(b)
    BY <1>3, <1>4, ConcatProperties
  <2> QED
    BY <1>1, <1>2, <1>3, <1>4, <2>1
<1>6. \A i \in 1 .. (k - 1) : r[i] = q[i]
  BY <1>1, <1>2, <1>3, <1>4
<1>7. \A i \in k .. (n - 1) : r[i] = q[i + 1]
  <2> SUFFICES ASSUME NEW i \in k .. (n - 1) PROVE r[i] = q[i + 1]
    OBVIOUS
  <2>1. r[i] = b[i - (k - 1)]
    BY <1>1, <1>2, <1>3, <1>4
  <2>2. i - (k - 1) \in 1 .. (n - k) /\ k + (i - (k - 1)) = i + 1
    BY <1>1
  <2> QED
    BY <1>4, <2>1, <2>2
<1>8. ASSUME NEW i \in DOMAIN q
      PROVE  /\ i < k => i \in DOMAIN r /\ r[i] = q[i]
             /\ i > k => i - 1 \in DOMAIN r /\ r[i - 1] = q[i]
  <2>1. CASE i < k
    BY <1>1, <1>5, <1>6, <2>1
  <2>2. CASE i > k
    <3>1. i - 1 \in k .. (n - 1) /\ (i - 1) + 1 = i /\ i - 1 \in DOMAIN r
      BY <1>1, <1>5, <2>2
    <3> QED
      BY <1>1, <1>7, <2>2, <3>1
  <2> QED
    BY <1>1, <2>1, <2>2
<1>9. ASSUME NEW i \in DOMAIN r
      PROVE  \/ i < k /\ i \in DOMAIN q /\ r[i] = q[i]
             \/ i >= k /\ i \in Nat /\ i + 1 \in DOMAIN q /\ r[i] = q[i + 1]
  <2>1. CASE i < k
    BY <1>1, <1>5, <1>6, <2>1
  <2>2. CASE i >= k
    BY <1>1, <1>5, <1>7, <2>2
  <2> QED
    BY <1>1, <1>5, <2>1, <2>2
<1> QED
  BY <1>5, <1>8, <1>9 DEF r, n

\* The elements of a sequence that one was put in front of.
LEMMA PrependElements ==
  ASSUME NEW T, NEW q \in Seq(T), NEW x \in T
  PROVE  /\ <<x>> \o q \in Seq(T) /\ Len(<<x>> \o q) = Len(q) + 1
         /\ 1 \in DOMAIN (<<x>> \o q) /\ (<<x>> \o q)[1] = x
         /\ \A i \in DOMAIN q : i + 1 \in DOMAIN (<<x>> \o q) /\ (<<x>> \o q)[i + 1] = q[i]
         /\ \A i \in DOMAIN (<<x>> \o q) :
              \/ i = 1
              \/ i \in Nat /\ i - 1 \in DOMAIN q /\ (<<x>> \o q)[i] = q[i - 1]
<1> DEFINE s == <<x>>
           r == s \o q
           n == Len(q)
<1>1. n \in Nat /\ DOMAIN q = 1 .. n
  OBVIOUS
<1>2. s \in Seq(T) /\ Len(s) = 1 /\ s[1] = x
  OBVIOUS
<1> HIDE DEF s
<1>3. /\ r \in Seq(T) /\ Len(r) = 1 + n
      /\ \A i \in 1 .. (1 + n) : r[i] = IF i <= 1 THEN s[i] ELSE q[i - 1]
  <2>1. /\ r \in Seq(T) /\ Len(r) = Len(s) + Len(q)
        /\ \A i \in 1 .. (Len(s) + Len(q)) : r[i] = IF i <= Len(s) THEN s[i] ELSE q[i - Len(s)]
    BY <1>2, ConcatProperties
  <2> QED
    BY <1>2, <2>1
<1> HIDE DEF r, n
<1>4. DOMAIN r = 1 .. (1 + n)
  BY <1>3
<1>5. Len(r) = n + 1 /\ 1 \in DOMAIN r /\ r[1] = x
  BY <1>1, <1>2, <1>3, <1>4
<1>6. ASSUME NEW i \in DOMAIN q PROVE i + 1 \in DOMAIN r /\ r[i + 1] = q[i]
  <2>1. i + 1 \in 1 .. (1 + n) /\ ~ (i + 1 <= 1) /\ (i + 1) - 1 = i
    BY <1>1
  <2> QED
    BY <1>3, <1>4, <2>1
<1>7. ASSUME NEW i \in DOMAIN r PROVE i = 1 \/ (i \in Nat /\ i - 1 \in DOMAIN q /\ r[i] = q[i - 1])
  BY <1>1, <1>3, <1>4
<1> QED
  BY <1>3, <1>5, <1>6, <1>7 DEF r, s, n

\* The elements of a sequence whose last one is taken.
LEMMA FrontElements ==
  ASSUME NEW T, NEW q \in Seq(T), q # << >>
  PROVE  /\ Front(q) \in Seq(T) /\ Len(Front(q)) = Len(q) - 1
         /\ Len(q) \in DOMAIN q /\ Last(q) = q[Len(q)]
         /\ \A i \in DOMAIN Front(q) : i \in DOMAIN q /\ i # Len(q) /\ Front(q)[i] = q[i]
         /\ \A i \in DOMAIN q : i # Len(q) => i \in DOMAIN Front(q)
<1> DEFINE n == Len(q)
<1>1. n \in Nat \ {0} /\ DOMAIN q = 1 .. n
  OBVIOUS
<1>2. Front(q) = SubSeq(q, 1, n - 1)
  BY DEF Front
<1>3. /\ Front(q) \in Seq(T) /\ Len(Front(q)) = n - 1
      /\ \A i \in 1 .. (n - 1) : Front(q)[i] = q[i]
  BY <1>1, <1>2
<1>4. DOMAIN Front(q) = 1 .. (n - 1)
  BY <1>3
<1> HIDE DEF n
<1>5. \A i \in DOMAIN Front(q) : i \in DOMAIN q /\ i # n /\ Front(q)[i] = q[i]
  BY <1>1, <1>3, <1>4
<1>6. n \in DOMAIN q /\ \A i \in DOMAIN q : i # n => i \in DOMAIN Front(q)
  BY <1>1, <1>4
<1> QED
  BY <1>3, <1>5, <1>6 DEF n, Last

(***************************************************************************)
(* Induction, in the form the provers can use: a set of naturals has a     *)
(* least member, and one below a bound a greatest.                         *)
(***************************************************************************)
Less == {p \in Nat \X Nat : p[1] < p[2]}

\* The least member.
LEMMA LeastOne ==
  ASSUME NEW S \in SUBSET Nat, S # {}
  PROVE  \E x \in S : \A y \in S : x <= y
<1>1. OpToRel(<, Nat) = Less
  BY Zenon DEF OpToRel, Less
<1>2. IsWellFoundedOn(Less, Nat)
  BY <1>1, NatLessThanWellFounded, Zenon
<1>3. PICK x \in S : \A y \in S : ~ (<<y, x>> \in Less)
  BY <1>2, WFMin
<1>4. ASSUME NEW y \in S PROVE x <= y
  <2>1. x \in Nat /\ y \in Nat /\ ~ (<<y, x>> \in Less)
    BY <1>3
  <2>2. y < x => <<y, x>> \in Less
    BY <2>1 DEF Less
  <2> QED
    BY <2>1, <2>2
<1> QED
  BY <1>4

\* The greatest member.
LEMMA GreatestOne ==
  ASSUME NEW n \in Nat, NEW S \in SUBSET (0 .. n), S # {}
  PROVE  \E x \in S : \A y \in S : x >= y
<1> DEFINE D == {n - y : y \in S}
<1>1. \A y \in S : y \in Nat /\ n - y \in Nat /\ n - (n - y) = y
  OBVIOUS
<1>2. D \in SUBSET Nat /\ D # {}
  BY <1>1
<1>3. PICK d \in D : \A e \in D : d <= e
  BY <1>2, LeastOne
<1>4. PICK x \in S : d = n - x
  BY <1>3
<1>5. ASSUME NEW y \in S PROVE x >= y
  <2>1. n - x <= n - y
    BY <1>3, <1>4
  <2> QED
    BY <1>1, <2>1
<1> QED
  BY <1>5

(***************************************************************************)
(* What a recursive function of a count computes.  Its definition chooses  *)
(* a function that satisfies the equation, so that there must be one.      *)
(***************************************************************************)
\* What holds initially and is kept by every repetition holds throughout.
LEMMA Throughout ==
  ASSUME NEW D, NEW n \in Nat, NEW g, g[0] \in D, \A k \in 1 .. n : g[k - 1] \in D => g[k] \in D
  PROVE  \A k \in 0 .. n : g[k] \in D
<1> DEFINE Bad == {k \in 0 .. n : g[k] \notin D}
<1>1. SUFFICES ASSUME Bad # {} PROVE FALSE
  OBVIOUS
<1>2. PICK x \in Bad : \A y \in Bad : x <= y
  <2>1. Bad \in SUBSET Nat
    OBVIOUS
  <2> HIDE DEF Bad
  <2> QED
    BY <1>1, <2>1, LeastOne
<1>3. x \in 0 .. n /\ g[x] \notin D /\ x # 0
  BY <1>2
<1>4. x - 1 \in 0 .. n /\ x \in 1 .. n /\ ~ (x <= x - 1)
  BY <1>3
<1>5. x - 1 \notin Bad
  BY <1>2, <1>4
<1>6. g[x - 1] \in D
  BY <1>4, <1>5
<1> QED
  BY <1>3, <1>4, <1>6

\* g applies the functions of F to x in turn.
Repeats(g, F, x, n) == g[0] = x /\ \A k \in 1 .. n : g[k] = F[k][g[k - 1]]

\* Functions on a set can be applied any number of times in turn.
LEMMA Repeated ==
  ASSUME NEW D, NEW n \in Nat, NEW x \in D, NEW F \in [1 .. n -> [D -> D]]
  PROVE  \E g \in [0 .. n -> D] : Repeats(g, F, x, n)
<1> DEFINE Made(m) ==
      \E g \in [0 .. m -> D] : g[0] = x /\ \A k \in 1 .. m : g[k] = F[k][g[k - 1]]
           Bad == {m \in 0 .. n : ~ Made(m)}
<1>1. Made(0)
  <2> DEFINE g == [k \in 0 .. 0 |-> x]
  <2>1. g \in [0 .. 0 -> D] /\ g[0] = x /\ \A k \in 1 .. 0 : g[k] = F[k][g[k - 1]]
    OBVIOUS
  <2> QED
    BY <2>1
<1>2. ASSUME NEW m \in 1 .. n, Made(m - 1) PROVE Made(m)
  <2>1. PICK g \in [0 .. (m - 1) -> D] :
          g[0] = x /\ \A k \in 1 .. (m - 1) : g[k] = F[k][g[k - 1]]
    BY <1>2
  <2>2. m \in Nat /\ m - 1 \in 0 .. (m - 1) /\ 0 # m /\ 0 \in 0 .. m /\ 0 \in 0 .. (m - 1)
        /\ F[m] \in [D -> D]
    OBVIOUS
  <2>3. F[m][g[m - 1]] \in D
    BY <2>1, <2>2
  <2> DEFINE f == [k \in 0 .. m |-> IF k = m THEN F[m][g[m - 1]] ELSE g[k]]
  <2>4. \A k \in 0 .. m : k # m => k \in 0 .. (m - 1)
    OBVIOUS
  <2>5. f \in [0 .. m -> D]
    BY <2>1, <2>3, <2>4
  <2>6. f[0] = x
    BY <2>1, <2>2
  <2>7. ASSUME NEW k \in 1 .. m PROVE f[k] = F[k][f[k - 1]]
    <3>1. k \in 0 .. m /\ k - 1 \in 0 .. m /\ k - 1 # m
      OBVIOUS
    <3>2. f[k - 1] = g[k - 1]
      BY <3>1
    <3>3. CASE k = m
      BY <3>1, <3>2, <3>3
    <3>4. CASE k # m
      <4>1. k \in 1 .. (m - 1) /\ f[k] = g[k]
        BY <3>1, <3>4
      <4> QED
        BY <2>1, <3>2, <4>1
    <3> QED
      BY <3>3, <3>4
  <2> HIDE DEF f
  <2> QED
    BY <2>5, <2>6, <2>7
<1> HIDE DEF Made
<1>3. SUFFICES ASSUME Bad # {} PROVE FALSE
  <2>1. n \in 0 .. n /\ (Bad = {} => Made(n))
    OBVIOUS
  <2> QED
    BY <2>1 DEF Made, Repeats
<1>4. PICK z \in Bad : \A y \in Bad : z <= y
  <2>1. Bad \in SUBSET Nat
    OBVIOUS
  <2> HIDE DEF Bad
  <2> QED
    BY <1>3, <2>1, LeastOne
<1>5. z \in 0 .. n /\ ~ Made(z) /\ z # 0
  BY <1>1, <1>4
<1>6. z - 1 \in 0 .. n /\ z \in 1 .. n /\ ~ (z <= z - 1)
  BY <1>5
<1>7. z - 1 \notin Bad
  BY <1>4, <1>6
<1>8. Made(z - 1)
  BY <1>6, <1>7
<1> QED
  BY <1>2, <1>5, <1>6, <1>8

\* Counting reaches every number.
LEMMA Counting ==
  ASSUME NEW n \in Nat, NEW T, 0 \in T, \A k \in 1 .. n : k - 1 \in T => k \in T
  PROVE  \A k \in 0 .. n : k \in T
<1> DEFINE g == [k \in 0 .. n |-> k]
<1>1. g[0] \in T /\ \A k \in 1 .. n : g[k - 1] \in T => g[k] \in T
  OBVIOUS
<1>2. \A k \in 0 .. n : g[k] \in T
  <2> HIDE DEF g
  <2> QED
    BY <1>1, Throughout, Zenon
<1> QED
  BY <1>2

\* A sequence of members of a set is one of members of a larger set.
LEMMA WiderSeq ==
  ASSUME NEW T, NEW U, T \subseteq U, NEW q \in Seq(T)
  PROVE  q \in Seq(U)
<1>1. Len(q) \in Nat /\ q \in [1 .. Len(q) -> T]
  OBVIOUS
<1>2. q \in [1 .. Len(q) -> U]
  BY <1>1
<1> QED
  BY <1>1, <1>2

\* r is q with x behind the k-th element.
Longer(r, q, k, x) ==
  /\ Len(r) = Len(q) + 1
  /\ \A i \in 1 .. k : r[i] = q[i]
  /\ r[k + 1] = x
  /\ \A i \in (k + 2) .. (Len(q) + 1) : r[i] = q[i - 1]

\* An element put behind the k-th.
LEMMA InsertElements ==
  ASSUME NEW T, NEW q \in Seq(T), NEW k \in 1 .. Len(q), NEW x \in T
  PROVE  InsertAt(q, k + 1, x) \in Seq(T) /\ Longer(InsertAt(q, k + 1, x), q, k, x)
<1> DEFINE a == SubSeq(q, 1, k)
           b == SubSeq(q, k + 1, Len(q))
           n == Len(q)
           c == Append(a, x)
           r == c \o b
<1>1. n \in Nat /\ k \in 1 .. n
  OBVIOUS
<1>2. InsertAt(q, k + 1, x) = r
  <2>1. InsertAt(q, k + 1, x) = SubSeq(q, 1, (k + 1) - 1) \o <<x>> \o b
    BY DEF InsertAt
  <2>2. (k + 1) - 1 = k
    BY <1>1
  <2>3. a \in Seq(T)
    BY <1>1
  <2>4. a \o <<x>> = c
    <3> HIDE DEF a
    <3> QED
      BY <2>3
  <2> QED
    BY <2>1, <2>2, <2>4
<1>3. a \in Seq(T) /\ Len(a) = k /\ \A i \in 1 .. k : a[i] = q[i]
  BY <1>1
<1>4. b \in Seq(T) /\ Len(b) = n - k /\ \A i \in 1 .. (n - k) : b[i] = q[k + i]
  BY <1>1
<1> HIDE DEF a, b, n
<1>5. c \in Seq(T) /\ Len(c) = k + 1 /\ c[k + 1] = x /\ \A i \in 1 .. k : c[i] = a[i]
  BY <1>1, <1>3
<1> HIDE DEF c
<1>6. /\ r \in Seq(T) /\ Len(r) = Len(c) + Len(b)
      /\ \A i \in 1 .. (Len(c) + Len(b)) : r[i] = IF i <= Len(c) THEN c[i] ELSE b[i - Len(c)]
  BY <1>4, <1>5, ConcatProperties
<1> HIDE DEF r
<1>7. /\ Len(r) = n + 1
      /\ \A i \in 1 .. (n + 1) : r[i] = IF i <= k + 1 THEN c[i] ELSE b[i - (k + 1)]
  <2>1. Len(c) + Len(b) = n + 1
    BY <1>1, <1>4, <1>5
  <2> QED
    BY <1>5, <1>6, <2>1
<1>8. ASSUME NEW i \in 1 .. k PROVE r[i] = q[i]
  <2>1. i \in 1 .. (n + 1) /\ i <= k + 1
    BY <1>1
  <2> QED
    BY <1>3, <1>5, <1>7, <2>1
<1>9. r[k + 1] = x
  <2>1. k + 1 \in 1 .. (n + 1) /\ k + 1 <= k + 1
    BY <1>1
  <2> QED
    BY <1>5, <1>7, <2>1
<1>10. ASSUME NEW i \in (k + 2) .. (n + 1) PROVE r[i] = q[i - 1]
  <2>1. i \in 1 .. (n + 1) /\ ~ (i <= k + 1) /\ i - (k + 1) \in 1 .. (n - k)
        /\ k + (i - (k + 1)) = i - 1
    BY <1>1
  <2>2. r[i] = b[i - (k + 1)]
    BY <1>7, <2>1
  <2> QED
    BY <1>4, <2>1, <2>2
<1> QED
  BY <1>2, <1>6, <1>7, <1>8, <1>9, <1>10 DEF n, Longer

\* r is q without its k-th element.
Shorter(r, q, k) ==
  /\ Len(r) = Len(q) - 1
  /\ \A i \in 1 .. (k - 1) : r[i] = q[i]
  /\ \A i \in k .. (Len(q) - 1) : r[i] = q[i + 1]

\* The k-th element taken out.
LEMMA RemoveShortens ==
  ASSUME NEW T, NEW q \in Seq(T), NEW k \in 1 .. Len(q)
  PROVE  RemoveAt(q, k) \in Seq(T) /\ Shorter(RemoveAt(q, k), q, k)
<1> DEFINE r == RemoveAt(q, k)
           n == Len(q)
<1>1. n \in Nat /\ DOMAIN q = 1 .. n /\ k \in DOMAIN q /\ k \in 1 .. n
  OBVIOUS
<1>2. /\ r \in Seq(T) /\ Len(r) = n - 1
      /\ \A i \in DOMAIN q : /\ i < k => r[i] = q[i]
                             /\ i > k => r[i - 1] = q[i]
  BY <1>1, RemoveElements
<1> HIDE DEF r, n
<1>3. ASSUME NEW i \in 1 .. (k - 1) PROVE r[i] = q[i]
  <2>1. i \in DOMAIN q /\ i < k
    BY <1>1
  <2> QED
    BY <1>2, <2>1
<1>4. ASSUME NEW i \in k .. (n - 1) PROVE r[i] = q[i + 1]
  <2>1. i + 1 \in DOMAIN q /\ i + 1 > k /\ (i + 1) - 1 = i
    BY <1>1
  <2> QED
    BY <1>2, <2>1
<1> QED
  BY <1>2, <1>3, <1>4 DEF r, n, Shorter

=============================================================================
