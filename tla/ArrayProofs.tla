---------------------------- MODULE ArrayProofs ----------------------------
(***************************************************************************)
(* Theorems about the two algorithms on arrays: the dynamic array and its  *)
(* heap for every buffer, every set of numbers and any length, and the     *)
(* shell sort for every length and every content.                          *)
(***************************************************************************)
EXTENDS MCContainers, SequenceLemmas, FiniteSetTheorems

(***************************************************************************)
(* Rearrangements.                                                         *)
(***************************************************************************)
\* p moves the cells of D, and r moves them back.
Moves(p, r, D) ==
  /\ p \in [D -> D] /\ r \in [D -> D]
  /\ \A x \in D : r[p[x]] = x /\ p[r[x]] = x

\* The cells of D that hold v.
Of(a, D, v) == {x \in D : a[x] = v}

\* Values that were moved are as many as before.
LEMMA MovedCount ==
  ASSUME NEW D, IsFiniteSet(D), NEW p, NEW r, Moves(p, r, D), NEW a, NEW b,
         \A x \in D : b[x] = a[p[x]], NEW v
  PROVE  Cardinality(Of(b, D, v)) = Cardinality(Of(a, D, v))
<1> DEFINE X == Of(b, D, v)
           T == Of(a, D, v)
           f == [x \in X |-> p[x]]
<1>1. IsFiniteSet(X)
  BY FS_Subset DEF Of
<1>2. f \in [X -> T]
  BY DEF Of, Moves
<1>3. \A x, y \in X : f[x] = f[y] => x = y
  BY DEF Of, Moves
<1>4. ASSUME NEW t \in T PROVE \E s \in X : f[s] = t
  <2>1. t \in D /\ a[t] = v /\ r[t] \in D /\ p[r[t]] = t
    BY DEF Of, Moves
  <2>2. r[t] \in X
    BY <2>1 DEF Of
  <2> QED
    BY <2>1, <2>2
<1>5. f \in Bijection(X, T)
  BY <1>2, <1>3, <1>4 DEF Bijection, Injection, Surjection, IsInjective
<1>6. ExistsBijection(X, T)
  BY <1>5 DEF ExistsBijection
<1> HIDE DEF X, T
<1>7. Cardinality(T) = Cardinality(X)
  BY <1>1, <1>6, FS_Bijection
<1> QED
  BY <1>7 DEF X, T

(***************************************************************************)
(* The dynamic array.                                                      *)
(***************************************************************************)
\* Buffers of N cells whose first n were stored.
Held(N, n) ==
  {b \in [0 .. (N - 1) -> Vals \cup {Junk, 0}] : \A j \in 0 .. (n - 1) : b[j] \in Vals}

\* Two stored cells change places.
LEMMA SwapHeld ==
  ASSUME NEW N \in Nat, NEW n \in 0 .. N, NEW b \in Held(N, n),
         NEW j \in 0 .. (n - 1), NEW k \in 0 .. (n - 1)
  PROVE  A!Swap(b, j, k) \in Held(N, n)
<1> DEFINE W == Vals \cup {Junk, 0}
<1>1. b \in [0 .. (N - 1) -> W] /\ \A m \in 0 .. (n - 1) : b[m] \in Vals
  BY DEF Held
<1>2. b[j] \in Vals /\ b[k] \in Vals /\ \A m \in 0 .. (n - 1) : m \in 0 .. (N - 1)
  BY <1>1
<1>3. A!Swap(b, j, k) = [b EXCEPT ![j] = b[k], ![k] = b[j]]
  BY DEF A!Swap
<1>4. A!Swap(b, j, k) \in [0 .. (N - 1) -> W]
  BY <1>1, <1>2, <1>3
<1>5. \A m \in 0 .. (n - 1) : A!Swap(b, j, k)[m] \in Vals
  BY <1>1, <1>2, <1>3
<1> QED
  BY <1>4, <1>5 DEF Held

\* The largest of a node and its children is one of the stored cells.
LEMMA LargestIn ==
  ASSUME NEW b, NEW n \in Nat, NEW j \in 0 .. (n - 1)
  PROVE  A!Largest(b, n, j) \in 0 .. (n - 1)
<1> DEFINE left == 2 * j + 1
           right == 2 * j + 2
           larger == IF left < n /\ b[left] > b[j] THEN left ELSE j
<1>1. /\ left \in Nat /\ right \in Nat /\ (left < n => left \in 0 .. (n - 1))
      /\ right < n => right \in 0 .. (n - 1)
  OBVIOUS
<1>2. A!Largest(b, n, j) = IF right < n /\ b[right] > b[larger] THEN right ELSE larger
  BY DEF A!Largest
<1> HIDE DEF left, right
<1>3. larger \in 0 .. (n - 1)
  BY <1>1
<1> HIDE DEF larger
<1> QED
  BY <1>1, <1>2, <1>3

\* The buffer and the node after a call of SiftDown().
Sunk(d, n) == <<A!Swap(d[1], d[2], A!Largest(d[1], n, d[2])), A!Largest(d[1], n, d[2])>>

\* The buffers and nodes of the calls of SiftDown().
Sinking(s, D, b, n, j) ==
  /\ s[0] = <<b, j>> /\ \A k \in 1 .. n : s[k] = Sunk(s[k - 1], n)
  /\ \A k \in 0 .. n : s[k] \in D
  /\ A!SiftDown(b, n, j) = s[n][1]

\* SiftDown() comes to be by its calls, which rearrange stored cells only.
LEMMA SiftDownSteps ==
  ASSUME NEW N \in Nat, NEW n \in 0 .. N, NEW b \in Held(N, n), NEW j \in Nat, n = 0 \/ j < n,
         NEW D, D = Held(N, n) \X {m \in Nat : n = 0 \/ m < n}
  PROVE  \E s : Sinking(s, D, b, n, j)
<1> DEFINE X(d) == Sunk(d, n)
           F == [k \in 1 .. n |-> [d \in D |-> X(d)]]
           sunk == CHOOSE g : g = [k \in 0 .. n |-> IF k = 0 THEN <<b, j>>
                    ELSE LET arr == g[k - 1][1]
                             node == g[k - 1][2]
                             largest == A!Largest(arr, n, node)
                         IN <<A!Swap(arr, node, largest), largest>>]
           x == <<b, j>>
           Sinks(g) == g = [k \in 0 .. n |-> IF k = 0 THEN x ELSE X(g[k - 1])]
<1>1. A!SiftDown(b, n, j) = sunk[n][1]
  BY DEF A!SiftDown
<1>2. sunk = CHOOSE g : Sinks(g)
  BY DEF Sunk
<1> HIDE DEF sunk
<1>3. x \in D
  OBVIOUS
<1>4. ASSUME NEW k \in 1 .. n, NEW d \in D PROVE X(d) \in D
  <2>1. d[1] \in Held(N, n) /\ d[2] \in 0 .. (n - 1) /\ n \in Nat
    OBVIOUS
  <2>2. A!Largest(d[1], n, d[2]) \in 0 .. (n - 1)
    BY <2>1, LargestIn
  <2>3. A!Swap(d[1], d[2], A!Largest(d[1], n, d[2])) \in Held(N, n)
    BY <2>1, <2>2, SwapHeld
  <2> QED
    BY <2>2, <2>3 DEF Sunk
<1> HIDE DEF X, x
<1>5. PICK g \in [0 .. n -> D] : Repeats(g, F, x, n)
  <2>1. F \in [1 .. n -> [D -> D]] /\ n \in Nat
    BY <1>4
  <2> HIDE DEF F
  <2> QED
    BY <1>3, <2>1, Repeated
<1>6. Sinks(g)
  <2>1. ASSUME NEW k \in 0 .. n PROVE g[k] = IF k = 0 THEN x ELSE X(g[k - 1])
    <3>1. CASE k = 0
      BY <1>5, <3>1 DEF Repeats
    <3>2. CASE k # 0
      <4>1. k \in 1 .. n /\ k - 1 \in 0 .. n
        BY <3>2
      <4>2. g[k] = F[k][g[k - 1]] /\ g[k - 1] \in D
        BY <1>5, <4>1 DEF Repeats
      <4>3. F[k][g[k - 1]] = X(g[k - 1])
        BY <4>1, <4>2
      <4> QED
        BY <3>2, <4>2, <4>3
    <3> QED
      BY <3>1, <3>2
  <2> HIDE DEF F
  <2> QED
    BY <1>5, <2>1
<1>7. Sinks(sunk)
  <2> HIDE DEF Sinks
  <2> QED
    BY <1>2, <1>6
<1>8. sunk[0] = x /\ \A k \in 1 .. n : sunk[k] = X(sunk[k - 1])
  <2>1. \A k \in 0 .. n : sunk[k] = IF k = 0 THEN x ELSE X(sunk[k - 1])
    BY <1>7, Zenon
  <2>2. n \in Nat
    OBVIOUS
  <2>3. 0 \in 0 .. n /\ \A k \in 1 .. n : k \in 0 .. n /\ k # 0
    BY <2>2
  <2> QED
    BY <2>1, <2>3, Zenon
<1>9. \A k \in 0 .. n : sunk[k] \in D
  <2>1. \A k \in 1 .. n : sunk[k - 1] \in D => sunk[k] \in D
    BY <1>4, <1>8
  <2>2. n \in Nat
    OBVIOUS
  <2> QED
    BY <1>3, <1>8, <2>1, <2>2, Throughout, Zenon
<1> QED
  BY <1>1, <1>8, <1>9 DEF X, x, Sinking

\* SiftDown() rearranges stored cells only.
LEMMA SiftDownHeld ==
  ASSUME NEW N \in Nat, NEW n \in 0 .. N, NEW b \in Held(N, n), NEW j \in Nat, n = 0 \/ j < n
  PROVE  A!SiftDown(b, n, j) \in Held(N, n)
<1> DEFINE D == Held(N, n) \X {m \in Nat : n = 0 \/ m < n}
<1>1. PICK s : Sinking(s, D, b, n, j)
  BY SiftDownSteps
<1>2. s[n] \in D /\ A!SiftDown(b, n, j) = s[n][1]
  BY <1>1 DEF Sinking
<1> QED
  BY <1>2

\* The buffer and the node after a call of SiftUp().
Risen(d) ==
  LET parent == (d[2] - 1) \div 2
  IN IF d[2] = 0 \/ d[1][d[2]] <= d[1][parent] THEN <<d[1], d[2]>>
     ELSE <<A!Swap(d[1], d[2], parent), parent>>

\* The buffers and nodes of the calls of SiftUp().
Rising(s, D, b, j) ==
  /\ s[0] = <<b, j>> /\ \A k \in 1 .. j : s[k] = Risen(s[k - 1])
  /\ \A k \in 0 .. j : s[k] \in D
  /\ A!SiftUp(b, j) = s[j][1]

\* SiftUp() comes to be by its calls, which rearrange stored cells only.
LEMMA SiftUpSteps ==
  ASSUME NEW N \in Nat, NEW n \in 0 .. N, NEW b \in Held(N, n), NEW j \in 0 .. (n - 1),
         NEW D, D = Held(N, n) \X (0 .. (n - 1))
  PROVE  \E s : Rising(s, D, b, j)
<1> DEFINE F == [k \in 1 .. j |-> [d \in D |-> Risen(d)]]
           x == <<b, j>>
           risen == CHOOSE g : g = [k \in 0 .. j |-> IF k = 0 THEN <<b, j>>
                     ELSE LET arr == g[k - 1][1]
                              node == g[k - 1][2]
                              parent == (node - 1) \div 2
                          IN IF node = 0 \/ arr[node] <= arr[parent] THEN <<arr, node>>
                             ELSE <<A!Swap(arr, node, parent), parent>>]
           Rises(g) == g = [k \in 0 .. j |-> IF k = 0 THEN x ELSE Risen(g[k - 1])]
<1>0. j \in Nat
  OBVIOUS
<1>1. A!SiftUp(b, j) = risen[j][1]
  BY DEF A!SiftUp
<1>2. risen = CHOOSE g : Rises(g)
  BY DEF Risen
<1> HIDE DEF risen
<1>3. x \in D
  OBVIOUS
<1>4. ASSUME NEW d \in D PROVE Risen(d) \in D
  <2> DEFINE parent == (d[2] - 1) \div 2
  <2>1. d[1] \in Held(N, n) /\ d[2] \in 0 .. (n - 1)
    OBVIOUS
  <2>2. CASE d[2] = 0 \/ d[1][d[2]] <= d[1][parent]
    BY <2>1, <2>2 DEF Risen
  <2>3. CASE ~ (d[2] = 0 \/ d[1][d[2]] <= d[1][parent])
    <3>1. parent \in 0 .. (n - 1)
      BY <2>1, <2>3
    <3>2. A!Swap(d[1], d[2], parent) \in Held(N, n)
      BY <2>1, <3>1, SwapHeld
    <3>3. Risen(d) = <<A!Swap(d[1], d[2], parent), parent>>
      BY <2>3 DEF Risen
    <3> QED
      BY <3>1, <3>2, <3>3
  <2> QED
    BY <2>2, <2>3
<1> HIDE DEF x
<1>5. PICK g \in [0 .. j -> D] : Repeats(g, F, x, j)
  <2>1. F \in [1 .. j -> [D -> D]]
    BY <1>4
  <2> HIDE DEF F
  <2> QED
    BY <1>0, <1>3, <2>1, Repeated
<1>6. Rises(g)
  <2>1. ASSUME NEW k \in 0 .. j PROVE g[k] = IF k = 0 THEN x ELSE Risen(g[k - 1])
    <3>1. CASE k = 0
      BY <1>5, <3>1 DEF Repeats
    <3>2. CASE k # 0
      <4>1. k \in 1 .. j /\ k - 1 \in 0 .. j
        BY <3>2
      <4>2. g[k] = F[k][g[k - 1]] /\ g[k - 1] \in D
        BY <1>5, <4>1 DEF Repeats
      <4>3. F[k][g[k - 1]] = Risen(g[k - 1])
        BY <4>1, <4>2
      <4> QED
        BY <3>2, <4>2, <4>3
    <3> QED
      BY <3>1, <3>2
  <2> HIDE DEF F
  <2> QED
    BY <1>5, <2>1
<1>7. Rises(risen)
  <2> HIDE DEF Rises
  <2> QED
    BY <1>2, <1>6
<1>8. \A k \in 0 .. j : risen[k] \in D
  <2>1. \A k \in 0 .. j : risen[k] = IF k = 0 THEN x ELSE Risen(risen[k - 1])
    BY <1>7, Zenon
  <2>2. risen[0] = x /\ \A k \in 1 .. j : risen[k] = Risen(risen[k - 1])
    BY <2>1
  <2>3. \A k \in 1 .. j : risen[k - 1] \in D => risen[k] \in D
    BY <1>4, <2>2
  <2> QED
    BY <1>0, <1>3, <2>2, <2>3, Throughout, Zenon
<1>9. risen[0] = x /\ \A k \in 1 .. j : risen[k] = Risen(risen[k - 1])
  <2>1. \A k \in 0 .. j : risen[k] = IF k = 0 THEN x ELSE Risen(risen[k - 1])
    BY <1>7, Zenon
  <2> QED
    BY <1>0, <2>1
<1> QED
  BY <1>1, <1>8, <1>9 DEF x, Rising

\* SiftUp() rearranges stored cells only.
LEMMA SiftUpHeld ==
  ASSUME NEW N \in Nat, NEW n \in 0 .. N, NEW b \in Held(N, n), NEW j \in 0 .. (n - 1)
  PROVE  A!SiftUp(b, j) \in Held(N, n)
<1> DEFINE D == Held(N, n) \X (0 .. (n - 1))
<1>1. PICK s : Rising(s, D, b, j)
  BY SiftUpSteps
<1>2. s[j] \in D /\ A!SiftUp(b, j) = s[j][1]
  BY <1>1 DEF Rising
<1> QED
  BY <1>2

\* The buffers that MakeHeap() leaves node by node, from the node m - 1 down.
Sifting(s, D, b, n, m) ==
  /\ s[0] = b /\ \A k \in 1 .. m : s[k] = A!SiftDown(s[k - 1], n, m - k)
  /\ \A k \in 0 .. m : s[k] \in D
  /\ A!SiftAll(b, n, m - 1) = s[m]

\* MakeHeap() comes to be by its calls, which rearrange stored cells only.
LEMMA SiftAllSteps ==
  ASSUME NEW N \in Nat, NEW n \in 0 .. N, NEW b \in Held(N, n), NEW j \in Int, -1 <= j, j < n
  PROVE  \E s : Sifting(s, Held(N, n), b, n, j + 1)
<1> DEFINE D == Held(N, n)
           m == j + 1
           F == [k \in 1 .. m |-> [d \in D |-> A!SiftDown(d, n, m - k)]]
           sifted == CHOOSE g : g = [k \in 0 .. (j + 1) |->
                       IF k = 0 THEN b ELSE A!SiftDown(g[k - 1], n, j + 1 - k)]
           Sifts(g) == g = [k \in 0 .. m |-> IF k = 0 THEN b ELSE A!SiftDown(g[k - 1], n, m - k)]
<1>0. m \in Nat /\ m <= n
  OBVIOUS
<1>1. A!SiftAll(b, n, j) = sifted[m]
  BY DEF A!SiftAll
<1>2. sifted = CHOOSE g : Sifts(g)
  OBVIOUS
<1> HIDE DEF sifted
<1>3. b \in D
  OBVIOUS
<1> HIDE DEF m
<1>4. ASSUME NEW k \in 1 .. m, NEW d \in D PROVE A!SiftDown(d, n, m - k) \in D
  <2>1. m - k \in Nat /\ m - k < n
    BY <1>0
  <2> QED
    BY <2>1, SiftDownHeld
<1> HIDE DEF D
<1>5. PICK g \in [0 .. m -> D] : Repeats(g, F, b, m)
  <2>1. F \in [1 .. m -> [D -> D]]
    BY <1>4
  <2> HIDE DEF F
  <2> QED
    BY <1>0, <1>3, <2>1, Repeated
<1>6. Sifts(g)
  <2>1. ASSUME NEW k \in 0 .. m
        PROVE  g[k] = IF k = 0 THEN b ELSE A!SiftDown(g[k - 1], n, m - k)
    <3>1. CASE k = 0
      BY <1>5, <3>1 DEF Repeats
    <3>2. CASE k # 0
      <4>1. k \in 1 .. m /\ k - 1 \in 0 .. m
        BY <3>2, <1>0
      <4>2. g[k] = F[k][g[k - 1]] /\ g[k - 1] \in D
        BY <1>5, <4>1 DEF Repeats
      <4>3. F[k][g[k - 1]] = A!SiftDown(g[k - 1], n, m - k)
        BY <4>1, <4>2
      <4> QED
        BY <3>2, <4>2, <4>3
    <3> QED
      BY <3>1, <3>2
  <2> HIDE DEF F
  <2> QED
    BY <1>5, <2>1
<1>7. Sifts(sifted)
  <2> HIDE DEF Sifts
  <2> QED
    BY <1>2, <1>6
<1>8. \A k \in 0 .. m : sifted[k] \in D
  <2>1. \A k \in 0 .. m : sifted[k] = IF k = 0 THEN b ELSE A!SiftDown(sifted[k - 1], n, m - k)
    BY <1>7, Zenon
  <2>2. sifted[0] = b /\ \A k \in 1 .. m : sifted[k] = A!SiftDown(sifted[k - 1], n, m - k)
    BY <1>0, <2>1
  <2>3. \A k \in 1 .. m : sifted[k - 1] \in D => sifted[k] \in D
    BY <1>4, <2>2
  <2> QED
    BY <1>0, <1>3, <2>2, <2>3, Throughout, Zenon
<1>9. sifted[0] = b /\ \A k \in 1 .. m : sifted[k] = A!SiftDown(sifted[k - 1], n, m - k)
  <2>1. \A k \in 0 .. m : sifted[k] = IF k = 0 THEN b ELSE A!SiftDown(sifted[k - 1], n, m - k)
    BY <1>7, Zenon
  <2> QED
    BY <1>0, <2>1
<1>10. m - 1 = j
  BY DEF m
<1>11. Sifting(sifted, D, b, n, m)
  BY <1>1, <1>8, <1>9, <1>10 DEF Sifting
<1> QED
  BY <1>11 DEF D, m

\* MakeHeap() rearranges stored cells only.
LEMMA SiftAllHeld ==
  ASSUME NEW N \in Nat, NEW n \in 0 .. N, NEW b \in Held(N, n), NEW j \in Int, -1 <= j, j < n
  PROVE  A!SiftAll(b, n, j) \in Held(N, n)
<1> DEFINE m == j + 1
<1>1. PICK s : Sifting(s, Held(N, n), b, n, m)
  BY SiftAllSteps
<1>2. m \in Nat /\ m - 1 = j
  OBVIOUS
<1> HIDE DEF m
<1>3. s[m] \in Held(N, n) /\ A!SiftAll(b, n, m - 1) = s[m]
  BY <1>1, <1>2 DEF Sifting
<1> QED
  BY <1>2, <1>3

\* A run that went on has stored every cell below actual_size_; one that wrote
\* outside the buffer had a buffer of no cells.
ArrayInv ==
  /\ buf_size_ \in Nat /\ actual_size_ \in Nat /\ wild \in BOOLEAN
  /\ wild => buf_size_ = 0
  /\ ~ wild => actual_size_ <= buf_size_ /\ arrayBuffer \in Held(buf_size_, actual_size_)

\* Unless there were no cells at all a value finds room, once the buffer was
\* doubled if it must be.
LEMMA PushedHeld ==
  ASSUME ArrayInv, ~ wild, NEW v \in Vals
  PROVE  /\ A!Room \in Nat
         /\ ~ A!Fits => A!Room = 0
         /\ A!Fits => actual_size_ + 1 <= A!Room /\ A!Pushed(v) \in Held(A!Room, actual_size_ + 1)
<1> DEFINE n == actual_size_
           m == buf_size_
           W == Vals \cup {Junk, 0}
<1>1. n \in Nat /\ m \in Nat /\ n <= m /\ arrayBuffer \in [0 .. (m - 1) -> W]
      /\ \A k \in 0 .. (n - 1) : arrayBuffer[k] \in Vals
  BY DEF ArrayInv, Held
<1>2. /\ A!NoRoom <=> n = m
      /\ A!Room = IF n = m THEN 2 * m ELSE m
      /\ A!Fits <=> n < A!Room
  BY DEF A!NoRoom, A!Room, A!Fits
<1> DEFINE r == A!Room
<1>3. r \in Nat /\ (~ A!Fits => r = 0) /\ (A!Fits => n + 1 <= r) /\ m <= r
  BY <1>1, <1>2
<1>4. ASSUME A!Fits PROVE A!Pushed(v) \in Held(r, n + 1)
  <2>1. PICK b : /\ b = IF A!NoRoom THEN A!Reallocate ELSE arrayBuffer
                 /\ A!Pushed(v) = [b EXCEPT ![n] = v]
    BY <1>4 DEF A!Pushed
  <2>2. b \in [0 .. (r - 1) -> W] /\ \A k \in 0 .. (n - 1) : b[k] \in Vals
    <3>1. CASE n = m
      <4>1. r = 2 * m /\ b = [k \in 0 .. (2 * m - 1) |-> IF k < m THEN arrayBuffer[k] ELSE Junk]
        BY <1>2, <2>1, <3>1 DEF A!Reallocate
      <4>2. \A k \in 0 .. (2 * m - 1) : k < m => k \in 0 .. (m - 1) /\ arrayBuffer[k] \in W
        BY <1>1
      <4>3. b \in [0 .. (r - 1) -> W]
        BY <4>1, <4>2
      <4>4. \A k \in 0 .. (n - 1) : k \in 0 .. (2 * m - 1) /\ k < m
        BY <1>1, <3>1
      <4> QED
        BY <1>1, <4>1, <4>3, <4>4
    <3>2. CASE n # m
      <4>1. r = m /\ b = arrayBuffer
        BY <1>2, <2>1, <3>2
      <4> QED
        BY <1>1, <4>1
    <3> QED
      BY <3>1, <3>2
  <2>3. n \in 0 .. (r - 1) /\ \A k \in 0 .. ((n + 1) - 1) : k = n \/ k \in 0 .. (n - 1)
    BY <1>1, <1>3, <1>4
  <2>4. \A k \in 0 .. (n - 1) : k \in 0 .. (r - 1) /\ k # n
    BY <1>1, <1>3, <1>4
  <2> DEFINE c == [b EXCEPT ![n] = v]
  <2> HIDE DEF n, m, r
  <2>5. c \in [0 .. (r - 1) -> W]
    BY <2>2, <2>3
  <2>6. \A k \in 0 .. ((n + 1) - 1) : c[k] \in Vals
    BY <2>2, <2>3, <2>4
  <2> HIDE DEF c
  <2>7. c \in Held(r, n + 1)
    BY <2>5, <2>6 DEF Held
  <2> QED
    BY <2>1, <2>7 DEF c, n
<1> QED
  BY <1>3, <1>4

\* A pushed value that went in keeps the invariant, whatever rearrangement of
\* the stored cells follows.
LEMMA InsertedKeeps ==
  ASSUME ArrayInv, ~ wild, NEW v \in Vals, NEW b, A!Inserted(v, b),
         A!Fits => b \in Held(A!Room, actual_size_ + 1)
  PROVE  ArrayInv'
<1>1. /\ arrayBuffer' = b /\ buf_size_' = A!Room /\ actual_size_' = actual_size_ + 1
      /\ wild' = ~ A!Fits
  BY DEF A!Inserted
<1>2. /\ A!Room \in Nat /\ (~ A!Fits => A!Room = 0)
      /\ A!Fits => actual_size_ + 1 <= A!Room
  BY PushedHeld
<1>3. actual_size_ \in Nat
  BY DEF ArrayInv
<1>4. buf_size_' \in Nat /\ actual_size_' \in Nat /\ wild' \in BOOLEAN
  <2>1. wild' \in BOOLEAN
    BY <1>1, Zenon
  <2> QED
    BY <1>1, <1>2, <1>3, <2>1
<1>5. wild' => buf_size_' = 0
  BY <1>1, <1>2
<1>6. ~ wild' => actual_size_' <= buf_size_' /\ arrayBuffer' \in Held(buf_size_', actual_size_')
  <2> SUFFICES ASSUME ~ wild'
               PROVE  actual_size_' <= buf_size_' /\ arrayBuffer' \in Held(buf_size_', actual_size_')
    OBVIOUS
  <2>1. A!Fits
    BY <1>1
  <2> QED
    BY <1>1, <1>2, <2>1
<1> QED
  BY <1>4, <1>5, <1>6 DEF ArrayInv

\* Every operation keeps it.
LEMMA ArrayStep ==
  ASSUME ArrayInv, A!Next
  PROVE  ArrayInv'
<1>0. /\ ~ wild /\ buf_size_ \in Nat /\ actual_size_ \in Nat /\ actual_size_ <= buf_size_
      /\ arrayBuffer \in Held(buf_size_, actual_size_) /\ wild \in BOOLEAN
      /\ actual_size_ \in 0 .. buf_size_
  BY DEF ArrayInv, A!Next
<1>1. ASSUME NEW v \in Vals, A!PushBack(v) PROVE ArrayInv'
  <2>1. A!Inserted(v, A!Pushed(v))
    BY <1>1 DEF A!PushBack
  <2> QED
    BY <1>0, <2>1, PushedHeld, InsertedKeeps
<1>2. ASSUME NEW v \in Vals, A!Add(v) PROVE ArrayInv'
  <2> DEFINE b == IF A!Fits THEN A!SiftUp(A!Pushed(v), actual_size_) ELSE A!Pushed(v)
  <2>1. A!Inserted(v, b)
    BY <1>2 DEF A!Add
  <2>2. ASSUME A!Fits PROVE b \in Held(A!Room, actual_size_ + 1)
    <3>1. /\ A!Room \in Nat /\ actual_size_ + 1 \in 0 .. A!Room
          /\ A!Pushed(v) \in Held(A!Room, actual_size_ + 1)
          /\ actual_size_ \in 0 .. ((actual_size_ + 1) - 1)
      BY <1>0, <2>2, PushedHeld
    <3>2. A!SiftUp(A!Pushed(v), actual_size_) \in Held(A!Room, actual_size_ + 1)
      BY <3>1, SiftUpHeld
    <3> QED
      BY <2>2, <3>2
  <2> HIDE DEF b
  <2> QED
    BY <1>0, <2>1, <2>2, InsertedKeeps
<1>3. ASSUME UNCHANGED <<buf_size_, wild>>, actual_size_' \in 0 .. actual_size_,
             arrayBuffer' \in Held(buf_size_, actual_size_')
      PROVE  ArrayInv'
  BY <1>0, <1>3 DEF ArrayInv
<1>4. ASSUME NEW k \in Int, A!At(k) PROVE ArrayInv'
  BY <1>0, <1>3, <1>4 DEF A!At
<1>5. ASSUME NEW k \in DOMAIN arrayBuffer, NEW v \in Vals, A!Assign(k, v) PROVE ArrayInv'
  <2>1. /\ arrayBuffer' = [arrayBuffer EXCEPT ![k] = v]
        /\ UNCHANGED <<buf_size_, actual_size_, wild>>
    BY <1>5 DEF A!Assign
  <2>2. arrayBuffer' \in Held(buf_size_, actual_size_)
    BY <1>0, <2>1 DEF Held
  <2> QED
    BY <1>0, <1>3, <2>1, <2>2
<1>6. CASE A!PopBack
  <2>1. /\ UNCHANGED <<arrayBuffer, buf_size_, wild>>
        /\ \/ actual_size_' = actual_size_
           \/ actual_size_ # 0 /\ actual_size_' = actual_size_ - 1
    BY <1>6 DEF A!PopBack
  <2>2. actual_size_' \in 0 .. actual_size_
    BY <1>0, <2>1
  <2>3. arrayBuffer \in Held(buf_size_, actual_size_')
    <3>0. actual_size_ \in Nat /\ actual_size_' \in Nat /\ actual_size_' <= actual_size_
      BY <1>0, <2>2
    <3>1. \A k \in 0 .. (actual_size_' - 1) : k \in 0 .. (actual_size_ - 1)
      <4> DEFINE n == actual_size_
                 n1 == actual_size_'
      <4>1. n \in Nat /\ n1 \in Nat /\ n1 <= n
        BY <3>0
      <4> HIDE DEF n, n1
      <4>2. \A k \in 0 .. (n1 - 1) : k \in 0 .. (n - 1)
        BY <4>1
      <4> QED
        BY <4>2 DEF n, n1
    <3> QED
      BY <1>0, <3>1 DEF Held
  <2> QED
    BY <1>3, <2>1, <2>2, <2>3
<1>7. CASE A!MakeHeap
  <2> DEFINE j == actual_size_ \div 2 - 1
  <2>1. /\ UNCHANGED <<buf_size_, actual_size_, wild>>
        /\ arrayBuffer' = A!SiftAll(arrayBuffer, actual_size_, j)
    BY <1>7 DEF A!MakeHeap
  <2>2. j \in Int /\ -1 <= j /\ j < actual_size_
    BY <1>0
  <2> HIDE DEF j
  <2>3. arrayBuffer' \in Held(buf_size_, actual_size_)
    BY <1>0, <2>1, <2>2, SiftAllHeld
  <2> QED
    BY <1>0, <1>3, <2>1, <2>3
<1>8. CASE A!ExtractMax
  <2>1. CASE actual_size_ = 0
    BY <1>0, <1>3, <1>8, <2>1 DEF A!ExtractMax
  <2>2. CASE actual_size_ # 0
    <3> DEFINE n == actual_size_ - 1
               b == [arrayBuffer EXCEPT ![0] = arrayBuffer[n]]
    <3>1. /\ UNCHANGED <<buf_size_, wild>> /\ actual_size_' = n
          /\ arrayBuffer' = A!SiftDown(b, n, 0)
      BY <1>8, <2>2 DEF A!ExtractMax
    <3>2. n \in 0 .. actual_size_ /\ n \in 0 .. buf_size_ /\ (n = 0 \/ 0 < n) /\ n \in Nat
          /\ n \in 0 .. (actual_size_ - 1) /\ \A k \in 0 .. (n - 1) : k \in 0 .. (actual_size_ - 1)
      BY <1>0, <2>2
    <3>3. b \in Held(buf_size_, n)
      <4>1. /\ arrayBuffer \in [0 .. (buf_size_ - 1) -> Vals \cup {Junk, 0}]
            /\ arrayBuffer[n] \in Vals /\ \A k \in 0 .. (n - 1) : arrayBuffer[k] \in Vals
        BY <1>0, <3>2 DEF Held
      <4> HIDE DEF n
      <4>2. b \in [0 .. (buf_size_ - 1) -> Vals \cup {Junk, 0}]
        BY <4>1
      <4>3. \A k \in 0 .. (n - 1) : k \in 0 .. (buf_size_ - 1)
        BY <1>0, <3>2
      <4>4. \A k \in 0 .. (n - 1) : b[k] \in Vals
        BY <4>1, <4>3
      <4> QED
        BY <4>2, <4>4 DEF Held
    <3> HIDE DEF n, b
    <3>4. A!SiftDown(b, n, 0) \in Held(buf_size_, n)
      BY <1>0, <3>2, <3>3, SiftDownHeld
    <3> QED
      BY <1>3, <3>1, <3>2, <3>4
  <2> QED
    BY <2>1, <2>2
<1>9. CASE A!HeapMaximum
  BY <1>0, <1>3, <1>9 DEF A!HeapMaximum
<1>10. \A k \in -1 .. MaxLen : k \in Int
  OBVIOUS
<1> QED
  BY <1>1, <1>2, <1>4, <1>5, <1>6, <1>7, <1>8, <1>9, <1>10 DEF A!Next

\* It holds when the array was constructed.
LEMMA ArrayInitially ==
  ASSUME AllInit
  PROVE  ArrayInv
<1>1. /\ buf_size_ \in Nat /\ actual_size_ = 0 /\ wild = FALSE
      /\ arrayBuffer = [k \in 0 .. (buf_size_ - 1) |-> 0]
  BY ArrayAssumption DEF AllInit, A!Init
<1>2. arrayBuffer \in Held(buf_size_, actual_size_)
  BY <1>1 DEF Held
<1>3. actual_size_ \in Nat /\ actual_size_ <= buf_size_
  BY <1>1
<1>4. wild \in BOOLEAN /\ ~ wild
  BY <1>1
<1> QED
  BY <1>1, <1>2, <1>3, <1>4 DEF ArrayInv

\* For every set of values, every size the array is made with and any number
\* of calls, the array is written outside its buffer only if it was made without
\* room, and never hands out memory that nobody wrote: neither the doubling nor
\* the heap functions bring uninitialised cells below actual_size_.
THEOREM ArrayHolds == AllSpec => []ArrayWrittenInside
<1>1. AllInit => ArrayInv
  BY ArrayInitially
<1>2. ArrayInv /\ [AllNext]_allVars => ArrayInv'
  <2> SUFFICES ASSUME ArrayInv, [AllNext]_allVars PROVE ArrayInv'
    OBVIOUS
  <2>1. A!Next \/ UNCHANGED arrayVars
    BY DEF AllNext, allVars
  <2>2. CASE UNCHANGED arrayVars
    BY <2>2 DEF arrayVars, ArrayInv
  <2> QED
    BY <2>1, <2>2, ArrayStep
<1>3. ArrayInv => ArrayWrittenInside
  BY DEF ArrayInv, Held, ArrayWrittenInside, A!WrittenInside
<1> QED
  BY <1>1, <1>2, <1>3, PTL DEF AllSpec

(***************************************************************************)
(* How many of each value there are.                                       *)
(***************************************************************************)
\* Cells below n hold each value as often in b as in c.
SameCells(b, c, n) ==
  \A v : Cardinality(Of(b, 0 .. (n - 1), v)) = Cardinality(Of(c, 0 .. (n - 1), v))

\* One cell more holds one value more.
LEMMA OneCell ==
  ASSUME NEW D, IsFiniteSet(D), NEW x \in D, NEW b, NEW v
  PROVE  /\ Cardinality(Of(b, D, v)) \in Nat
         /\ Cardinality(Of(b, D \ {x}, v)) \in Nat
         /\ b[x] = v => Cardinality(Of(b, D, v)) = Cardinality(Of(b, D \ {x}, v)) + 1
         /\ b[x] # v => Cardinality(Of(b, D, v)) = Cardinality(Of(b, D \ {x}, v))
<1> DEFINE X == Of(b, D \ {x}, v)
           T == Of(b, D, v)
<1>1. IsFiniteSet(X) /\ IsFiniteSet(T)
  BY FS_Subset DEF Of
<1>2. Cardinality(X) \in Nat /\ Cardinality(T) \in Nat
  BY <1>1, FS_CardinalityType
<1>3. x \notin X
  BY DEF Of
<1>4. b[x] = v => T = X \cup {x}
  BY DEF Of
<1>5. b[x] # v => T = X
  BY DEF Of
<1> HIDE DEF X, T
<1>6. Cardinality(X \cup {x}) = Cardinality(X) + 1
  BY <1>1, <1>3, FS_AddElement
<1> QED
  BY <1>2, <1>4, <1>5, <1>6 DEF X, T

\* Cells with the same contents hold each value as often.
LEMMA SameContents ==
  ASSUME NEW D, NEW b, NEW c, \A x \in D : b[x] = c[x], NEW v
  PROVE  Of(b, D, v) = Of(c, D, v)
BY DEF Of

\* Two cells change places.
LEMMA SwapSame ==
  ASSUME NEW N \in Nat, NEW n \in 0 .. N, NEW b \in Held(N, n),
         NEW j \in 0 .. (n - 1), NEW k \in 0 .. (n - 1), NEW c, c = A!Swap(b, j, k)
  PROVE  /\ c[j] = b[k] /\ c[k] = b[j]
         /\ \A m \in 0 .. (n - 1) : m # j /\ m # k => c[m] = b[m]
         /\ SameCells(c, b, n)
<1> DEFINE D == 0 .. (n - 1)
           p == [m \in D |-> IF m = j THEN k ELSE IF m = k THEN j ELSE m]
<1>1. c = [b EXCEPT ![j] = b[k], ![k] = b[j]]
  BY DEF A!Swap
<1>2. DOMAIN b = 0 .. (N - 1) /\ \A m \in D : m \in 0 .. (N - 1)
  BY DEF Held
<1>3. c[j] = b[k] /\ c[k] = b[j] /\ \A m \in D : m # j /\ m # k => c[m] = b[m]
  BY <1>1, <1>2
<1>4. Moves(p, p, D)
  BY DEF Moves
<1>5. \A m \in D : c[m] = b[p[m]]
  BY <1>3
<1>6. IsFiniteSet(D)
  BY FS_Interval
<1> HIDE DEF p, D
<1>7. \A v : Cardinality(Of(c, D, v)) = Cardinality(Of(b, D, v))
  BY <1>4, <1>5, <1>6, MovedCount
<1> QED
  BY <1>3, <1>7 DEF D, SameCells

(***************************************************************************)
(* The order of the heap.                                                  *)
(***************************************************************************)
Par(q) == (q - 1) \div 2

\* A node lies above its children.
LEMMA Parents ==
  ASSUME NEW q \in Nat
  PROVE  /\ q # 0 => /\ Par(q) \in Nat /\ Par(q) < q
                     /\ q = 2 * Par(q) + 1 \/ q = 2 * Par(q) + 2
         /\ Par(2 * q + 1) = q /\ Par(2 * q + 2) = q
BY DEF Par

\* No child of a node from lo on is greater than it.
HeapFrom(c, n, lo) == \A q \in 1 .. (n - 1) : Par(q) >= lo => c[q] <= c[Par(q)]

\* The node m may be less than its children, none of which is greater than the
\* parent of m; the other nodes from lo on are in order.
Down(c, n, lo, m) ==
  /\ m >= lo
  /\ \A q \in 1 .. (n - 1) : /\ Par(q) >= lo /\ Par(q) # m => c[q] <= c[Par(q)]
                             /\ Par(q) = m /\ m # 0 /\ Par(m) >= lo => c[q] <= c[Par(m)]

\* Stored cells hold numbers.
LEMMA HeldNumbers ==
  ASSUME NEW N \in Nat, NEW n \in 0 .. N, NEW b \in Held(N, n)
  PROVE  \A q \in 0 .. (n - 1) : b[q] \in Int
BY HeapAssumption DEF Held

\* What the largest of a node and its children is.
LargestOf(c, n, m, l) ==
  /\ l \in 0 .. (n - 1) /\ c[m] <= c[l]
  /\ l # m => Par(l) = m /\ l # 0
  /\ \A q \in 1 .. (n - 1) : Par(q) = m => c[q] <= c[l]
  /\ (\A q \in 1 .. (n - 1) : Par(q) = m => c[q] <= c[m]) => l = m

\* SiftDown() goes on with the largest of a node and its children.
LEMMA LargestFound ==
  ASSUME NEW N \in Nat, NEW n \in 0 .. N, NEW c \in Held(N, n), NEW m \in 0 .. (n - 1),
         NEW l, l = A!Largest(c, n, m)
  PROVE  LargestOf(c, n, m, l)
<1> DEFINE left == 2 * m + 1
           right == 2 * m + 2
           larger == IF left < n /\ c[left] > c[m] THEN left ELSE m
<1>1. l = IF right < n /\ c[right] > c[larger] THEN right ELSE larger
  BY DEF A!Largest
<1>2. \A q \in 0 .. (n - 1) : c[q] \in Int
  BY HeldNumbers
<1>3. /\ m \in Nat /\ n \in Nat /\ left \in Nat /\ right \in Nat /\ left # 0 /\ right # 0
      /\ left # m /\ right # m
      /\ (left < n => left \in 0 .. (n - 1) /\ left \in 1 .. (n - 1))
      /\ (right < n => right \in 0 .. (n - 1) /\ right \in 1 .. (n - 1))
  OBVIOUS
<1>4. Par(left) = m /\ Par(right) = m
  BY <1>3, Parents
<1>5. \A q \in 1 .. (n - 1) : Par(q) = m => (q = left /\ left < n) \/ (q = right /\ right < n)
  <2> SUFFICES ASSUME NEW q \in 1 .. (n - 1), Par(q) = m
               PROVE  (q = left /\ left < n) \/ (q = right /\ right < n)
    OBVIOUS
  <2>1. q \in Nat /\ q # 0 /\ q < n
    BY <1>3
  <2>2. q = 2 * Par(q) + 1 \/ q = 2 * Par(q) + 2
    BY <2>1, Parents
  <2> QED
    BY <2>1, <2>2
<1>6. larger = left \/ larger = m
  OBVIOUS
<1> HIDE DEF left, right
<1>7. /\ larger \in 0 .. (n - 1) /\ c[m] <= c[larger] /\ c[larger] \in Int
      /\ left < n => c[left] <= c[larger]
      /\ larger # m => larger = left /\ left < n /\ c[left] > c[m]
  BY <1>2, <1>3
<1> HIDE DEF larger
<1>8. /\ l \in 0 .. (n - 1) /\ c[larger] <= c[l] /\ c[l] \in Int /\ c[m] <= c[l]
      /\ right < n => c[right] <= c[l]
      /\ l # larger => l = right /\ right < n /\ c[right] > c[larger]
      /\ left < n => c[left] <= c[l]
  BY <1>1, <1>2, <1>3, <1>7
<1>9. l # m => Par(l) = m /\ l # 0
  BY <1>3, <1>4, <1>6, <1>8
<1>10. \A q \in 1 .. (n - 1) : Par(q) = m => c[q] <= c[l]
  BY <1>5, <1>8
<1>11. ASSUME \A q \in 1 .. (n - 1) : Par(q) = m => c[q] <= c[m], l # m PROVE FALSE
  <2>1. (left < n => c[left] <= c[m]) /\ (right < n => c[right] <= c[m]) /\ c[m] \in Int
    BY <1>2, <1>3, <1>4, <1>11
  <2>2. larger = m
    BY <1>2, <1>3, <1>7, <2>1
  <2> QED
    BY <1>2, <1>3, <1>8, <1>11, <2>1, <2>2
<1> QED
  BY <1>8, <1>9, <1>10, <1>11 DEF LargestOf

\* A call of SiftDown() leaves the node where it is, or with its greatest child.
LEMMA SinkOrder ==
  ASSUME NEW N \in Nat, NEW n \in 0 .. N, NEW c \in Held(N, n), NEW m \in 0 .. (n - 1),
         NEW l, LargestOf(c, n, m, l), NEW d, d = A!Swap(c, m, l),
         NEW lo \in Nat, Down(c, n, lo, m)
  PROVE  /\ Down(d, n, lo, l)
         /\ HeapFrom(c, n, lo) \/ l = m => HeapFrom(d, n, lo)
         /\ l # m => l >= m + 1
<1> DEFINE Q == 1 .. (n - 1)
<1>0. /\ \A q \in Q : /\ q \in 0 .. (n - 1) /\ q \in Int /\ Par(q) \in 0 .. (n - 1) /\ Par(q) \in Int
                      /\ Par(q) < q
      /\ m \in Nat /\ m \in Int /\ l \in 0 .. (n - 1) /\ l \in Int /\ l \in Nat
  <2>1. ASSUME NEW q \in Q
        PROVE  /\ q \in 0 .. (n - 1) /\ q \in Int /\ Par(q) \in 0 .. (n - 1) /\ Par(q) \in Int
               /\ Par(q) < q
    <3>1. q \in Nat /\ q # 0 /\ q <= n - 1 /\ n \in Nat
      OBVIOUS
    <3>2. Par(q) \in Nat /\ Par(q) < q
      BY <3>1, Parents
    <3> QED
      BY <3>1, <3>2
  <2>2. l \in 0 .. (n - 1)
    BY DEF LargestOf
  <2> QED
    BY <2>1, <2>2
<1>1. /\ d[m] = c[l] /\ d[l] = c[m]
      /\ \A q \in 0 .. (n - 1) : q # m /\ q # l => d[q] = c[q]
  BY <1>0, SwapSame
<1>2. \A q \in 0 .. (n - 1) : c[q] \in Int
  BY HeldNumbers
<1>3. /\ c[m] <= c[l] /\ (l # m => Par(l) = m /\ l # 0)
      /\ \A q \in Q : Par(q) = m => c[q] <= c[l]
      /\ (\A q \in Q : Par(q) = m => c[q] <= c[m]) => l = m
  BY DEF LargestOf
<1>4. m >= lo /\ \A q \in Q : /\ Par(q) >= lo /\ Par(q) # m => c[q] <= c[Par(q)]
                              /\ Par(q) = m /\ m # 0 /\ Par(m) >= lo => c[q] <= c[Par(m)]
  BY DEF Down
<1>5. ASSUME l = m PROVE Down(d, n, lo, l) /\ HeapFrom(d, n, lo)
  <2>1. \A q \in 0 .. (n - 1) : d[q] = c[q]
    BY <1>1, <1>5
  <2>2. \A q \in Q : Par(q) >= lo => d[q] <= d[Par(q)]
    BY <1>0, <1>3, <1>4, <1>5, <2>1
  <2>3. Par(m) >= lo => (m # 0 => \A q \in Q : Par(q) = m => d[q] <= d[Par(m)])
    <3>1. m # 0 => m \in Q
      OBVIOUS
    <3> QED
      BY <1>0, <1>4, <2>1, <3>1
  <2> QED
    BY <1>4, <1>5, <2>2, <2>3 DEF Down, HeapFrom
<1>6. ASSUME l # m PROVE Down(d, n, lo, l) /\ l >= m + 1 /\ ~ HeapFrom(c, n, lo)
  <2>1. Par(l) = m /\ l \in Q /\ m < l /\ l >= lo
    <3>1. Par(l) = m /\ l # 0
      BY <1>3, <1>6
    <3>2. l \in Q
      BY <1>0, <3>1
    <3> QED
      BY <1>0, <1>4, <3>1, <3>2
  <2>2. ASSUME NEW q \in Q, Par(q) >= lo, Par(q) # l PROVE d[q] <= d[Par(q)]
    <3>1. q # Par(q) /\ q \in 0 .. (n - 1) /\ Par(q) \in 0 .. (n - 1)
      BY <1>0
    <3>2. CASE Par(q) = m /\ q = l
      BY <1>1, <1>3, <3>2
    <3>3. CASE Par(q) = m /\ q # l
      BY <1>1, <1>3, <3>1, <3>3
    <3>4. CASE Par(q) # m /\ q = m
      <4>1. c[l] <= c[Par(m)]
        BY <1>4, <2>1, <2>2, <3>4
      <4> QED
        BY <1>1, <2>2, <3>1, <3>4, <4>1
    <3>5. CASE Par(q) # m /\ q # m
      <4>1. q # l
        BY <2>1, <3>5
      <4> QED
        BY <1>1, <1>4, <2>2, <3>1, <3>5, <4>1
    <3> QED
      BY <3>2, <3>3, <3>4, <3>5
  <2>3. ASSUME NEW q \in Q, Par(q) = l PROVE d[q] <= d[Par(l)]
    <3>1. q \in 0 .. (n - 1) /\ q # l /\ q # m /\ l >= lo
      BY <1>0, <2>1, <2>3
    <3>2. c[q] <= c[l]
      BY <1>4, <1>6, <2>3, <3>1
    <3> QED
      BY <1>1, <2>1, <3>1, <3>2
  <2>4. ~ HeapFrom(c, n, lo)
    <3> SUFFICES ASSUME HeapFrom(c, n, lo) PROVE FALSE
      OBVIOUS
    <3>1. \A q \in Q : Par(q) = m => c[q] <= c[m]
      BY <1>4 DEF HeapFrom
    <3> QED
      BY <1>3, <1>6, <3>1
  <2>5. l >= m + 1
    BY <1>0, <2>1
  <2> QED
    BY <2>1, <2>2, <2>3, <2>4, <2>5 DEF Down
<1> QED
  BY <1>5, <1>6

\* SiftDown() keeps the values, and puts the heap in order from a node on if it
\* was in order from the next node on.
LEMMA SiftDownOrder ==
  ASSUME NEW N \in Nat, NEW n \in 0 .. N, NEW b \in Held(N, n), NEW j \in Nat, n = 0 \/ j < n,
         NEW c, c = A!SiftDown(b, n, j)
  PROVE  SameCells(c, b, n) /\ (HeapFrom(b, n, j + 1) => HeapFrom(c, n, j))
<1> DEFINE D == Held(N, n) \X {m \in Nat : n = 0 \/ m < n}
<1>1. PICK s : Sinking(s, D, b, n, j)
  BY SiftDownSteps
<1>2. /\ s[0] = <<b, j>> /\ \A k \in 1 .. n : s[k] = Sunk(s[k - 1], n)
      /\ \A k \in 0 .. n : s[k] \in D
      /\ c = s[n][1] /\ n \in Nat
  BY <1>1 DEF Sinking
<1>3. CASE n = 0
  <2>1. c = b
    BY <1>2, <1>3
  <2>2. \A q \in 1 .. (n - 1) : FALSE
    BY <1>3
  <2> QED
    BY <2>1, <2>2 DEF SameCells, HeapFrom
<1>4. CASE n # 0
  <2> DEFINE Sank(k) ==
        /\ SameCells(s[k][1], b, n)
        /\ HeapFrom(b, n, j + 1) => /\ Down(s[k][1], n, j, s[k][2])
                                    /\ HeapFrom(s[k][1], n, j) \/ s[k][2] >= j + k
             T == {k \in 0 .. n : Sank(k)}
  <2>0. \A k \in 0 .. n : s[k][1] \in Held(N, n) /\ s[k][2] \in 0 .. (n - 1)
    BY <1>2, <1>4
  <2>1. Sank(0)
    <3>1. s[0][1] = b /\ s[0][2] = j
      BY <1>2
    <3>2. SameCells(b, b, n)
      BY DEF SameCells
    <3>3. ASSUME HeapFrom(b, n, j + 1) PROVE Down(b, n, j, j)
      <4>1. ASSUME NEW q \in 1 .. (n - 1), Par(q) >= j, Par(q) # j PROVE b[q] <= b[Par(q)]
        <5>1. q \in Nat /\ q # 0
          OBVIOUS
        <5>2. Par(q) \in Nat
          BY <5>1, Parents
        <5>3. Par(q) >= j + 1
          BY <4>1, <5>2
        <5> QED
          BY <3>3, <5>3 DEF HeapFrom
      <4>2. j # 0 => ~ (Par(j) >= j)
        <5>1. j # 0 => Par(j) \in Nat /\ Par(j) < j
          BY Parents
        <5> QED
          BY <5>1
      <4> QED
        BY <4>1, <4>2 DEF Down
    <3> QED
      BY <3>1, <3>2, <3>3
  <2>2. ASSUME NEW k \in 1 .. n, Sank(k - 1) PROVE Sank(k)
    <3>1. k - 1 \in 0 .. n /\ k \in 0 .. n /\ k \in Int
      BY <1>2
    <3> DEFINE x == s[k - 1][1]
               m == s[k - 1][2]
               l == A!Largest(x, n, m)
               d == A!Swap(x, m, l)
    <3>2. x \in Held(N, n) /\ m \in 0 .. (n - 1)
      BY <2>0, <3>1
    <3>3. s[k][1] = d /\ s[k][2] = l
      BY <1>2 DEF Sunk
    <3>4. SameCells(x, b, n)
      BY <2>2
    <3>5. ASSUME HeapFrom(b, n, j + 1) PROVE Down(x, n, j, m) /\ (HeapFrom(x, n, j) \/ m >= j + (k - 1))
      BY <2>2, <3>5
    <3> HIDE DEF x, m
    <3>6. LargestOf(x, n, m, l)
      BY <3>2, LargestFound
    <3>7. l \in 0 .. (n - 1)
      BY <3>6 DEF LargestOf
    <3> HIDE DEF l
    <3>8. SameCells(d, x, n)
      BY <3>2, <3>7, SwapSame
    <3>9. d = A!Swap(x, m, l)
      OBVIOUS
    <3> HIDE DEF d
    <3>10. ASSUME HeapFrom(b, n, j + 1) PROVE Down(d, n, j, l) /\ (HeapFrom(d, n, j) \/ l >= j + k)
      <4>1. /\ Down(d, n, j, l)
            /\ HeapFrom(x, n, j) \/ l = m => HeapFrom(d, n, j)
            /\ l # m => l >= m + 1
        BY <3>2, <3>5, <3>6, <3>9, <3>10, SinkOrder
      <4>2. m >= j + (k - 1) /\ l >= m + 1 => l >= j + k
        BY <3>1, <3>2, <3>7
      <4> QED
        BY <3>5, <3>10, <4>1, <4>2
    <3> QED
      BY <3>3, <3>4, <3>8, <3>10 DEF SameCells
  <2>3. \A k \in 0 .. n : k \in T
    <3>1. 0 \in T
      BY <1>2, <2>1
    <3>2. \A k \in 1 .. n : k - 1 \in T => k \in T
      <4> HIDE DEF Sank
      <4>1. \A k \in 1 .. n : k \in 0 .. n
        BY <1>2
      <4> QED
        BY <2>2, <4>1
    <3> HIDE DEF T
    <3> QED
      BY <1>2, <3>1, <3>2, Counting, Zenon
  <2>4. Sank(n)
    BY <1>2, <2>3
  <2>5. ~ (s[n][2] >= j + n)
    <3>1. s[n][2] \in 0 .. (n - 1)
      BY <1>2, <2>0
    <3> QED
      BY <1>2, <3>1
  <2> QED
    BY <1>2, <2>4, <2>5
<1> QED
  BY <1>3, <1>4

\* The node m may be greater than its parent, than which none of the children
\* of m is greater; the other nodes are in order.
Up(c, n, m) ==
  \A q \in 1 .. (n - 1) : /\ q # m => c[q] <= c[Par(q)]
                          /\ Par(q) = m /\ m # 0 => c[q] <= c[Par(m)]

\* A call of SiftUp() puts the node in its place, or takes it to its parent's.
LEMMA RiseOrder ==
  ASSUME NEW N \in Nat, NEW n \in 0 .. N, NEW c \in Held(N, n), NEW m \in 0 .. (n - 1), m # 0,
         NEW p, p = Par(m), ~ (c[m] <= c[p]), NEW d, d = A!Swap(c, m, p), Up(c, n, m)
  PROVE  p \in 0 .. (n - 1) /\ p <= m - 1 /\ Up(d, n, p) /\ ~ HeapFrom(c, n, 0)
<1> DEFINE Q == 1 .. (n - 1)
<1>0. \A q \in Q : /\ q \in 0 .. (n - 1) /\ q \in Int /\ Par(q) \in 0 .. (n - 1) /\ Par(q) \in Int
                   /\ Par(q) < q /\ Par(q) >= 0
  <2> SUFFICES ASSUME NEW q \in Q
               PROVE  /\ q \in 0 .. (n - 1) /\ q \in Int /\ Par(q) \in 0 .. (n - 1) /\ Par(q) \in Int
                      /\ Par(q) < q /\ Par(q) >= 0
    OBVIOUS
  <2>1. q \in Nat /\ q # 0 /\ q <= n - 1 /\ n \in Nat
    OBVIOUS
  <2>2. Par(q) \in Nat /\ Par(q) < q
    BY <2>1, Parents
  <2> QED
    BY <2>1, <2>2
<1>1. m \in Q /\ p \in 0 .. (n - 1) /\ p < m /\ p \in Int /\ m \in Int /\ p >= 0
  BY <1>0
<1>2. /\ d[m] = c[p] /\ d[p] = c[m]
      /\ \A q \in 0 .. (n - 1) : q # m /\ q # p => d[q] = c[q]
  BY <1>1, SwapSame
<1>3. \A q \in 0 .. (n - 1) : c[q] \in Int
  BY HeldNumbers
<1>4. c[p] <= c[m] /\ c[p] \in Int /\ c[m] \in Int
  BY <1>1, <1>3
<1>5. \A q \in Q : (q # m => c[q] <= c[Par(q)]) /\ (Par(q) = m => c[q] <= c[p])
  BY DEF Up
<1>6. ASSUME NEW q \in Q, q # p PROVE d[q] <= d[Par(q)]
  <2>1. q \in 0 .. (n - 1) /\ Par(q) \in 0 .. (n - 1) /\ Par(q) # q
    BY <1>0
  <2>2. CASE q = m
    BY <1>2, <1>4, <2>2
  <2>3. CASE q # m /\ Par(q) = m
    BY <1>2, <1>5, <1>6, <2>1, <2>3
  <2>4. CASE q # m /\ Par(q) = p
    <3>1. c[q] <= c[p] /\ d[q] = c[q] /\ d[Par(q)] = c[m] /\ c[q] \in Int
      BY <1>2, <1>3, <1>5, <1>6, <2>1, <2>4
    <3> QED
      BY <1>4, <3>1
  <2>5. CASE q # m /\ Par(q) # m /\ Par(q) # p
    BY <1>2, <1>5, <1>6, <2>1, <2>5
  <2> QED
    BY <2>2, <2>3, <2>4, <2>5
<1>7. ASSUME NEW q \in Q, Par(q) = p, p # 0 PROVE d[q] <= d[Par(p)]
  <2>1. p \in Q /\ p # m
    BY <1>1, <1>7
  <2>2. c[p] <= c[Par(p)] /\ Par(p) \in 0 .. (n - 1) /\ Par(p) # p /\ Par(p) # m
    BY <1>0, <1>1, <1>5, <2>1
  <2>3. d[Par(p)] = c[Par(p)] /\ c[Par(p)] \in Int
    BY <1>2, <1>3, <2>2
  <2>4. CASE q = m
    BY <1>2, <2>2, <2>3, <2>4
  <2>5. CASE q # m
    <3>1. c[q] <= c[p] /\ d[q] = c[q] /\ c[q] \in Int
      BY <1>0, <1>2, <1>3, <1>5, <1>7, <2>5
    <3> QED
      BY <1>4, <2>2, <2>3, <3>1
  <2> QED
    BY <2>4, <2>5
<1>8. ~ HeapFrom(c, n, 0)
  BY <1>1 DEF HeapFrom
<1>9. p <= m - 1
  BY <1>1
<1> QED
  BY <1>1, <1>6, <1>7, <1>8, <1>9 DEF Up

\* SiftUp() keeps the values, and puts a heap in order to which a last node was
\* added.
LEMMA SiftUpOrder ==
  ASSUME NEW N \in Nat, NEW n \in 0 .. N, NEW b \in Held(N, n), NEW j, j = n - 1, n # 0,
         NEW c, c = A!SiftUp(b, j)
  PROVE  SameCells(c, b, n) /\ (HeapFrom(b, j, 0) => HeapFrom(c, n, 0))
<1> DEFINE D == Held(N, n) \X (0 .. (n - 1))
<1>0. j \in 0 .. (n - 1) /\ j \in Nat /\ n \in Nat
  OBVIOUS
<1>1. PICK s : Rising(s, D, b, j)
  BY <1>0, SiftUpSteps
<1>2. /\ s[0] = <<b, j>> /\ \A k \in 1 .. j : s[k] = Risen(s[k - 1])
      /\ \A k \in 0 .. j : s[k] \in D
      /\ c = s[j][1]
  BY <1>1 DEF Rising
<1> DEFINE Rose(k) ==
      /\ SameCells(s[k][1], b, n)
      /\ HeapFrom(b, j, 0) => /\ Up(s[k][1], n, s[k][2])
                              /\ HeapFrom(s[k][1], n, 0) \/ s[k][2] <= j - k
           T == {k \in 0 .. j : Rose(k)}
<1>3. \A k \in 0 .. j : s[k][1] \in Held(N, n) /\ s[k][2] \in 0 .. (n - 1)
  BY <1>2
<1>4. Rose(0)
  <2>1. s[0][1] = b /\ s[0][2] = j
    BY <1>2
  <2>2. SameCells(b, b, n)
    BY DEF SameCells
  <2>3. ASSUME HeapFrom(b, j, 0) PROVE Up(b, n, j)
    <3> SUFFICES ASSUME NEW q \in 1 .. (n - 1)
                 PROVE  (q # j => b[q] <= b[Par(q)]) /\ Par(q) # j
      BY DEF Up
    <3>1. q \in Nat /\ q # 0
      OBVIOUS
    <3>2. Par(q) \in Nat /\ Par(q) < q
      BY <3>1, Parents
    <3>3. Par(q) # j /\ Par(q) >= 0 /\ (q # j => q \in 1 .. (j - 1))
      BY <1>0, <3>1, <3>2
    <3> QED
      BY <2>3, <3>3 DEF HeapFrom
  <2>4. j <= j - 0
    BY <1>0
  <2> QED
    BY <2>1, <2>2, <2>3, <2>4
<1>5. ASSUME NEW k \in 1 .. j, Rose(k - 1) PROVE Rose(k)
  <2>1. k - 1 \in 0 .. j /\ k \in 0 .. j /\ k \in Int
    BY <1>0
  <2> DEFINE x == s[k - 1][1]
             m == s[k - 1][2]
             p == Par(m)
             d == A!Swap(x, m, p)
  <2>2. x \in Held(N, n) /\ m \in 0 .. (n - 1)
    BY <1>3, <2>1
  <2>3. IF m = 0 \/ x[m] <= x[p] THEN s[k][1] = x /\ s[k][2] = m ELSE s[k][1] = d /\ s[k][2] = p
    <3>1. s[k] = Risen(s[k - 1])
      BY <1>2
    <3>2. Risen(s[k - 1]) = IF m = 0 \/ x[m] <= x[p] THEN <<x, m>> ELSE <<d, p>>
      BY DEF Risen, Par
    <3> HIDE DEF x, m, p, d
    <3> QED
      BY <3>1, <3>2
  <2>4. SameCells(x, b, n)
    BY <1>5
  <2>5. ASSUME HeapFrom(b, j, 0) PROVE Up(x, n, m) /\ (HeapFrom(x, n, 0) \/ m <= j - (k - 1))
    BY <1>5, <2>5
  <2>6. p = Par(m) /\ d = A!Swap(x, m, p)
    OBVIOUS
  <2> HIDE DEF x, m, p, d
  <2>7. CASE m = 0 \/ x[m] <= x[p]
    <3>1. s[k][1] = x /\ s[k][2] = m
      BY <2>3, <2>7
    <3>2. ASSUME HeapFrom(b, j, 0) PROVE HeapFrom(x, n, 0)
      <4>1. Up(x, n, m)
        BY <2>5, <3>2
      <4> QED
        BY <2>6, <2>7, <4>1 DEF Up, HeapFrom
    <3> QED
      BY <2>4, <2>5, <3>1, <3>2
  <2>8. CASE ~ (m = 0 \/ x[m] <= x[p])
    <3>1. s[k][1] = d /\ s[k][2] = p
      BY <2>3, <2>8
    <3>2. p \in 0 .. (n - 1)
      <4>1. m \in Nat /\ m # 0 /\ m <= n - 1
        BY <1>0, <2>2, <2>8
      <4>2. p \in Nat /\ p < m
        BY <2>6, <4>1, Parents
      <4> QED
        BY <1>0, <4>1, <4>2
    <3>3. SameCells(d, x, n)
      BY <2>2, <2>6, <3>2, SwapSame
    <3>4. ASSUME HeapFrom(b, j, 0) PROVE Up(d, n, p) /\ p <= j - k
      <4>1. p <= m - 1 /\ Up(d, n, p) /\ ~ HeapFrom(x, n, 0)
        BY <2>2, <2>5, <2>6, <2>8, <3>4, RiseOrder
      <4>2. m <= j - (k - 1)
        BY <2>5, <3>4, <4>1
      <4>3. p <= j - k
        BY <1>0, <2>1, <2>2, <3>2, <4>1, <4>2
      <4> QED
        BY <4>1, <4>3
    <3> QED
      BY <2>4, <3>1, <3>3, <3>4 DEF SameCells
  <2> QED
    BY <2>7, <2>8
<1>6. \A k \in 0 .. j : k \in T
  <2>1. 0 \in T
    BY <1>0, <1>4
  <2>2. \A k \in 1 .. j : k - 1 \in T => k \in T
    <3> HIDE DEF Rose
    <3>1. \A k \in 1 .. j : k \in 0 .. j
      BY <1>0
    <3> QED
      BY <1>5, <3>1
  <2> HIDE DEF T
  <2> QED
    BY <1>0, <2>1, <2>2, Counting, Zenon
<1>7. Rose(j)
  BY <1>0, <1>6
<1>8. ASSUME Up(s[j][1], n, s[j][2]), s[j][2] <= j - j PROVE HeapFrom(s[j][1], n, 0)
  <2>1. s[j][2] \in 0 .. (n - 1)
    BY <1>0, <1>3
  <2>2. s[j][2] = 0
    BY <1>0, <1>8, <2>1
  <2>3. \A q \in 1 .. (n - 1) : q # 0
    BY <1>0
  <2> QED
    BY <1>8, <2>2, <2>3 DEF Up, HeapFrom
<1> QED
  BY <1>2, <1>7, <1>8

\* MakeHeap() keeps the values, and puts the whole heap in order.
LEMMA SiftAllOrder ==
  ASSUME NEW N \in Nat, NEW n \in 0 .. N, NEW b \in Held(N, n),
         NEW c, c = A!SiftAll(b, n, n \div 2 - 1)
  PROVE  SameCells(c, b, n) /\ HeapFrom(c, n, 0)
<1> DEFINE m == n \div 2
<1>0. m \in Nat /\ m <= n /\ (m = 0 \/ m <= n - 1) /\ n \in Nat
      /\ m - 1 \in Int /\ -1 <= m - 1 /\ m - 1 < n /\ (m - 1) + 1 = m /\ n < 2 * m + 2
  OBVIOUS
<1>1. PICK s : Sifting(s, Held(N, n), b, n, m)
  <2>1. c = A!SiftAll(b, n, m - 1)
    OBVIOUS
  <2> HIDE DEF m
  <2>2. \E s : Sifting(s, Held(N, n), b, n, (m - 1) + 1)
    BY <1>0, SiftAllSteps
  <2> QED
    BY <1>0, <2>2
<1>2. /\ s[0] = b /\ \A k \in 1 .. m : s[k] = A!SiftDown(s[k - 1], n, m - k)
      /\ \A k \in 0 .. m : s[k] \in Held(N, n)
      /\ c = s[m]
  BY <1>1 DEF Sifting
<1> HIDE DEF m
<1> DEFINE T == {k \in 0 .. m : SameCells(s[k], b, n) /\ HeapFrom(s[k], n, m - k)}
<1>3. 0 \in T
  <2>1. SameCells(b, b, n)
    BY DEF SameCells
  <2>2. ASSUME NEW q \in 1 .. (n - 1) PROVE ~ (Par(q) >= m - 0)
    <3>1. q \in Nat /\ q # 0
      OBVIOUS
    <3>2. Par(q) \in Nat /\ (q = 2 * Par(q) + 1 \/ q = 2 * Par(q) + 2)
      BY <3>1, Parents
    <3> QED
      BY <1>0, <3>1, <3>2
  <2> QED
    BY <1>0, <1>2, <2>1, <2>2 DEF HeapFrom
<1>4. ASSUME NEW k \in 1 .. m, k - 1 \in T PROVE k \in T
  <2>1. /\ k - 1 \in 0 .. m /\ k \in 0 .. m /\ m - k \in Nat /\ m - k < n
        /\ (m - k) + 1 = m - (k - 1)
    BY <1>0
  <2>2. SameCells(s[k - 1], b, n) /\ HeapFrom(s[k - 1], n, m - (k - 1))
    BY <1>4
  <2>3. s[k - 1] \in Held(N, n) /\ s[k] = A!SiftDown(s[k - 1], n, m - k)
    BY <1>2, <2>1
  <2>4. SameCells(s[k], s[k - 1], n)
        /\ (HeapFrom(s[k - 1], n, (m - k) + 1) => HeapFrom(s[k], n, m - k))
    BY <2>1, <2>3, SiftDownOrder
  <2> QED
    BY <2>1, <2>2, <2>4 DEF SameCells
<1>5. \A k \in 0 .. m : k \in T
  <2> HIDE DEF T
  <2> QED
    BY <1>0, <1>3, <1>4, Counting, Zenon
<1>6. m \in T /\ m - m = 0
  BY <1>0, <1>5
<1> QED
  BY <1>2, <1>6

\* The root of a heap in order is a greatest value.
LEMMA RootGreatest ==
  ASSUME NEW N \in Nat, NEW n \in 0 .. N, NEW c \in Held(N, n), HeapFrom(c, n, 0)
  PROVE  \A q \in 0 .. (n - 1) : c[q] <= c[0]
<1> DEFINE Bad == {q \in 0 .. (n - 1) : ~ (c[q] <= c[0])}
<1>1. SUFFICES ASSUME Bad # {} PROVE FALSE
  OBVIOUS
<1>2. \A q \in 0 .. (n - 1) : c[q] \in Int
  BY HeldNumbers
<1>3. PICK q \in Bad : \A y \in Bad : q <= y
  <2>1. Bad \in SUBSET Nat
    OBVIOUS
  <2> HIDE DEF Bad
  <2> QED
    BY <1>1, <2>1, LeastOne
<1>4. q \in 0 .. (n - 1) /\ ~ (c[q] <= c[0]) /\ 0 \in 0 .. (n - 1)
  BY <1>3
<1>5. q # 0
  BY <1>2, <1>4
<1>6. q \in Nat /\ q \in 1 .. (n - 1)
  BY <1>4, <1>5
<1>7. Par(q) \in Nat /\ Par(q) < q
  BY <1>5, <1>6, Parents
<1>8. Par(q) \in 0 .. (n - 1) /\ ~ (q <= Par(q)) /\ Par(q) >= 0
  BY <1>6, <1>7
<1>9. c[Par(q)] <= c[0]
  BY <1>3, <1>8
<1>10. c[q] <= c[Par(q)]
  BY <1>6, <1>8 DEF HeapFrom
<1> QED
  BY <1>2, <1>4, <1>8, <1>9, <1>10

(***************************************************************************)
(* The array as a priority queue.                                          *)
(***************************************************************************)
\* How many of the first n cells hold v.
Counted(b, n, v) == Cardinality(Of(b, 0 .. (n - 1), v))

\* The bag of PriorityQueue that the array implements.
Bag == [v \in Vals |-> A!Cardinality(A!Stored(v))]

\* A cell is added behind the first n.
LEMMA AddedCell ==
  ASSUME NEW n \in Nat, NEW b, NEW c, \A q \in 0 .. (n - 1) : c[q] = b[q], NEW u
  PROVE  /\ Counted(b, n, u) \in Nat /\ Counted(c, n + 1, u) \in Nat
         /\ c[n] = u => Counted(c, n + 1, u) = Counted(b, n, u) + 1
         /\ c[n] # u => Counted(c, n + 1, u) = Counted(b, n, u)
<1> DEFINE D == 0 .. n
           E == 0 .. (n - 1)
<1>1. (n + 1) - 1 = n /\ D \ {n} = E /\ n \in D /\ IsFiniteSet(D)
  <2>0. 0 \in Int /\ n \in Int
    OBVIOUS
  <2>1. IsFiniteSet(D)
    BY <2>0, FS_Interval
  <2>2. (n + 1) - 1 = n /\ D \ {n} = E /\ n \in D
    OBVIOUS
  <2> QED
    BY <2>1, <2>2
<1>2. \A q \in E : c[q] = b[q]
  OBVIOUS
<1> HIDE DEF D, E
<1>3. Of(c, E, u) = Of(b, E, u)
  BY <1>2, SameContents
<1>4. /\ Cardinality(Of(c, D, u)) \in Nat
      /\ Cardinality(Of(c, E, u)) \in Nat
      /\ c[n] = u => Cardinality(Of(c, D, u)) = Cardinality(Of(c, E, u)) + 1
      /\ c[n] # u => Cardinality(Of(c, D, u)) = Cardinality(Of(c, E, u))
  <2> DEFINE F == D \ {n}
  <2>1. /\ Cardinality(Of(c, D, u)) \in Nat
        /\ Cardinality(Of(c, F, u)) \in Nat
        /\ c[n] = u => Cardinality(Of(c, D, u)) = Cardinality(Of(c, F, u)) + 1
        /\ c[n] # u => Cardinality(Of(c, D, u)) = Cardinality(Of(c, F, u))
    BY <1>1, OneCell
  <2>2. F = E
    BY <1>1
  <2> HIDE DEF F
  <2> QED
    BY <2>1, <2>2
<1>5. Counted(c, n + 1, u) = Cardinality(Of(c, D, u)) /\ Counted(b, n, u) = Cardinality(Of(b, E, u))
  BY <1>1 DEF Counted, D, E
<1> QED
  BY <1>3, <1>4, <1>5

\* Only values that are there are counted.
LEMMA CountedCells ==
  ASSUME NEW n \in Nat, NEW b, NEW u
  PROVE  /\ Counted(b, n, u) \in Nat
         /\ Counted(b, n, u) > 0 <=> \E q \in 0 .. (n - 1) : b[q] = u
<1> DEFINE X == Of(b, 0 .. (n - 1), u)
<1>1. IsFiniteSet(0 .. (n - 1))
  BY FS_Interval
<1>2. IsFiniteSet(X)
  BY <1>1, FS_Subset DEF Of
<1>3. X # {} <=> \E q \in 0 .. (n - 1) : b[q] = u
  BY DEF Of
<1> HIDE DEF X
<1>4. Cardinality(X) \in Nat /\ (Cardinality(X) = 0 <=> X = {})
  BY <1>2, FS_CardinalityType, FS_EmptySet
<1> QED
  BY <1>3, <1>4 DEF Counted, X

\* The cells the bag counts.
LEMMA StoredCells ==
  ASSUME NEW N \in Nat, NEW n \in 0 .. N, NEW b \in Held(N, n), NEW v
  PROVE  {i \in 0 .. (n - 1) : i \in DOMAIN b /\ b[i] = v} = Of(b, 0 .. (n - 1), v)
<1>1. DOMAIN b = 0 .. (N - 1) /\ \A i \in 0 .. (n - 1) : i \in 0 .. (N - 1)
  BY DEF Held
<1> QED
  BY <1>1 DEF Of

\* What the bag counts, as long as nothing was written outside the buffer.
LEMMA BagCounts ==
  ASSUME ArrayInv, ~ wild
  PROVE  Bag = [v \in Vals |-> Counted(arrayBuffer, actual_size_, v)]
<1>1. /\ buf_size_ \in Nat /\ actual_size_ \in 0 .. buf_size_
      /\ arrayBuffer \in Held(buf_size_, actual_size_)
  BY DEF ArrayInv
<1>2. ASSUME NEW v PROVE A!Stored(v) = Of(arrayBuffer, 0 .. (actual_size_ - 1), v)
  BY <1>1, StoredCells DEF A!Stored
<1>3. \A X : A!Cardinality(X) = Cardinality(X)
  BY DEF A!Cardinality, Cardinality
<1>4. ASSUME NEW v PROVE A!Cardinality(A!Stored(v)) = Counted(arrayBuffer, actual_size_, v)
  BY <1>2, <1>3 DEF Counted
<1> QED
  BY <1>4 DEF Bag

\* So it does after a step.
LEMMA BagCountsNext ==
  ASSUME ArrayInv', ~ wild'
  PROVE  Bag' = [v \in Vals |-> Counted(arrayBuffer', actual_size_', v)]
<1>1. /\ buf_size_' \in Nat /\ actual_size_' \in 0 .. buf_size_'
      /\ arrayBuffer' \in Held(buf_size_', actual_size_')
  BY DEF ArrayInv
<1>2. ASSUME NEW v PROVE A!Stored(v)' = Of(arrayBuffer', 0 .. (actual_size_' - 1), v)
  BY <1>1, StoredCells DEF A!Stored
<1>3. \A X : A!Cardinality(X) = Cardinality(X)
  BY DEF A!Cardinality, Cardinality
<1>4. ASSUME NEW v PROVE A!Cardinality(A!Stored(v))' = Counted(arrayBuffer', actual_size_', v)
  BY <1>2, <1>3 DEF Counted
<1> QED
  BY <1>4 DEF Bag

\* In an array that went well: what it stores is counted, and the root of a heap
\* in order is a greatest value.
LEMMA BagHolds ==
  ASSUME ArrayInv, ~ wild
  PROVE  /\ A!Heap!IsEmpty <=> actual_size_ = 0
         /\ \A q \in 0 .. (actual_size_ - 1) :
              arrayBuffer[q] \in Vals /\ A!Heap!Has(arrayBuffer[q]) /\ Bag[arrayBuffer[q]] \in Nat
         /\ HeapFrom(arrayBuffer, actual_size_, 0) /\ actual_size_ # 0 =>
              A!Heap!Greatest(arrayBuffer[0])
<1> DEFINE n == actual_size_
           b == arrayBuffer
           N == buf_size_
<1>1. N \in Nat /\ n \in 0 .. N /\ b \in Held(N, n) /\ n \in Nat
  BY DEF ArrayInv
<1>2. Bag = [v \in Vals |-> Counted(b, n, v)]
  BY BagCounts
<1>3. \A q \in 0 .. (n - 1) : b[q] \in Vals
  BY <1>1 DEF Held
<1>4. A!Heap!IsEmpty <=> \A v \in Vals : Bag[v] = 0
  BY DEF A!Heap!IsEmpty, Bag
<1>5. \A v \in Vals : A!Heap!Has(v) <=> Bag[v] > 0
  BY DEF A!Heap!Has, Bag
<1>6. \A v \in Vals : /\ Bag[v] \in Nat
                      /\ Bag[v] > 0 <=> \E q \in 0 .. (n - 1) : b[q] = v
  BY <1>1, <1>2, CountedCells
<1> HIDE DEF n, b, N
<1>7. \A q \in 0 .. (n - 1) : A!Heap!Has(b[q]) /\ Bag[b[q]] \in Nat
  BY <1>3, <1>5, <1>6
<1>8. A!Heap!IsEmpty <=> n = 0
  <2>1. n # 0 => 0 \in 0 .. (n - 1)
    BY <1>1
  <2>2. n # 0 => b[0] \in Vals /\ Bag[b[0]] > 0
    BY <1>3, <1>6, <2>1
  <2>3. n = 0 => \A q \in 0 .. (n - 1) : FALSE
    OBVIOUS
  <2>4. n = 0 => \A v \in Vals : Bag[v] = 0
    BY <1>6, <2>3
  <2> QED
    BY <1>4, <2>2, <2>4
<1>9. ASSUME HeapFrom(b, n, 0), n # 0 PROVE A!Heap!Greatest(b[0])
  <2>1. 0 \in 0 .. (n - 1)
    BY <1>1, <1>9
  <2>2. \A q \in 0 .. (n - 1) : b[q] <= b[0]
    BY <1>1, <1>9, RootGreatest
  <2>3. \A w \in Vals : A!Heap!Has(w) => w <= b[0]
    BY <1>5, <1>6, <2>2
  <2> QED
    BY <1>7, <2>1, <2>3 DEF A!Heap!Greatest
<1> QED
  BY <1>3, <1>7, <1>8, <1>9 DEF n, b

\* A run that went on has its heap in order whenever only heap functions were
\* called since the last MakeHeap().
HeapInv ==
  /\ ArrayInv /\ actual_size_ <= MaxLen
  /\ ~ wild /\ ordered => HeapFrom(arrayBuffer, actual_size_, 0)

\* PushBack() leaves the first values where they are.
LEMMA PushedCells ==
  ASSUME ArrayInv, ~ wild, NEW v \in Vals, A!Fits
  PROVE  /\ A!Pushed(v)[actual_size_] = v
         /\ \A q \in 0 .. (actual_size_ - 1) : A!Pushed(v)[q] = arrayBuffer[q]
<1> DEFINE n == actual_size_
           m == buf_size_
<1>1. n \in Nat /\ m \in Nat /\ n <= m /\ DOMAIN arrayBuffer = 0 .. (m - 1)
  BY DEF ArrayInv, Held
<1>2. /\ A!NoRoom <=> n = m
      /\ n < IF n = m THEN 2 * m ELSE m
  BY DEF A!NoRoom, A!Room, A!Fits
<1>3. PICK b : /\ b = IF A!NoRoom THEN A!Reallocate ELSE arrayBuffer
               /\ A!Pushed(v) = [b EXCEPT ![n] = v]
  BY DEF A!Pushed
<1>4. n \in DOMAIN b /\ \A q \in 0 .. (n - 1) : q \in DOMAIN b /\ b[q] = arrayBuffer[q] /\ q # n
  <2>1. CASE n = m
    <3>1. b = [k \in 0 .. (2 * m - 1) |-> IF k < m THEN arrayBuffer[k] ELSE Junk]
      BY <1>2, <1>3, <2>1 DEF A!Reallocate
    <3>2. n \in 0 .. (2 * m - 1) /\ \A q \in 0 .. (n - 1) : q \in 0 .. (2 * m - 1) /\ q < m /\ q # n
      BY <1>1, <1>2, <2>1
    <3> QED
      BY <3>1, <3>2
  <2>2. CASE n # m
    <3>1. b = arrayBuffer
      BY <1>2, <1>3, <2>2
    <3>2. n \in 0 .. (m - 1) /\ \A q \in 0 .. (n - 1) : q \in 0 .. (m - 1) /\ q # n
      BY <1>1, <1>2, <2>2
    <3> QED
      BY <1>1, <3>1, <3>2
  <2> QED
    BY <2>1, <2>2
<1> HIDE DEF n
<1>5. A!Pushed(v)[n] = v /\ \A q \in 0 .. (n - 1) : A!Pushed(v)[q] = arrayBuffer[q]
  BY <1>3, <1>4
<1> QED
  BY <1>5 DEF n

\* A value more, at whatever place.
LEMMA InsertedRefines ==
  ASSUME HeapInv, ArrayInv', ~ wild, NEW v \in Vals, NEW b, A!Inserted(v, b), A!Fits,
         SameCells(b, A!Pushed(v), actual_size_ + 1), ordered' => ordered
  PROVE  A!Heap!Insert(v)
<1> DEFINE n == actual_size_
           c == A!Pushed(v)
<1>1. n \in Nat /\ ArrayInv
  BY DEF HeapInv, ArrayInv
<1>2. arrayBuffer' = b /\ actual_size_' = n + 1 /\ ~ wild' /\ arrayOut' = <<"Insert", v>>
  BY DEF A!Inserted
<1>3. /\ Bag = [u \in Vals |-> Counted(arrayBuffer, n, u)]
      /\ Bag' = [u \in Vals |-> Counted(b, n + 1, u)]
  BY <1>1, <1>2, BagCounts, BagCountsNext
<1>4. c[n] = v /\ \A q \in 0 .. (n - 1) : c[q] = arrayBuffer[q]
  BY <1>1, PushedCells
<1>5. \A u \in Vals : Counted(b, n + 1, u) = Counted(c, n + 1, u)
  BY DEF SameCells, Counted
<1> HIDE DEF n, c
<1>6. \A u \in Vals : /\ Counted(arrayBuffer, n, u) \in Nat
                      /\ u = v => Counted(c, n + 1, u) = Counted(arrayBuffer, n, u) + 1
                      /\ u # v => Counted(c, n + 1, u) = Counted(arrayBuffer, n, u)
  BY <1>1, <1>4, AddedCell
<1>7. Bag' = [Bag EXCEPT ![v] = Bag[v] + 1]
  BY <1>3, <1>5, <1>6
<1>8. wild' = wild
  <2>1. wild \in BOOLEAN /\ wild' \in BOOLEAN
    BY <1>1 DEF ArrayInv
  <2> QED
    BY <1>2, <2>1
<1> QED
  BY <1>2, <1>7, <1>8 DEF A!Heap!Insert, Bag

\* PushBack() and Add() insert the value, or write outside an array that was made
\* without room.
LEMMA PushBackRefines ==
  ASSUME HeapInv, ArrayInv', ~ wild, NEW v \in Vals, A!PushBack(v)
  PROVE  HeapInv' /\ (A!Heap!Insert(v) \/ A!Heap!Corrupt)
<1>1. A!Inserted(v, A!Pushed(v)) /\ ordered' = FALSE
  BY DEF A!PushBack
<1>2. actual_size_' <= MaxLen
  BY <1>1, HeapAssumption DEF A!Inserted, HeapInv, ArrayInv
<1>3. HeapInv'
  BY <1>1, <1>2 DEF HeapInv
<1>4. CASE A!Fits
  <2>1. SameCells(A!Pushed(v), A!Pushed(v), actual_size_ + 1)
    BY DEF SameCells
  <2> QED
    BY <1>1, <1>3, <1>4, <2>1, InsertedRefines
<1>5. CASE ~ A!Fits
  <2>1. wild' = TRUE
    BY <1>1, <1>5 DEF A!Inserted
  <2> QED
    BY <1>3, <2>1 DEF A!Heap!Corrupt
<1> QED
  BY <1>4, <1>5

\* Add() inserts into the priority queue, or writes outside a buffer without room.
LEMMA AddRefines ==
  ASSUME HeapInv, ArrayInv', ~ wild, NEW v \in Vals, A!Add(v)
  PROVE  HeapInv' /\ (A!Heap!Insert(v) \/ A!Heap!Corrupt)
<1> DEFINE n == actual_size_
           N == A!Room
           p == A!Pushed(v)
           c == A!SiftUp(p, n)
<1>0. ArrayInv /\ n \in Nat
  BY DEF HeapInv, ArrayInv
<1>1. A!Inserted(v, IF A!Fits THEN c ELSE p) /\ ordered' = ordered
  BY DEF A!Add
<1>2. actual_size_' <= MaxLen /\ actual_size_' = n + 1
  BY <1>0, <1>1, HeapAssumption DEF A!Inserted
<1>3. CASE A!Fits
  <2>1. N \in Nat /\ n + 1 \in 0 .. N /\ p \in Held(N, n + 1) /\ n = (n + 1) - 1 /\ n + 1 # 0
    BY <1>0, <1>3, PushedHeld
  <2>2. p[n] = v /\ \A q \in 0 .. (n - 1) : p[q] = arrayBuffer[q]
    BY <1>0, <1>3, PushedCells
  <2>3. A!Inserted(v, c) /\ arrayBuffer' = c
    BY <1>1, <1>3 DEF A!Inserted
  <2> HIDE DEF N, p
  <2>4. SameCells(c, p, n + 1) /\ (HeapFrom(p, n, 0) => HeapFrom(c, n + 1, 0))
    <3>1. c = A!SiftUp(p, n)
      OBVIOUS
    <3> HIDE DEF c, n
    <3> QED
      BY <2>1, <3>1, SiftUpOrder
  <2>5. ASSUME HeapFrom(arrayBuffer, n, 0) PROVE HeapFrom(p, n, 0)
    <3> SUFFICES ASSUME NEW q \in 1 .. (n - 1), Par(q) >= 0 PROVE p[q] <= p[Par(q)]
      BY DEF HeapFrom
    <3>1. q \in Nat /\ q # 0
      OBVIOUS
    <3>2. Par(q) \in Nat /\ Par(q) < q
      BY <3>1, Parents
    <3>3. q \in 0 .. (n - 1) /\ Par(q) \in 0 .. (n - 1)
      BY <1>0, <3>1, <3>2
    <3> QED
      BY <2>2, <2>5, <3>3 DEF HeapFrom
  <2>6. HeapInv'
    <3>1. ordered => HeapFrom(c, n + 1, 0)
      BY <2>4, <2>5 DEF HeapInv
    <3> QED
      BY <1>1, <1>2, <2>3, <3>1 DEF HeapInv
  <2>7. A!Heap!Insert(v)
    BY <1>0, <1>1, <1>3, <2>3, <2>4, InsertedRefines DEF p
  <2> QED
    BY <2>6, <2>7
<1>4. CASE ~ A!Fits
  <2>1. wild' = TRUE
    BY <1>1, <1>4 DEF A!Inserted
  <2>2. HeapInv'
    BY <1>2, <2>1 DEF HeapInv
  <2> QED
    BY <2>1, <2>2 DEF A!Heap!Corrupt
<1> QED
  BY <1>3, <1>4

\* What holds of an array that has not been written outside.
LEMMA ArrayFacts ==
  ASSUME HeapInv, ~ wild
  PROVE  /\ ArrayInv /\ actual_size_ \in Nat /\ buf_size_ \in Nat /\ actual_size_ \in 0 .. buf_size_
         /\ arrayBuffer \in Held(buf_size_, actual_size_) /\ wild \in BOOLEAN
BY DEF HeapInv, ArrayInv

\* One value of the bag less.
LEMMA TakenRefines ==
  ASSUME ArrayInv, ArrayInv', ~ wild, wild' = wild, actual_size_ # 0,
         actual_size_' = actual_size_ - 1, NEW v \in Vals,
         \A u : /\ u = v => Counted(arrayBuffer, actual_size_, u) =
                              Counted(arrayBuffer', actual_size_ - 1, u) + 1
                /\ u # v => Counted(arrayBuffer, actual_size_, u) =
                              Counted(arrayBuffer', actual_size_ - 1, u)
  PROVE  Bag' = [Bag EXCEPT ![v] = Bag[v] - 1]
<1> DEFINE n == actual_size_ - 1
<1>1. n \in Nat
  BY DEF ArrayInv
<1>2. \A u : Counted(arrayBuffer', n, u) \in Nat
  BY <1>1, CountedCells
<1>3. /\ Bag = [u \in Vals |-> Counted(arrayBuffer, actual_size_, u)]
      /\ Bag' = [u \in Vals |-> Counted(arrayBuffer', n, u)]
  BY BagCounts, BagCountsNext
<1>4. \A u : /\ u = v => Counted(arrayBuffer, actual_size_, u) = Counted(arrayBuffer', n, u) + 1
             /\ u # v => Counted(arrayBuffer, actual_size_, u) = Counted(arrayBuffer', n, u)
  OBVIOUS
<1> HIDE DEF n
<1>5. \A u : u = v => Counted(arrayBuffer, actual_size_, u) - 1 = Counted(arrayBuffer', n, u)
  BY <1>2, <1>4
<1> QED
  BY <1>3, <1>4, <1>5

\* PopBack() takes the last cell out, which keeps a heap one.
LEMMA PopBackRefines ==
  ASSUME HeapInv, ArrayInv', ~ wild, A!PopBack
  PROVE  HeapInv' /\ A!Heap!PopBack
<1> DEFINE n == actual_size_
           b == arrayBuffer
<1>0. /\ ArrayInv /\ n \in Nat /\ n \in 0 .. buf_size_ /\ buf_size_ \in Nat
      /\ b \in Held(buf_size_, n)
  BY ArrayFacts
<1>1. arrayBuffer' = b /\ wild' = wild /\ ordered' = ordered /\ buf_size_' = buf_size_
  BY DEF A!PopBack
<1>2. CASE n = 0
  <2>1. actual_size_' = n /\ arrayOut' = <<"PopBack", Throws>>
    BY <1>2 DEF A!PopBack
  <2>2. HeapInv'
    BY <1>1, <2>1 DEF HeapInv
  <2>3. Bag' = Bag
    BY <1>1, <2>1 DEF Bag, A!Stored
  <2>4. A!Heap!IsEmpty
    BY <1>0, <1>2, BagHolds
  <2> QED
    BY <1>1, <2>1, <2>2, <2>3, <2>4 DEF A!Heap!PopBack, Bag
<1>3. CASE n # 0
  <2>1. actual_size_' = n - 1 /\ arrayOut' = <<"PopBack", b[n - 1]>>
    BY <1>3 DEF A!PopBack
  <2>2. n - 1 \in 0 .. (n - 1) /\ n - 1 \in Nat /\ (n - 1) + 1 = n
    BY <1>0, <1>3
  <2>3. b[n - 1] \in Vals /\ A!Heap!Has(b[n - 1]) /\ ~ A!Heap!IsEmpty
    BY <1>0, <1>3, <2>2, BagHolds
  <2>4. HeapInv'
    <3>1. ASSUME HeapFrom(b, n, 0) PROVE HeapFrom(b, n - 1, 0)
      <4>1. \A q \in 1 .. ((n - 1) - 1) : q \in 1 .. (n - 1)
        BY <1>0
      <4> QED
        BY <3>1, <4>1 DEF HeapFrom
    <3>2. n - 1 <= MaxLen
      BY <1>0, HeapAssumption DEF HeapInv
    <3> QED
      BY <1>1, <2>1, <3>1, <3>2 DEF HeapInv
  <2>5. \A u : /\ u = b[n - 1] => Counted(b, n, u) = Counted(b, n - 1, u) + 1
               /\ u # b[n - 1] => Counted(b, n, u) = Counted(b, n - 1, u)
    <3> DEFINE m == n - 1
    <3>1. m \in Nat /\ m + 1 = n
      BY <2>2
    <3> HIDE DEF m
    <3>2. \A u : /\ b[m] = u => Counted(b, m + 1, u) = Counted(b, m, u) + 1
                 /\ b[m] # u => Counted(b, m + 1, u) = Counted(b, m, u)
      BY <3>1, AddedCell
    <3> QED
      BY <3>1, <3>2 DEF m
  <2>6. Bag' = [Bag EXCEPT ![b[n - 1]] = Bag[b[n - 1]] - 1]
    BY <1>0, <1>1, <1>3, <2>1, <2>3, <2>5, TakenRefines
  <2> QED
    BY <1>1, <2>1, <2>3, <2>4, <2>6 DEF A!Heap!PopBack, Bag
<1> QED
  BY <1>2, <1>3

\* ExtractMax() of a heap takes its largest value and leaves a heap.
LEMMA ExtractMaxRefines ==
  ASSUME HeapInv, ArrayInv', ~ wild, A!ExtractMax
  PROVE  HeapInv' /\ A!Heap!ExtractMax
<1> DEFINE n == actual_size_
           b == arrayBuffer
           N == buf_size_
<1>0. ArrayInv /\ n \in Nat /\ n \in 0 .. N /\ N \in Nat /\ b \in Held(N, n)
  BY ArrayFacts
<1>1. wild' = wild /\ ordered' = ordered /\ buf_size_' = N
  BY DEF A!ExtractMax
<1>2. CASE n = 0
  <2>1. arrayBuffer' = b /\ actual_size_' = n /\ arrayOut' = <<"ExtractMax", Throws>>
    BY <1>2 DEF A!ExtractMax
  <2>2. HeapInv'
    BY <1>1, <2>1 DEF HeapInv
  <2>3. Bag' = Bag
    BY <1>1, <2>1 DEF Bag, A!Stored
  <2>4. A!Heap!IsEmpty
    BY <1>0, <1>2, BagHolds
  <2> QED
    BY <1>1, <2>1, <2>2, <2>3, <2>4 DEF A!Heap!ExtractMax, Bag
<1>3. CASE n # 0
  <2> DEFINE m == n - 1
             e == [b EXCEPT ![0] = b[m]]
             s == A!Swap(b, 0, m)
  <2>1. /\ actual_size_' = m /\ arrayOut' = <<"ExtractMax", b[0]>>
        /\ arrayBuffer' = A!SiftDown(e, m, 0)
    BY <1>3 DEF A!ExtractMax
  <2>2. /\ m \in 0 .. (n - 1) /\ 0 \in 0 .. (n - 1) /\ m \in Nat /\ m + 1 = n /\ m \in 0 .. N
        /\ m = 0 \/ 0 < m
        /\ \A q \in 0 .. (m - 1) : q \in 0 .. (n - 1) /\ q # m /\ q \in 0 .. (N - 1)
    BY <1>0, <1>3
  <2>3. b[0] \in Vals /\ A!Heap!Has(b[0]) /\ ~ A!Heap!IsEmpty
        /\ (HeapFrom(b, n, 0) => A!Heap!Greatest(b[0]))
    BY <1>0, <1>3, <2>2, BagHolds
  <2>4. /\ b \in [0 .. (N - 1) -> Vals \cup {Junk, 0}] /\ \A q \in 0 .. (n - 1) : b[q] \in Vals
        /\ b[m] \in Vals
    BY <1>0, <2>2 DEF Held
  <2> HIDE DEF m
  <2>5. e \in Held(N, m) /\ (\A q \in 0 .. (m - 1) : e[q] = IF q = 0 THEN b[m] ELSE b[q])
    <3>1. e \in [0 .. (N - 1) -> Vals \cup {Junk, 0}]
      BY <2>4
    <3>2. \A q \in 0 .. (m - 1) : e[q] = IF q = 0 THEN b[m] ELSE b[q]
      BY <2>2, <2>4
    <3>3. \A q \in 0 .. (m - 1) : e[q] \in Vals
      BY <2>2, <2>4, <3>2
    <3> HIDE DEF e
    <3> QED
      BY <3>1, <3>2, <3>3 DEF Held
  <2>6. /\ s[0] = b[m] /\ s[m] = b[0] /\ SameCells(s, b, n)
        /\ \A q \in 0 .. (n - 1) : q # 0 /\ q # m => s[q] = b[q]
    BY <1>0, <2>2, SwapSame
  <2> HIDE DEF e, s
  <2>7. \A q \in 0 .. (m - 1) : s[q] = e[q]
    BY <2>2, <2>5, <2>6
  <2>8. SameCells(arrayBuffer', e, m) /\ (HeapFrom(e, m, 0 + 1) => HeapFrom(arrayBuffer', m, 0))
    BY <1>0, <2>1, <2>2, <2>5, SiftDownOrder
  <2>9. ASSUME HeapFrom(b, n, 0) PROVE HeapFrom(e, m, 0 + 1)
    <3> SUFFICES ASSUME NEW q \in 1 .. (m - 1), Par(q) >= 0 + 1 PROVE e[q] <= e[Par(q)]
      BY DEF HeapFrom
    <3>1. q \in Nat /\ q # 0
      OBVIOUS
    <3>2. Par(q) \in Nat /\ Par(q) < q
      BY <3>1, Parents
    <3>3. /\ q \in 0 .. (m - 1) /\ q \in 1 .. (n - 1)
          /\ Par(q) \in 0 .. (m - 1) /\ Par(q) # 0 /\ Par(q) >= 0
      BY <2>2, <3>1, <3>2
    <3> QED
      BY <2>5, <2>9, <3>1, <3>3 DEF HeapFrom
  <2>10. HeapInv'
    <3>1. m <= MaxLen
      BY <1>0, <2>2, HeapAssumption DEF HeapInv
    <3>2. ordered => HeapFrom(arrayBuffer', m, 0)
      BY <2>8, <2>9 DEF HeapInv
    <3> QED
      BY <1>1, <2>1, <3>1, <3>2 DEF HeapInv
  <2>11. \A u : /\ u = b[0] => Counted(b, n, u) = Counted(arrayBuffer', n - 1, u) + 1
                /\ u # b[0] => Counted(b, n, u) = Counted(arrayBuffer', n - 1, u)
    <3>1. \A u : /\ Counted(b, n, u) = Counted(s, m + 1, u)
                 /\ Counted(arrayBuffer', m, u) = Counted(e, m, u)
      BY <2>2, <2>6, <2>8 DEF SameCells, Counted
    <3>2. \A u : /\ s[m] = u => Counted(s, m + 1, u) = Counted(e, m, u) + 1
                 /\ s[m] # u => Counted(s, m + 1, u) = Counted(e, m, u)
      BY <2>2, <2>7, AddedCell
    <3> QED
      BY <2>6, <3>1, <3>2 DEF m
  <2>12. Bag' = [Bag EXCEPT ![b[0]] = Bag[b[0]] - 1]
    <3>1. actual_size_' = n - 1
      BY <2>1 DEF m
    <3> QED
      BY <1>0, <1>1, <1>3, <2>3, <2>11, <3>1, TakenRefines
  <2>13. ordered => A!Heap!Greatest(b[0])
    BY <2>3 DEF HeapInv
  <2> QED
    BY <1>1, <2>1, <2>3, <2>10, <2>12, <2>13 DEF A!Heap!ExtractMax, Bag
<1> QED
  BY <1>2, <1>3

\* MakeHeap() keeps the values and leaves a heap.
LEMMA MakeHeapRefines ==
  ASSUME HeapInv, ArrayInv', ~ wild, A!MakeHeap
  PROVE  HeapInv' /\ A!Heap!MakeHeap
<1> DEFINE n == actual_size_
<1>0. /\ ArrayInv /\ n \in Nat /\ n \in 0 .. buf_size_ /\ buf_size_ \in Nat
      /\ arrayBuffer \in Held(buf_size_, n)
  BY ArrayFacts
<1>1. /\ arrayBuffer' = A!SiftAll(arrayBuffer, n, n \div 2 - 1) /\ ordered' = TRUE /\ arrayOut' = << >>
      /\ wild' = wild /\ actual_size_' = n
  BY DEF A!MakeHeap
<1>2. SameCells(arrayBuffer', arrayBuffer, n) /\ HeapFrom(arrayBuffer', n, 0)
  BY <1>0, <1>1, SiftAllOrder
<1>3. HeapInv'
  BY <1>1, <1>2 DEF HeapInv
<1>4. Bag' = Bag
  <2>1. \A u : Counted(arrayBuffer', n, u) = Counted(arrayBuffer, n, u)
    BY <1>2 DEF SameCells, Counted
  <2>2. /\ Bag = [u \in Vals |-> Counted(arrayBuffer, n, u)]
        /\ Bag' = [u \in Vals |-> Counted(arrayBuffer', n, u)]
    BY <1>0, <1>1, BagCounts, BagCountsNext
  <2> QED
    BY <2>1, <2>2
<1> QED
  BY <1>1, <1>3, <1>4 DEF A!Heap!MakeHeap, Bag

\* HeapMaximum() of a heap returns its largest value.
LEMMA HeapMaximumRefines ==
  ASSUME HeapInv, ~ wild, A!HeapMaximum
  PROVE  HeapInv' /\ A!Heap!HeapMaximum
<1> DEFINE n == actual_size_
<1>0. ArrayInv /\ n \in Nat
  BY ArrayFacts
<1>1. /\ arrayBuffer' = arrayBuffer /\ actual_size_' = n /\ ordered' = ordered /\ wild' = wild
      /\ buf_size_' = buf_size_
      /\ arrayOut' = <<"HeapMaximum", IF n = 0 THEN Throws ELSE arrayBuffer[0]>>
  BY DEF A!HeapMaximum
<1>2. HeapInv'
  BY <1>1 DEF HeapInv, ArrayInv
<1>3. Bag' = Bag
  BY <1>1 DEF Bag, A!Stored
<1>4. CASE n = 0
  <2>1. A!Heap!IsEmpty
    BY <1>0, <1>4, BagHolds
  <2> QED
    BY <1>1, <1>2, <1>3, <1>4, <2>1 DEF A!Heap!HeapMaximum, Bag
<1>5. CASE n # 0
  <2>1. 0 \in 0 .. (n - 1)
    BY <1>0, <1>5
  <2>2. arrayBuffer[0] \in Vals /\ A!Heap!Has(arrayBuffer[0]) /\ ~ A!Heap!IsEmpty
        /\ (HeapFrom(arrayBuffer, n, 0) => A!Heap!Greatest(arrayBuffer[0]))
    BY <1>0, <1>5, <2>1, BagHolds
  <2>3. ordered => A!Heap!Greatest(arrayBuffer[0])
    BY <2>2 DEF HeapInv
  <2> QED
    BY <1>1, <1>2, <1>3, <1>5, <2>2, <2>3 DEF A!Heap!HeapMaximum, Bag
<1> QED
  BY <1>4, <1>5

\* A size_t, and what -1 is as one.
LEMMA SizeWraps ==
  ASSUME NEW m \in Nat \ {0}
  PROVE  (-1) % m = m - 1 /\ \A x \in 0 .. (m - 1) : x % m = x
OBVIOUS

\* At() changes nothing, whatever it returns for its index.
LEMMA AtRefines ==
  ASSUME HeapInv, ~ wild, NEW k \in -1 .. MaxLen, A!At(k)
  PROVE  HeapInv' /\ A!Heap!At
<1> DEFINE n == actual_size_
           b == arrayBuffer
           x == IF A!ToSize(k) > A!ToSize(n - 1) THEN Throws
                ELSE IF k \in DOMAIN b THEN b[k] ELSE Junk
<1>0. ArrayInv /\ n \in Nat /\ n \in 0 .. buf_size_ /\ buf_size_ \in Nat /\ b \in Held(buf_size_, n)
  BY ArrayFacts
<1>1. /\ arrayBuffer' = b /\ actual_size_' = n /\ ordered' = ordered /\ wild' = wild
      /\ buf_size_' = buf_size_ /\ arrayOut' = <<"At", x>>
  BY DEF A!At
<1>2. HeapInv'
  BY <1>1 DEF HeapInv, ArrayInv
<1>3. Bag' = Bag
  BY <1>1 DEF Bag, A!Stored
<1>4. /\ MaxLen \in Nat /\ SizeMod \in Nat \ {0} /\ MaxLen <= SizeMod - 1 /\ n <= MaxLen
  BY <1>0, HeapAssumption, StackAssumption DEF HeapInv
<1>5. /\ A!ToSize(k) = IF k = -1 THEN SizeMod - 1 ELSE k
      /\ A!ToSize(n - 1) = IF n = 0 THEN SizeMod - 1 ELSE n - 1
  <2>1. \A y \in -1 .. (SizeMod - 1) : A!ToSize(y) = IF y = -1 THEN SizeMod - 1 ELSE y
    <3> SUFFICES ASSUME NEW y \in -1 .. (SizeMod - 1)
                 PROVE  y % SizeMod = IF y = -1 THEN SizeMod - 1 ELSE y
      BY DEF A!ToSize
    <3>1. (-1) % SizeMod = SizeMod - 1 /\ \A z \in 0 .. (SizeMod - 1) : z % SizeMod = z
      BY <1>4, SizeWraps
    <3>2. y = -1 \/ (y # -1 /\ y \in 0 .. (SizeMod - 1))
      BY <1>4
    <3> QED
      BY <3>1, <3>2
  <2>2. k \in -1 .. (SizeMod - 1) /\ n - 1 \in -1 .. (SizeMod - 1)
    BY <1>0, <1>4
  <2>3. n - 1 = -1 <=> n = 0
    BY <1>0
  <2> QED
    BY <2>1, <2>2, <2>3
<1>6. CASE n = 0
  <2>1. A!Heap!IsEmpty
    BY <1>0, <1>6, BagHolds
  <2>2. ~ (A!ToSize(k) > A!ToSize(n - 1))
    BY <1>4, <1>5, <1>6
  <2>3. x \in Vals \cup {0, Junk}
    BY <1>0, <2>2 DEF Held
  <2> HIDE DEF x
  <2> QED
    BY <1>1, <1>2, <1>3, <2>1, <2>3 DEF A!Heap!At, Bag
<1>7. CASE n # 0
  <2>1. ~ A!Heap!IsEmpty
    BY <1>0, <1>7, BagHolds
  <2>2. x \in {Throws} \cup {v \in Vals : A!Heap!Has(v)}
    <3>1. CASE A!ToSize(k) > A!ToSize(n - 1)
      BY <3>1
    <3>2. CASE ~ (A!ToSize(k) > A!ToSize(n - 1))
      <4>1. k \in 0 .. (n - 1)
        BY <1>0, <1>4, <1>5, <1>7, <3>2
      <4>2. k \in DOMAIN b
        <5>1. DOMAIN b = 0 .. (buf_size_ - 1)
          BY <1>0 DEF Held
        <5>2. k \in 0 .. (buf_size_ - 1)
          BY <1>0, <4>1
        <5> QED
          BY <5>1, <5>2
      <4>3. b[k] \in Vals /\ A!Heap!Has(b[k])
        BY <1>0, <4>1, BagHolds
      <4> QED
        BY <3>2, <4>2, <4>3
    <3> QED
      BY <3>1, <3>2
  <2> HIDE DEF x
  <2> QED
    BY <1>1, <1>2, <1>3, <2>1, <2>2 DEF A!Heap!At, Bag
<1> QED
  BY <1>6, <1>7

\* An assignment through operator[] changes one value, and the order is lost.
LEMMA AssignRefines ==
  ASSUME HeapInv, ArrayInv', ~ wild, NEW k \in DOMAIN arrayBuffer, NEW v \in Vals, A!Assign(k, v)
  PROVE  HeapInv' /\ A!Heap!Assign
<1> DEFINE n == actual_size_
           b == arrayBuffer
           c == [b EXCEPT ![k] = v]
           D == 0 .. (n - 1)
<1>0. ArrayInv /\ n \in Nat /\ n \in 0 .. buf_size_ /\ buf_size_ \in Nat /\ b \in Held(buf_size_, n)
  BY ArrayFacts
<1>1. /\ arrayBuffer' = c /\ actual_size_' = n /\ ordered' = FALSE /\ arrayOut' = << >> /\ wild' = wild
  BY DEF A!Assign
<1>2. HeapInv'
  BY <1>1 DEF HeapInv
<1>3. /\ Bag = [u \in Vals |-> Cardinality(Of(b, D, u))]
      /\ Bag' = [u \in Vals |-> Cardinality(Of(c, D, u))]
  <2>1. /\ Bag = [u \in Vals |-> Counted(b, n, u)]
        /\ Bag' = [u \in Vals |-> Counted(c, n, u)]
    BY <1>0, <1>1, BagCounts, BagCountsNext
  <2> QED
    BY <2>1 DEF Counted
<1>4. DOMAIN b = 0 .. (buf_size_ - 1) /\ (\A q \in D : q \in DOMAIN b) /\ IsFiniteSet(D)
  <2>1. DOMAIN b = 0 .. (buf_size_ - 1)
    BY <1>0 DEF Held
  <2>2. 0 \in Int /\ n - 1 \in Int
    BY <1>0
  <2>3. IsFiniteSet(D)
    BY <2>2, FS_Interval
  <2> QED
    BY <1>0, <2>1, <2>3
<1>5. c[k] = v /\ \A q \in D : q # k => c[q] = b[q]
  BY <1>4
<1> HIDE DEF c, D
<1>6. CASE k \notin D
  <2>1. \A u : Of(c, D, u) = Of(b, D, u)
    BY <1>5, <1>6, SameContents
  <2>2. Bag' = Bag
    BY <1>3, <2>1
  <2> QED
    BY <1>1, <1>2, <2>2 DEF A!Heap!Assign, Bag
<1>7. CASE k \in D
  <2> DEFINE w == b[k]
             E == D \ {k}
  <2>1. w \in Vals /\ A!Heap!Has(w)
    BY <1>0, <1>7, BagHolds DEF D
  <2>2. \A u : Of(c, E, u) = Of(b, E, u)
    BY <1>5, SameContents
  <2>20. IsFiniteSet(D) /\ k \in D
    BY <1>4, <1>7
  <2>3. ASSUME NEW u
        PROVE  /\ Cardinality(Of(b, D, u)) \in Nat /\ Cardinality(Of(b, E, u)) \in Nat
               /\ w = u => Cardinality(Of(b, D, u)) = Cardinality(Of(b, E, u)) + 1
               /\ w # u => Cardinality(Of(b, D, u)) = Cardinality(Of(b, E, u))
    BY <2>20, OneCell
  <2>4. ASSUME NEW u
        PROVE  /\ v = u => Cardinality(Of(c, D, u)) = Cardinality(Of(c, E, u)) + 1
               /\ v # u => Cardinality(Of(c, D, u)) = Cardinality(Of(c, E, u))
    <3>1. /\ c[k] = u => Cardinality(Of(c, D, u)) = Cardinality(Of(c, E, u)) + 1
          /\ c[k] # u => Cardinality(Of(c, D, u)) = Cardinality(Of(c, E, u))
      BY <2>20, OneCell
    <3> QED
      BY <1>5, <3>1
  <2> HIDE DEF w, E
  <2>5. ASSUME NEW u \in Vals
        PROVE  Cardinality(Of(c, D, u)) = Cardinality(Of(b, D, u)) - (IF u = w THEN 1 ELSE 0)
                                                                  + (IF u = v THEN 1 ELSE 0)
    BY <2>2, <2>3, <2>4
  <2>6. Bag' = [u \in Vals |-> Bag[u] - (IF u = w THEN 1 ELSE 0) + (IF u = v THEN 1 ELSE 0)]
    BY <1>3, <2>5
  <2> QED
    BY <1>1, <1>2, <2>1, <2>6 DEF A!Heap!Assign, Bag
<1> QED
  BY <1>6, <1>7

\* For every set of numbers and every size the array is made with, and as long
\* as nothing was written outside it, the heap functions lose and double no
\* value when the array grows, is rearranged or popped, and ExtractMax() and
\* HeapMaximum() return a greatest value whenever the order was kept
\* (Heap.cpp, DArray.cpp).
THEOREM HeapRefines == AllSpec => HeapIsPriorityQueue
<1>1. AllInit => HeapInv /\ A!Heap!Init
  <2> SUFFICES ASSUME AllInit PROVE HeapInv /\ A!Heap!Init
    OBVIOUS
  <2>1. /\ buf_size_ \in Nat /\ actual_size_ = 0 /\ wild = FALSE /\ ordered = TRUE /\ arrayOut = << >>
    BY ArrayAssumption DEF AllInit, A!Init
  <2>2. ArrayInv
    BY ArrayInitially
  <2>3. HeapInv
    <3>1. HeapFrom(arrayBuffer, 0, 0) /\ 0 <= MaxLen
      BY HeapAssumption DEF HeapFrom
    <3> QED
      BY <2>1, <2>2, <3>1 DEF HeapInv
  <2>4. Bag = [v \in Vals |-> 0]
    <3>1. ~ wild
      BY <2>1
    <3>2. Bag = [v \in Vals |-> Counted(arrayBuffer, 0, v)]
      BY <2>1, <2>2, <3>1, BagCounts
    <3>3. ASSUME NEW v PROVE Counted(arrayBuffer, 0, v) = 0
      <4>1. \A q \in 0 .. (0 - 1) : FALSE
        OBVIOUS
      <4>2. Of(arrayBuffer, 0 .. (0 - 1), v) = {}
        BY <4>1 DEF Of
      <4> QED
        BY <4>2, FS_EmptySet DEF Counted
    <3> QED
      BY <3>2, <3>3
  <2> QED
    BY <2>1, <2>3, <2>4 DEF A!Heap!Init, Bag
<1>2. HeapInv /\ [AllNext]_allVars => HeapInv' /\ [A!Heap!Next]_(A!Heap!vars)
  <2> SUFFICES ASSUME HeapInv, [AllNext]_allVars PROVE HeapInv' /\ [A!Heap!Next]_(A!Heap!vars)
    OBVIOUS
  <2>1. A!Next \/ UNCHANGED arrayVars
    BY DEF AllNext, allVars
  <2>2. CASE UNCHANGED arrayVars
    <3>1. /\ arrayBuffer' = arrayBuffer /\ actual_size_' = actual_size_ /\ ordered' = ordered
          /\ wild' = wild /\ buf_size_' = buf_size_ /\ arrayOut' = arrayOut
      BY <2>2 DEF arrayVars
    <3>2. HeapInv'
      BY <3>1 DEF HeapInv, ArrayInv
    <3>3. Bag' = Bag
      BY <3>1 DEF Bag, A!Stored
    <3> QED
      BY <3>1, <3>2, <3>3 DEF A!Heap!vars, Bag
  <2>3. CASE A!Next
    <3>1. ArrayInv' /\ ~ wild
      BY <2>3, ArrayStep DEF HeapInv, A!Next
    <3>2. HeapInv' /\ A!Heap!Next
      <4>1. ASSUME NEW v \in Vals, A!PushBack(v) \/ A!Add(v) PROVE HeapInv' /\ A!Heap!Next
        <5>1. HeapInv' /\ (A!Heap!Insert(v) \/ A!Heap!Corrupt)
          BY <3>1, <4>1, PushBackRefines, AddRefines
        <5> QED
          BY <3>1, <5>1 DEF A!Heap!Next
      <4>2. ASSUME NEW k \in -1 .. MaxLen, A!At(k) PROVE HeapInv' /\ A!Heap!Next
        BY <3>1, <4>2, AtRefines DEF A!Heap!Next
      <4>3. ASSUME NEW k \in DOMAIN arrayBuffer, NEW v \in Vals, A!Assign(k, v)
            PROVE  HeapInv' /\ A!Heap!Next
        BY <3>1, <4>3, AssignRefines DEF A!Heap!Next
      <4>4. CASE A!PopBack
        BY <3>1, <4>4, PopBackRefines DEF A!Heap!Next
      <4>5. CASE A!MakeHeap
        BY <3>1, <4>5, MakeHeapRefines DEF A!Heap!Next
      <4>6. CASE A!ExtractMax
        BY <3>1, <4>6, ExtractMaxRefines DEF A!Heap!Next
      <4>7. CASE A!HeapMaximum
        BY <3>1, <4>7, HeapMaximumRefines DEF A!Heap!Next
      <4> QED
        BY <2>3, <4>1, <4>2, <4>3, <4>4, <4>5, <4>6, <4>7 DEF A!Next
    <3> QED
      BY <3>2
  <2> QED
    BY <2>1, <2>2, <2>3
<1> QED
  BY <1>1, <1>2, PTL DEF AllSpec, HeapIsPriorityQueue, A!IsPriorityQueue, A!Heap!Spec

(***************************************************************************)
(* Multiples of a gap, and the chains of cells that are so far apart.      *)
(***************************************************************************)
\* A multiple has the sign of its factor.
LEMMA Multiples ==
  ASSUME NEW h \in Nat \ {0}, NEW q \in Int
  PROVE  /\ q * h \in Int
         /\ q >= 0 => q * h >= 0
         /\ q >= 1 => q * h >= h
         /\ q <= -1 => q * h <= -h
         /\ (q + 1) * h = q * h + h /\ (q - 1) * h = q * h - h
         /\ (-q) * h = -(q * h)
<1>1. q * h \in Int /\ (q + 1) * h = q * h + h /\ (q - 1) * h = q * h - h /\ (-q) * h = -(q * h)
  OBVIOUS
<1>2. q >= 0 => q * h >= 0
  OBVIOUS
<1>3. q >= 1 => q * h >= h
  OBVIOUS
<1>4. q <= -1 => q * h <= -h
  OBVIOUS
<1> QED
  BY <1>1, <1>2, <1>3, <1>4

\* x and y are a multiple of h apart.
Chain(x, y, h) == \E q \in Int : x = y + q * h

\* Chains partition the cells, and are moved onto each other.
LEMMA Chains ==
  ASSUME NEW h \in Nat \ {0}, NEW x \in Int, NEW y \in Int
  PROVE  /\ Chain(x, x, h)
         /\ Chain(x, y, h) => Chain(y, x, h)
         /\ \A z \in Int : Chain(x, y, h) /\ Chain(y, z, h) => Chain(x, z, h)
         /\ \A g \in Int : Chain(x, y, h) => Chain(x + g, y + g, h) /\ Chain(x - g, y - g, h)
         /\ Chain(x, y, h) /\ x < y => x <= y - h
         /\ Chain(x, x - h, h) /\ Chain(x - h, x, h)
<1>1. Chain(x, x, h)
  <2>1. 0 \in Int /\ x = x + 0 * h
    OBVIOUS
  <2> QED
    BY <2>1 DEF Chain
<1>2. ASSUME Chain(x, y, h) PROVE Chain(y, x, h)
  <2>1. PICK q \in Int : x = y + q * h
    BY <1>2 DEF Chain
  <2>2. -q \in Int /\ q * h \in Int /\ (-q) * h = -(q * h)
    BY Multiples
  <2>3. y = x + (-q) * h
    BY <2>1, <2>2
  <2> QED
    BY <2>2, <2>3 DEF Chain
<1>3. ASSUME NEW z \in Int, Chain(x, y, h), Chain(y, z, h) PROVE Chain(x, z, h)
  <2>1. PICK q \in Int : x = y + q * h
    BY <1>3 DEF Chain
  <2>2. PICK p \in Int : y = z + p * h
    BY <1>3 DEF Chain
  <2>3. q + p \in Int /\ (q + p) * h = q * h + p * h
    OBVIOUS
  <2>4. x = z + (q + p) * h
    BY <2>1, <2>2, <2>3
  <2> QED
    BY <2>3, <2>4 DEF Chain
<1>4. ASSUME NEW g \in Int, Chain(x, y, h) PROVE Chain(x + g, y + g, h) /\ Chain(x - g, y - g, h)
  <2>1. PICK q \in Int : x = y + q * h
    BY <1>4 DEF Chain
  <2>2. q * h \in Int
    BY Multiples
  <2>3. x + g = (y + g) + q * h /\ x - g = (y - g) + q * h
    BY <2>1, <2>2
  <2> QED
    BY <2>3 DEF Chain
<1>5. ASSUME Chain(x, y, h), x < y PROVE x <= y - h
  <2>1. PICK q \in Int : x = y + q * h
    BY <1>5 DEF Chain
  <2>2. q * h \in Int /\ (q >= 0 => q * h >= 0) /\ (q <= -1 => q * h <= -h)
    BY Multiples
  <2>3. q <= -1 \/ q >= 0
    OBVIOUS
  <2> QED
    BY <1>5, <2>1, <2>2, <2>3
<1>6. Chain(x, x - h, h) /\ Chain(x - h, x, h)
  <2>1. x = (x - h) + 1 * h /\ x - h = x + (-1) * h
    OBVIOUS
  <2> QED
    BY <2>1 DEF Chain
<1> QED
  BY <1>1, <1>2, <1>3, <1>4, <1>5, <1>6

\* The facts about chains that are cited most, each on its own.
LEMMA ChainTurned ==
  ASSUME NEW h \in Nat \ {0}, NEW x \in Int, NEW y \in Int, Chain(x, y, h)
  PROVE  Chain(y, x, h)
BY Chains

\* Being in one chain is transitive.
LEMMA ChainJoined ==
  ASSUME NEW h \in Nat \ {0}, NEW x \in Int, NEW y \in Int, NEW z \in Int,
         Chain(x, y, h), Chain(y, z, h)
  PROVE  Chain(x, z, h)
BY Chains

\* The cells that a value from cell i passes when it moves k places down.
Passed(i, h, k) == {i - q * h : q \in 0 .. k}

\* M has the cells of the chain of i from low to i.
Column(M, i, h, low) ==
  /\ low \in 0 .. i /\ i \in M /\ low \in M
  /\ \A j \in M : j \in low .. i /\ Chain(j, i, h)
  /\ \A j \in M : (j # low => j - h \in M) /\ (j # i => j + h \in M)
  /\ \A j \in low .. i : Chain(j, i, h) => j \in M
  /\ Chain(low, i, h)

\* All of them but the lowest are those Insert() writes a passed value to.
Raised(M, i, h, k, low) == M \ {low} = {i - q * h : q \in 0 .. (k - 1)}

\* They are the cells of the chain of i from the lowest one on.
LEMMA PassedCells ==
  ASSUME NEW h \in Nat \ {0}, NEW i \in Nat, NEW k \in Nat, k * h <= i,
         NEW low, low = i - k * h, NEW M, M = Passed(i, h, k)
  PROVE  Column(M, i, h, low) /\ Raised(M, i, h, k, low)
<1>1. /\ k * h \in Int /\ k * h >= 0 /\ k \in 0 .. k /\ 0 \in 0 .. k /\ i - 0 * h = i
  BY Multiples
<1>2. low \in 0 .. i /\ i \in M /\ low \in M
  BY <1>1 DEF Passed
<1>3. ASSUME NEW j \in M
      PROVE  /\ j \in low .. i /\ Chain(j, i, h)
             /\ (j # low => j - h \in M) /\ (j # i => j + h \in M)
  <2>1. PICK q \in 0 .. k : j = i - q * h
    BY DEF Passed
  <2>2. /\ q * h \in Int /\ (q >= 0 => q * h >= 0)
        /\ (q + 1) * h = q * h + h /\ (q - 1) * h = q * h - h /\ (-q) * h = -(q * h)
    BY Multiples
  <2>3. (k - q) * h >= 0 /\ (k - q) * h = k * h - q * h
    <3>1. k - q \in Int /\ k - q >= 0
      OBVIOUS
    <3>2. (k - q) * h >= 0
      BY <3>1, Multiples
    <3>3. (k - q) * h = k * h - q * h
      OBVIOUS
    <3> QED
      BY <3>2, <3>3
  <2>4. j \in low .. i
    BY <1>1, <2>1, <2>2, <2>3
  <2>5. Chain(j, i, h)
    <3>1. j = i + (-q) * h /\ -q \in Int
      BY <2>1, <2>2
    <3> QED
      BY <3>1 DEF Chain
  <2>6. ASSUME j # low PROVE j - h \in M
    <3>1. q + 1 \in 0 .. k
      BY <2>1, <2>6
    <3>2. j - h = i - (q + 1) * h
      BY <2>1, <2>2
    <3> QED
      BY <3>1, <3>2 DEF Passed
  <2>7. ASSUME j # i PROVE j + h \in M
    <3>1. q - 1 \in 0 .. k
      BY <1>1, <2>1, <2>7
    <3>2. j + h = i - (q - 1) * h
      BY <2>1, <2>2
    <3> QED
      BY <3>1, <3>2 DEF Passed
  <2> QED
    BY <2>4, <2>5, <2>6, <2>7
<1>4. ASSUME NEW j \in low .. i, Chain(j, i, h) PROVE j \in M
  <2>1. PICK q \in Int : j = i + q * h
    BY <1>4 DEF Chain
  <2>2. /\ q * h \in Int /\ (q >= 1 => q * h >= h) /\ (-q) * h = -(q * h)
    BY Multiples
  <2>3. ~ (q >= 1)
    BY <2>1, <2>2
  <2>4. q + k \in Int /\ (q + k) * h = q * h + k * h
    OBVIOUS
  <2>5. q + k <= -1 => (q + k) * h <= -h
    BY <2>4, Multiples
  <2>6. ~ (q + k <= -1)
    BY <1>1, <1>2, <2>1, <2>2, <2>4, <2>5
  <2>7. -q \in 0 .. k
    BY <2>3, <2>6
  <2>8. j = i - (-q) * h
    BY <2>1, <2>2
  <2> QED
    BY <2>7, <2>8 DEF Passed
<1>5. M \ {low} = {i - q * h : q \in 0 .. (k - 1)}
  <2>1. ASSUME NEW j \in M \ {low} PROVE j \in {i - q * h : q \in 0 .. (k - 1)}
    <3>1. PICK q \in 0 .. k : j = i - q * h
      BY DEF Passed
    <3>2. q \in 0 .. (k - 1)
      BY <3>1
    <3> QED
      BY <3>1, <3>2
  <2>2. ASSUME NEW q \in 0 .. (k - 1) PROVE i - q * h \in M \ {low}
    <3>1. q \in 0 .. k /\ k - q \in Int /\ k - q >= 1 /\ (k - q) * h = k * h - q * h /\ q * h \in Int
      OBVIOUS
    <3>2. (k - q) * h >= h
      BY <3>1, Multiples
    <3>3. i - q * h # low
      BY <1>1, <3>1, <3>2
    <3> QED
      BY <3>1, <3>3 DEF Passed
  <2> QED
    BY <2>1, <2>2
<1>6. Chain(low, i, h)
  BY <1>2, <1>3
<1> QED
  BY <1>2, <1>3, <1>4, <1>5, <1>6 DEF Column, Raised

\* The quotient is the greatest factor.
LEMMA Quotient ==
  ASSUME NEW h \in Nat \ {0}, NEW i \in Nat, NEW k \in Nat
  PROVE  i \div h \in Nat /\ (k <= i \div h <=> k * h <= i)
<1> DEFINE d == i \div h
           m == i % h
<1>1. d \in Nat /\ m \in 0 .. (h - 1) /\ i = h * d + m
  OBVIOUS
<1> HIDE DEF d, m
<1>2. d - k \in Int /\ (d - k) * h = h * d - k * h /\ k * h \in Int /\ h * d \in Int
  BY <1>1
<1>3. CASE k <= d
  <2>1. (d - k) * h >= 0
    BY <1>1, <1>2, <1>3, Multiples
  <2> QED
    BY <1>1, <1>2, <1>3, <2>1 DEF d
<1>4. CASE ~ (k <= d)
  <2>1. d - k <= -1
    BY <1>1, <1>4
  <2>2. (d - k) * h <= -h
    BY <1>2, <2>1, Multiples
  <2>3. h * d - k * h <= -h
    BY <1>2, <2>2
  <2> QED
    BY <1>1, <1>2, <1>4, <2>3 DEF d
<1> QED
  BY <1>3, <1>4

(***************************************************************************)
(* The gaps 1, 4, 13, ...                                                  *)
(***************************************************************************)
Gaps == {x \in Nat : \A T \in SUBSET Nat : 1 \in T /\ (\A y \in T : 3 * y + 1 \in T) => x \in T}

\* The gaps on the way up.
LEMMA NextGap ==
  1 \in Gaps /\ \A x \in Gaps : 3 * x + 1 \in Gaps
<1>1. 1 \in Gaps
  BY DEF Gaps
<1>2. ASSUME NEW x \in Gaps PROVE 3 * x + 1 \in Gaps
  <2>1. x \in Nat /\ 3 * x + 1 \in Nat
    BY DEF Gaps
  <2>2. ASSUME NEW T \in SUBSET Nat, 1 \in T, \A y \in T : 3 * y + 1 \in T PROVE 3 * x + 1 \in T
    BY <2>2 DEF Gaps
  <2> QED
    BY <2>1, <2>2 DEF Gaps
<1> QED
  BY <1>1, <1>2

\* The gaps on the way down.
LEMMA PreviousGap ==
  ASSUME NEW x \in Gaps
  PROVE  /\ x \in Nat \ {0} /\ x \div 3 \in Nat
         /\ x \div 3 = 0 => x = 1
         /\ x \div 3 # 0 => x \div 3 \in Gaps
<1> DEFINE T == {y \in Gaps : y = 1 \/ \E z \in Gaps : y = 3 * z + 1}
<1>1. T \in SUBSET Nat /\ 1 \in T
  BY NextGap DEF Gaps
<1>2. \A y \in T : 3 * y + 1 \in T
  BY NextGap
<1>3. x \in T
  <2> HIDE DEF T
  <2> QED
    BY <1>1, <1>2 DEF Gaps
<1>4. CASE x = 1
  BY <1>4
<1>5. ASSUME NEW z \in Gaps, x = 3 * z + 1
      PROVE  x \in Nat \ {0} /\ x \div 3 \in Nat /\ (x \div 3 = 0 => x = 1) /\ x \div 3 \in Gaps
  <2>1. z \in Nat
    BY DEF Gaps
  <2>2. x \div 3 = z /\ x \in Nat \ {0}
    BY <1>5, <2>1
  <2> QED
    BY <1>5, <2>1, <2>2
<1> QED
  BY <1>3, <1>4, <1>5

(***************************************************************************)
(* The shell sort.                                                         *)
(***************************************************************************)
Cells == 0 .. (length - 1)

\* The array o is in order at the gap g.
Ordered(o, g) == \A j \in g .. (length - 1) : o[j - g] <= o[j]

\* A pass has put the cells below sortI in order, chain by chain.
ChainsOrdered ==
  \A x, y \in Cells : x <= y /\ y < sortI /\ Chain(y, x, sortH) => my_array[x] <= my_array[y]

\* The array the pass began with is o, and the pass has moved its values inside
\* their chains and below sortI only.
Pass(o, p, r) ==
  /\ o \in [Cells -> SortVals] /\ Moves(p, r, Cells)
  /\ \A x \in Cells : /\ my_array[x] = o[p[x]]
                      /\ Chain(p[x], x, sortH)
                      /\ x >= sortI => p[x] = x
  /\ \A g \in passed : Ordered(o, g)

SortTypes ==
  /\ length \in Nat /\ passed \subseteq Nat \ {0} /\ loop \in {"gap", "insert", "end"}
  /\ given \in [Cells -> SortVals] /\ my_array \in [Cells -> SortVals]

\* No value is lost or doubled.
SameValues ==
  \A v \in SortVals : Cardinality(Of(my_array, Cells, v)) = Cardinality(Of(given, Cells, v))

\* In the middle of a pass the array is in general not in order at the gaps
\* before: what is kept is how it came from an array that was.
SortInv ==
  /\ SortTypes /\ SameValues
  /\ loop = "gap" => passed = {} /\ sortH \in Gaps
  /\ loop = "insert" =>
       /\ sortH \in Gaps /\ sortI \in Nat /\ sortH <= sortI
       /\ ChainsOrdered /\ (\E o, p, r : Pass(o, p, r))
       /\ sortI = sortH => \A g \in passed : Ordered(my_array, g)
  /\ loop = "end" => 1 \in passed /\ \A g \in passed : Ordered(my_array, g)

\* How far down a value moves: past all the greater ones of its chain.
LEMMA PlacesFound ==
  ASSUME SortTypes, sortH \in Nat \ {0}, sortI \in Nat, sortI < length, NEW k, k = H!Max(H!Places)
  PROVE  /\ k \in Nat /\ k * sortH <= sortI
         /\ \A q \in 1 .. k : my_array[sortI] < my_array[sortI - q * sortH]
         /\ (k + 1) * sortH <= sortI => my_array[sortI - (k + 1) * sortH] <= my_array[sortI]
<1> DEFINE h == sortH
           i == sortI
           a == my_array
           d == i \div h
           X == H!Places
<1>0. h \in Nat \ {0} /\ i \in Nat /\ length \in Nat /\ i < length /\ a \in [Cells -> Int]
  BY SortAssumption DEF SortTypes
<1>1. X = {m \in 0 .. d : \A q \in 1 .. m : a[i] < a[i - q * h]}
  BY DEF H!Places
<1>2. d \in Nat
  BY <1>0, Quotient
<1> HIDE DEF X, h, i, a, d
<1>3. 0 \in X /\ X \in SUBSET (0 .. d)
  BY <1>1, <1>2
<1>4. k \in X /\ \A m \in X : k >= m
  <2>1. \E x \in X : \A y \in X : x >= y
    BY <1>2, <1>3, GreatestOne
  <2>2. k = CHOOSE x \in X : \A y \in X : x >= y
    BY DEF X, H!Max
  <2> QED
    BY <2>1, <2>2
<1>5. k \in 0 .. d /\ k \in Nat /\ \A q \in 1 .. k : a[i] < a[i - q * h]
  BY <1>1, <1>4
<1>6. k * h <= i
  BY <1>0, <1>5, Quotient DEF d
<1>7. ASSUME (k + 1) * h <= i PROVE a[i - (k + 1) * h] <= a[i]
  <2>1. k + 1 \in Nat /\ k + 1 \in 0 .. d
    <3>1. k + 1 \in Nat
      BY <1>5
    <3>2. k + 1 <= d
      BY <1>0, <1>7, <3>1, Quotient DEF d
    <3> QED
      BY <1>2, <3>1, <3>2
  <2>2. ~ (k >= k + 1)
    BY <1>5
  <2>3. k + 1 \notin X
    BY <1>4, <2>2
  <2>4. \A q \in 1 .. (k + 1) : q = k + 1 \/ q \in 1 .. k
    BY <1>5
  <2>5. ~ (a[i] < a[i - (k + 1) * h])
    BY <1>1, <1>5, <2>1, <2>3, <2>4
  <2>6. i - (k + 1) * h \in Cells
    <3>1. (k + 1) * h \in Int /\ (k + 1) * h >= 0
      BY <1>0, <2>1, Multiples
    <3> QED
      BY <1>0, <1>7, <3>1 DEF Cells
  <2>7. a[i] \in Int /\ a[i - (k + 1) * h] \in Int
    <3>1. i \in Cells
      BY <1>0 DEF Cells
    <3> QED
      BY <1>0, <2>6, <3>1
  <2> QED
    BY <2>5, <2>7
<1> QED
  BY <1>5, <1>6, <1>7 DEF h, i, a

\* What Insert() leaves: the value of cell i has gone down to low, and those it
\* passed have gone up by one gap.
Slid(b, a, i, h, low, M) ==
  \A j \in Cells : b[j] = IF j = low THEN a[i] ELSE IF j \in M THEN a[j - h] ELSE a[j]

\* Sliding is a rearrangement inside a chain.
LEMMA SlidMoves ==
  ASSUME SortTypes, NEW h \in Nat \ {0}, NEW i \in Cells, NEW k \in Nat, k * h <= i,
         NEW low, low = i - k * h, NEW M, M = Passed(i, h, k)
  PROVE  \E p, r : /\ Moves(p, r, Cells)
                   /\ \A j \in Cells : /\ p[j] = IF j = low THEN i ELSE IF j \in M THEN j - h ELSE j
                                       /\ Chain(p[j], j, h)
                                       /\ j > i => p[j] = j
<1> DEFINE p == [j \in Cells |-> IF j = low THEN i ELSE IF j \in M THEN j - h ELSE j]
           r == [j \in Cells |-> IF j = i THEN low ELSE IF j \in M THEN j + h ELSE j]
<1>0. length \in Nat /\ i \in Nat /\ \A j \in 0 .. i : j \in Cells
  BY DEF SortTypes, Cells
<1>1. /\ low \in 0 .. i /\ i \in M /\ low \in M
      /\ \A j \in M : j \in low .. i /\ Chain(j, i, h)
      /\ \A j \in M : (j # low => j - h \in M) /\ (j # i => j + h \in M)
      /\ Chain(low, i, h)
  <2>1. Column(M, i, h, low)
    BY <1>0, PassedCells
  <2> QED
    BY <2>1 DEF Column
<1>2. \A j \in M : j \in Cells /\ j \in Int
  <2>1. \A j \in M : j \in 0 .. i
    BY <1>0, <1>1
  <2> QED
    BY <1>0, <2>1
<1>3. low \in Cells /\ \A j \in Cells : j \in Int
  BY <1>0, <1>1 DEF Cells
<1>4. p \in [Cells -> Cells] /\ r \in [Cells -> Cells]
  BY <1>1, <1>2, <1>3
<1>5. ASSUME NEW j \in Cells PROVE r[p[j]] = j
  <2>1. CASE j = low
    BY <1>3, <2>1
  <2>2. CASE j # low /\ j \in M
    <3>1. p[j] = j - h /\ j - h \in M /\ j - h \in Cells /\ j - h # i /\ (j - h) + h = j
      BY <1>0, <1>1, <1>2, <2>2
    <3> QED
      BY <3>1
  <2>3. CASE j # low /\ j \notin M
    BY <1>1, <2>3
  <2> QED
    BY <2>1, <2>2, <2>3
<1>6. ASSUME NEW j \in Cells PROVE p[r[j]] = j
  <2>1. CASE j = i
    BY <1>3, <2>1
  <2>2. CASE j # i /\ j \in M
    <3>1. r[j] = j + h /\ j + h \in M /\ j + h \in Cells /\ j + h # low /\ (j + h) - h = j
      BY <1>0, <1>1, <1>2, <2>2
    <3> QED
      BY <3>1
  <2>3. CASE j # i /\ j \notin M
    BY <1>1, <2>3
  <2> QED
    BY <2>1, <2>2, <2>3
<1>7. ASSUME NEW j \in Cells PROVE Chain(p[j], j, h) /\ (j > i => p[j] = j)
  <2>1. CASE j = low
    <3>1. p[j] = i /\ ~ (j > i) /\ low \in Int /\ i \in Int
      BY <1>0, <1>1, <1>3, <2>1
    <3>2. Chain(i, low, h)
      <4> HIDE DEF p
      <4> QED
        BY <1>1, <3>1, Chains
    <3> QED
      BY <2>1, <3>1, <3>2
  <2>2. CASE j # low /\ j \in M
    <3>1. p[j] = j - h /\ ~ (j > i) /\ j \in Int
      BY <1>0, <1>1, <1>2, <2>2
    <3>2. Chain(j - h, j, h)
      BY <3>1, Chains
    <3> QED
      BY <3>1, <3>2
  <2>3. CASE j # low /\ j \notin M
    <3>1. p[j] = j /\ j \in Int
      BY <1>3, <2>3
    <3>2. Chain(j, j, h)
      BY <3>1, Chains
    <3> QED
      BY <3>1, <3>2
  <2> QED
    BY <2>1, <2>2, <2>3
<1>8. \A j \in Cells : p[j] = IF j = low THEN i ELSE IF j \in M THEN j - h ELSE j
  OBVIOUS
<1> HIDE DEF p, r
<1>9. Moves(p, r, Cells)
  BY <1>4, <1>5, <1>6 DEF Moves
<1> QED
  BY <1>7, <1>8, <1>9

\* Sliding puts the chain in order up to cell i.
LEMMA SlidOrdered ==
  ASSUME SortTypes, sortH \in Nat \ {0}, sortI \in Nat, sortI < length, ChainsOrdered,
         NEW k \in Nat, k * sortH <= sortI,
         \A q \in 1 .. k : my_array[sortI] < my_array[sortI - q * sortH],
         (k + 1) * sortH <= sortI => my_array[sortI - (k + 1) * sortH] <= my_array[sortI],
         NEW low, low = sortI - k * sortH, NEW M, M = Passed(sortI, sortH, k),
         NEW b, Slid(b, my_array, sortI, sortH, low, M)
  PROVE  \A x, y \in Cells : x <= y /\ y < sortI + 1 /\ Chain(y, x, sortH) => b[x] <= b[y]
<1> DEFINE h == sortH
           i == sortI
           a == my_array
           v == a[i]
<1>00. /\ h \in Nat \ {0} /\ i \in Nat /\ length \in Nat /\ i < length /\ k * h <= i
       /\ a \in [Cells -> Int] /\ low = i - k * h /\ M = Passed(i, h, k)
       /\ \A q \in 1 .. k : v < a[i - q * h]
       /\ (k + 1) * h <= i => a[i - (k + 1) * h] <= v
  BY SortAssumption DEF SortTypes
<1>2. \A x, y \in Cells : x <= y /\ y < i /\ Chain(y, x, h) => a[x] <= a[y]
  BY DEF ChainsOrdered
<1>5. \A j \in Cells : b[j] = IF j = low THEN v ELSE IF j \in M THEN a[j - h] ELSE a[j]
  BY DEF Slid
<1> SUFFICES ASSUME NEW x \in Cells, NEW y \in Cells, x <= y, y < i + 1, Chain(y, x, h)
             PROVE  b[x] <= b[y]
  OBVIOUS
<1> HIDE DEF h, i, a, v
<1>0. /\ i \in Cells /\ h \in Nat \ {0} /\ i \in Nat /\ h \in Int
      /\ \A j \in Cells : a[j] \in Int /\ j \in Int /\ j >= 0
      /\ \A j \in 0 .. i : j \in Cells
  BY <1>00 DEF Cells
<1>1. /\ low \in 0 .. i /\ i \in M /\ low \in M
      /\ \A j \in M : j \in low .. i /\ Chain(j, i, h)
      /\ \A j \in M : (j # low => j - h \in M) /\ (j # i => j + h \in M)
      /\ \A j \in low .. i : Chain(j, i, h) => j \in M
      /\ Chain(low, i, h)
  <2>1. Column(M, i, h, low)
    BY <1>00, PassedCells
  <2> QED
    BY <2>1 DEF Column
<1>3. \A j \in M : j # i => v < a[j]
  <2> SUFFICES ASSUME NEW j \in M, j # i PROVE v < a[j]
    OBVIOUS
  <2>1. PICK q \in 0 .. k : j = i - q * h
    BY <1>00 DEF Passed
  <2>2. q # 0
    BY <1>0, <2>1
  <2>3. q \in 1 .. k
    BY <2>2
  <2> QED
    BY <1>00, <2>1, <2>3
<1>4. ASSUME NEW j \in Cells, j < low, Chain(j, i, h) PROVE a[j] <= v
  <2>1. j \in Int /\ low \in Int
    BY <1>0, <1>1
  <2>2. Chain(j, low, h) /\ Chain(low, j, h)
    <3>1. Chain(i, low, h)
      BY <1>0, <1>1, <2>1, Chains
    <3>2. Chain(j, low, h)
      BY <1>0, <1>4, <2>1, <3>1, ChainJoined
    <3> QED
      BY <1>0, <2>1, <3>2, ChainTurned
  <2>3. j <= low - h
    BY <1>0, <1>4, <2>1, <2>2, Chains
  <2>4. low - h = i - (k + 1) * h /\ (k + 1) * h <= i
    <3>1. (k + 1) * h = k * h + h /\ k * h \in Int
      BY <1>0, Multiples
    <3>2. j >= 0
      BY <1>0
    <3> QED
      BY <1>00, <2>1, <2>3, <3>1, <3>2
  <2>5. a[low - h] <= v
    BY <1>00, <2>4
  <2>6. low - h \in Cells /\ low - h < i
    <3>1. low - h \in 0 .. i /\ low - h < i
      BY <1>0, <1>1, <2>1, <2>3
    <3> QED
      BY <1>0, <3>1
  <2>7. Chain(low - h, j, h)
    <3>0. low - h \in Int
      BY <1>0, <2>1
    <3>1. Chain(low - h, low, h)
      BY <1>0, <2>1, <3>0, Chains
    <3> QED
      BY <1>0, <2>1, <2>2, <3>0, <3>1, ChainJoined
  <2>8. a[j] <= a[low - h]
    BY <1>2, <2>3, <2>6, <2>7
  <2>9. a[j] \in Int /\ a[low - h] \in Int /\ v \in Int
    BY <1>0, <2>6 DEF v
  <2> QED
    BY <2>5, <2>8, <2>9
<1>6. x \in Int /\ y \in Int /\ Chain(x, y, h) /\ x >= 0 /\ y <= i /\ x <= i /\ low \in Int
  <2>1. x \in Int /\ y \in Int /\ x >= 0 /\ low \in Int
    BY <1>0, <1>1
  <2>2. Chain(x, y, h)
    BY <1>0, <2>1, Chains
  <2> QED
    BY <1>0, <2>1, <2>2
<1>7. \A j \in M : j \in Cells /\ j \in Int /\ low <= j /\ j <= i
  <2>1. \A j \in M : j \in 0 .. i /\ low <= j
    BY <1>0, <1>1
  <2> QED
    BY <1>0, <2>1
<1>8. CASE ~ Chain(y, i, h)
  <2>1. ~ Chain(x, i, h)
    BY <1>0, <1>6, <1>8, Chains
  <2>2. x \notin M /\ y \notin M /\ x # low /\ y # low /\ y # i
    BY <1>0, <1>1, <1>8, <2>1, Chains
  <2>3. b[x] = a[x] /\ b[y] = a[y] /\ y < i
    BY <1>0, <1>5, <1>6, <2>2
  <2> QED
    BY <1>2, <2>3
<1>9. CASE Chain(y, i, h)
  <2>1. Chain(x, i, h)
    BY <1>0, <1>6, <1>9, Chains
  <2>2. (x >= low => x \in M) /\ (y >= low => y \in M)
    BY <1>0, <1>1, <1>6, <1>9, <2>1
  <2>3. (x < low => x \notin M) /\ (y < low => y \notin M)
    BY <1>6, <1>7
  <2>4. CASE y < low
    <3>1. x < low /\ b[x] = a[x] /\ b[y] = a[y] /\ y < i
      BY <1>0, <1>1, <1>5, <1>6, <2>3, <2>4
    <3> QED
      BY <1>2, <3>1
  <2>5. CASE y = low
    <3>1. b[y] = v
      BY <1>5, <2>5
    <3>2. CASE x = low
      BY <1>0, <2>5, <3>1, <3>2 DEF v
    <3>3. CASE x # low
      <4>1. x < low /\ b[x] = a[x]
        BY <1>5, <1>6, <2>3, <2>5, <3>3
      <4> QED
        BY <1>4, <2>1, <3>1, <4>1
    <3> QED
      BY <3>2, <3>3
  <2>6. CASE y > low
    <3> DEFINE z == y - h
    <3>1. y \in M /\ y # low /\ b[y] = a[z]
      BY <1>5, <1>6, <2>2, <2>6
    <3>2. z \in M /\ z \in Cells /\ z \in Int /\ z < i /\ low <= z /\ z < y
      BY <1>0, <1>1, <1>6, <1>7, <3>1
    <3>3. Chain(z, y, h)
      BY <1>0, <1>6, Chains
    <3>4. Chain(z, x, h)
      <4>1. x \in Int /\ y \in Int /\ z \in Int
        BY <1>6, <3>2
      <4> HIDE DEF z
      <4> QED
        BY <1>0, <3>3, <4>1, Chains
    <3>5. CASE x < low
      <4>1. b[x] = a[x] /\ x <= z
        BY <1>5, <1>6, <2>3, <3>2, <3>5
      <4> QED
        BY <1>2, <3>1, <3>2, <3>4, <4>1
    <3>6. CASE x = low
      <4>1. b[x] = v /\ z # i
        BY <1>0, <1>5, <3>2, <3>6
      <4>2. v < a[z] /\ v \in Int /\ a[z] \in Int
        BY <1>0, <1>3, <3>2, <4>1 DEF v
      <4> QED
        BY <3>1, <4>1, <4>2
    <3>7. CASE x > low
      <4>1. x \in M /\ x # low /\ b[x] = a[x - h]
        BY <1>5, <1>6, <2>2, <3>7
      <4>2. x - h \in M /\ x - h \in Cells /\ x - h <= z
        BY <1>0, <1>1, <1>6, <1>7, <4>1
      <4>3. Chain(y - h, x - h, h)
        <5>1. Chain(y, x, h) /\ y \in Int /\ x \in Int /\ h \in Int
          BY <1>0, <1>6
        <5> HIDE DEF z
        <5> QED
          BY <1>0, <5>1, Chains
      <4> QED
        BY <1>2, <3>1, <3>2, <4>1, <4>2, <4>3
    <3> QED
      BY <1>6, <3>5, <3>6, <3>7
  <2> QED
    BY <1>6, <2>4, <2>5, <2>6
<1> QED
  BY <1>8, <1>9

\* A pass that is over has left the array in order at its own gap and at all
\* the gaps before.  If a value were less than the one g cells below it, every
\* value of its chain up to it would be less too.  The array the pass began with
\* was in order, so that each of these values, unless it came from the first g
\* cells, had a value below it, g cells down, that is now below the greater one:
\* as many values as there are cells would share one cell less.
LEMMA PassKeepsOrder ==
  ASSUME SortTypes, sortH \in Nat \ {0}, sortI \in Nat, sortI >= length, ChainsOrdered,
         NEW o, NEW p, NEW r, Pass(o, p, r), NEW g \in passed
  PROVE  Ordered(my_array, g)
<1> SUFFICES ASSUME NEW j \in g .. (length - 1), ~ (my_array[j - g] <= my_array[j]) PROVE FALSE
  BY DEF Ordered
<1> DEFINE h == sortH
           a == my_array
           w == a[j]
           X == {x \in 0 .. j : Chain(x, j, h)}
           f == [x \in X |-> IF p[x] < g THEN p[x] ELSE r[p[x] - g] + g]
<1>1. /\ h \in Nat \ {0} /\ length \in Nat /\ g \in Nat \ {0} /\ h \in Int /\ g \in Int
      /\ o \in [Cells -> Int] /\ a \in [Cells -> Int]
  <2>1. h \in Nat \ {0} /\ length \in Nat /\ g \in Nat \ {0}
    BY DEF SortTypes
  <2>2. o \in [Cells -> SortVals] /\ a \in [Cells -> SortVals]
    BY DEF SortTypes, Pass
  <2>3. o \in [Cells -> Int] /\ a \in [Cells -> Int]
    BY <2>2, SortAssumption
  <2> QED
    BY <2>1, <2>3
<1>2. /\ j \in Cells /\ j - g \in Cells /\ j \in Int /\ j < length /\ g <= j
      /\ \A x \in 0 .. j : x \in Cells
      /\ \A x \in Cells : x \in Int /\ x >= 0 /\ x < sortI /\ x < length
      /\ j - g \in Int
  BY <1>1 DEF Cells
<1>3. w \in Int /\ a[j - g] \in Int /\ w < a[j - g]
  BY <1>1, <1>2
<1>4. /\ p \in [Cells -> Cells] /\ r \in [Cells -> Cells]
      /\ \A x \in Cells : r[p[x]] = x /\ p[r[x]] = x
      /\ \A x \in Cells : a[x] = o[p[x]] /\ Chain(p[x], x, h)
      /\ \A x \in g .. (length - 1) : o[x - g] <= o[x]
  BY DEF Pass, Moves, Ordered
<1>5. \A x, y \in Cells : x <= y /\ Chain(y, x, h) => a[x] <= a[y]
  BY <1>2 DEF ChainsOrdered
<1> HIDE DEF h, a, w
<1>6. ASSUME NEW x \in X
      PROVE  /\ x \in Cells /\ p[x] \in Int /\ p[x] >= 0
             /\ p[x] < g => p[x] \in X \ {j}
             /\ p[x] >= g => /\ p[x] - g \in Cells /\ r[p[x] - g] \in Int
                             /\ r[p[x] - g] + g \in X \ {j} /\ r[p[x] - g] + g >= g
  <2>1. x \in 0 .. j /\ x \in Cells /\ Chain(x, j, h) /\ x \in Int /\ x <= j
    BY <1>2
  <2>2. p[x] \in Cells /\ p[x] \in Int /\ p[x] >= 0 /\ p[x] < length
    BY <1>2, <1>4, <2>1
  <2>3. a[x] <= w /\ a[x] \in Int
    <3>1. Chain(j, x, h)
      BY <1>1, <1>2, <2>1, Chains
    <3> QED
      BY <1>1, <1>2, <1>5, <2>1, <3>1 DEF w
  <2>4. o[p[x]] <= w /\ o[p[x]] \in Int
    BY <1>1, <1>4, <2>1, <2>2, <2>3
  <2>5. Chain(p[x], j, h)
    <3>1. Chain(p[x], x, h)
      BY <1>4, <2>1
    <3> QED
      BY <1>1, <1>2, <2>1, <2>2, <3>1, Chains
  <2>6. ASSUME p[x] < g PROVE p[x] \in X \ {j}
    BY <1>1, <1>2, <2>2, <2>5, <2>6
  <2>7. ASSUME p[x] >= g
        PROVE  /\ p[x] - g \in Cells /\ r[p[x] - g] \in Int
               /\ r[p[x] - g] + g \in X \ {j} /\ r[p[x] - g] + g >= g
    <3> DEFINE y == p[x] - g
               z == r[y]
    <3>1. y \in Cells /\ y \in Int /\ p[x] \in g .. (length - 1)
      <4> DEFINE c == p[x]
      <4>1. c \in Int /\ c >= 0 /\ c < length /\ c >= g
        BY <2>2, <2>7
      <4> HIDE DEF c
      <4>2. c - g \in 0 .. (length - 1) /\ c - g \in Int /\ c \in g .. (length - 1)
        BY <1>1, <4>1
      <4> QED
        BY <4>2 DEF c, Cells
    <3>2. z \in Cells /\ z \in Int /\ z >= 0 /\ p[z] = y
      BY <1>2, <1>4, <3>1
    <3>3. o[y] <= w /\ o[y] \in Int
      <4>1. o[y] <= o[p[x]]
        BY <1>4, <3>1
      <4>2. o[y] \in Int
        BY <1>1, <3>1
      <4> QED
        BY <1>3, <2>4, <4>1, <4>2
    <3>4. a[z] <= w /\ a[z] \in Int
      BY <1>4, <3>2, <3>3
    <3>5. Chain(z, j - g, h)
      <4>1. Chain(y, j - g, h)
        BY <1>1, <1>2, <2>2, <2>5, Chains
      <4>2. Chain(y, z, h)
        BY <1>4, <3>2
      <4> HIDE DEF y, z
      <4>3. Chain(z, y, h)
        BY <1>1, <3>1, <3>2, <4>2, Chains
      <4> QED
        BY <1>1, <1>2, <3>1, <3>2, <4>1, <4>3, Chains
    <3> HIDE DEF y, z
    <3>6. z < j - g
      <4>1. ~ (j - g <= z)
        <5> SUFFICES ASSUME j - g <= z PROVE FALSE
          OBVIOUS
        <5>1. a[j - g] <= a[z]
          BY <1>2, <1>5, <3>2, <3>5
        <5> QED
          BY <1>3, <3>4, <5>1
      <4> QED
        BY <1>2, <3>2, <4>1
    <3>7. Chain(z + g, j, h)
      <4>1. Chain(z + g, (j - g) + g, h)
        BY <1>1, <1>2, <3>2, <3>5, Chains
      <4>2. (j - g) + g = j
        BY <1>1, <1>2
      <4> QED
        BY <4>1, <4>2
    <3>8. z + g \in 0 .. j /\ z + g # j /\ z + g >= g
      BY <1>1, <1>2, <3>2, <3>6
    <3> QED
      BY <3>1, <3>2, <3>7, <3>8 DEF y, z
  <2> QED
    BY <2>1, <2>2, <2>6, <2>7
<1>7. f \in [X -> X \ {j}]
  <2>1. \A x \in X : p[x] < g \/ p[x] >= g
    BY <1>1, <1>6
  <2> HIDE DEF X
  <2> QED
    BY <1>6, <2>1
<1>8. ASSUME NEW x \in X, NEW y \in X, f[x] = f[y] PROVE x = y
  <2>0. /\ x \in Cells /\ y \in Cells /\ r[p[x]] = x /\ r[p[y]] = y
        /\ p[x] \in Int /\ p[y] \in Int
    BY <1>4, <1>6
  <2>1. CASE p[x] < g /\ p[y] < g
    BY <1>8, <2>0, <2>1
  <2>2. CASE p[x] < g /\ ~ (p[y] < g)
    <3>1. f[x] < g /\ f[y] >= g /\ f[x] \in Int /\ f[y] \in Int
      BY <1>1, <1>6, <2>0, <2>2
    <3> HIDE DEF f
    <3> QED
      BY <1>1, <1>8, <3>1
  <2>3. CASE ~ (p[x] < g) /\ p[y] < g
    <3>1. f[y] < g /\ f[x] >= g /\ f[x] \in Int /\ f[y] \in Int
      BY <1>1, <1>6, <2>0, <2>3
    <3> HIDE DEF f
    <3> QED
      BY <1>1, <1>8, <3>1
  <2>4. CASE ~ (p[x] < g) /\ ~ (p[y] < g)
    <3>1. p[x] >= g /\ p[y] >= g
      BY <1>1, <2>0, <2>4
    <3>2. /\ p[x] - g \in Cells /\ r[p[x] - g] \in Int /\ f[x] = r[p[x] - g] + g
          /\ p[y] - g \in Cells /\ r[p[y] - g] \in Int /\ f[y] = r[p[y] - g] + g
      BY <1>6, <2>4, <3>1
    <3> HIDE DEF f, X
    <3>3. r[p[x] - g] = r[p[y] - g]
      <4> DEFINE c == r[p[x] - g]
                 d == r[p[y] - g]
      <4>1. c \in Int /\ d \in Int /\ c + g = d + g
        BY <1>8, <3>2
      <4> HIDE DEF c, d
      <4>2. c = d
        BY <1>1, <4>1
      <4> QED
        BY <4>2 DEF c, d
    <3>4. p[x] - g = p[y] - g
      BY <1>4, <3>2, <3>3
    <3>5. p[x] = p[y]
      BY <1>1, <2>0, <3>4
    <3> QED
      BY <2>0, <3>5
  <2> QED
    BY <2>1, <2>2, <2>3, <2>4
<1>9. j \in X /\ IsFiniteSet(X)
  <2>1. Chain(j, j, h) /\ j \in 0 .. j
    BY <1>1, <1>2, Chains
  <2>2. IsFiniteSet(0 .. j)
    BY <1>2, FS_Interval
  <2>3. X \in SUBSET (0 .. j)
    OBVIOUS
  <2>4. j \in X
    BY <2>1
  <2> HIDE DEF X
  <2> QED
    BY <2>2, <2>3, <2>4, FS_Subset
<1> HIDE DEF X, f
<1>10. IsFiniteSet(X \ {j}) /\ Cardinality(X \ {j}) < Cardinality(X)
  <2>1. IsFiniteSet(X \ {j}) /\ Cardinality(X \ {j}) = Cardinality(X) - 1 /\ Cardinality(X) \in Nat
    BY <1>9, FS_RemoveElement, FS_CardinalityType
  <2> QED
    BY <2>1
<1>11. \E x, y \in X : x # y /\ f[x] = f[y]
  <2> DEFINE Y == X \ {j}
  <2>1. IsFiniteSet(X) /\ IsFiniteSet(Y) /\ Cardinality(Y) < Cardinality(X) /\ f \in [X -> Y]
    BY <1>7, <1>9, <1>10
  <2> HIDE DEF Y
  <2> QED
    BY <2>1, FS_PigeonHole
<1> QED
  BY <1>8, <1>11

\* Insert() goes on with the pass.
LEMMA InsertStep ==
  ASSUME SortInv, H!Insert
  PROVE  SortInv'
<1> DEFINE h == sortH
           i == sortI
           a == my_array
           b == my_array'
           k == H!Max(H!Places)
           low == i - k * h
           M == Passed(i, h, k)
<1>1. loop = "insert" /\ i < length
  BY DEF H!Insert
<1>2. /\ SortTypes /\ SameValues /\ h \in Gaps /\ i \in Nat /\ h <= i /\ ChainsOrdered
      /\ \E o, p, r : Pass(o, p, r)
  BY <1>1 DEF SortInv
<1>3. /\ length \in Nat /\ h \in Nat \ {0} /\ a \in [Cells -> SortVals] /\ passed \subseteq Nat \ {0}
      /\ given \in [Cells -> SortVals]
  <2>1. h \in Nat \ {0}
    BY <1>2, PreviousGap
  <2> QED
    BY <1>2, <2>1 DEF SortTypes
<1>4. /\ length' = length /\ sortH' = h /\ sortI' = i + 1 /\ loop' = loop /\ given' = given
      /\ passed' = passed
      /\ b = [j \in DOMAIN a |->
                IF j = low THEN a[i]
                ELSE IF j \in {i - q * h : q \in 0 .. (k - 1)} THEN a[j - h] ELSE a[j]]
  BY DEF H!Insert
<1>5. /\ k \in Nat /\ k * h <= i
      /\ \A q \in 1 .. k : a[i] < a[i - q * h]
      /\ (k + 1) * h <= i => a[i - (k + 1) * h] <= a[i]
  BY <1>1, <1>2, <1>3, PlacesFound
<1>6. Cells' = Cells /\ i \in Cells
  BY <1>1, <1>2, <1>3, <1>4 DEF Cells
<1> HIDE DEF k
<1>50. low = i - k * h /\ M = Passed(i, h, k)
  OBVIOUS
<1> HIDE DEF low, M
<1>7. M \ {low} = {i - q * h : q \in 0 .. (k - 1)}
  <2>1. h \in Nat \ {0} /\ i \in Nat /\ k \in Nat /\ k * h <= i
    BY <1>2, <1>3, <1>5
  <2> HIDE DEF h, i
  <2>2. Raised(M, i, h, k, low)
    BY <2>1, <1>50, PassedCells
  <2> QED
    BY <2>2 DEF Raised
<1>8. PICK c, d : /\ Moves(c, d, Cells)
                  /\ \A j \in Cells : /\ c[j] = IF j = low THEN i ELSE IF j \in M THEN j - h ELSE j
                                      /\ Chain(c[j], j, h)
                                      /\ j > i => c[j] = j
  BY <1>2, <1>3, <1>5, <1>50, <1>6, SlidMoves
<1>9. DOMAIN b = Cells /\ Slid(b, a, i, h, low, M)
  <2>1. DOMAIN a = Cells
    BY <1>3
  <2>2. b = [j \in Cells |-> IF j = low THEN a[i] ELSE IF j \in M \ {low} THEN a[j - h] ELSE a[j]]
    BY <1>4, <1>7, <2>1
  <2> HIDE DEF b, a, i, h
  <2> QED
    BY <2>2 DEF Slid
<1>10. \A j \in Cells : b[j] = a[c[j]]
  <2> HIDE DEF b, a, i, h
  <2> QED
    BY <1>8, <1>9 DEF Slid
<1>11. c \in [Cells -> Cells] /\ d \in [Cells -> Cells]
       /\ \A j \in Cells : d[c[j]] = j /\ c[d[j]] = j
  BY <1>8 DEF Moves
<1>12. b \in [Cells -> SortVals]
  <2>1. b = [j \in Cells |-> b[j]]
    BY <1>4, <1>9
  <2> HIDE DEF b
  <2> QED
    BY <1>3, <1>10, <1>11, <2>1
<1>13. SortTypes'
  BY <1>3, <1>4, <1>6, <1>12, <1>1 DEF SortTypes
<1>14. SameValues'
  <2>1. IsFiniteSet(Cells)
    <3>1. length - 1 \in Int
      BY <1>3
    <3> QED
      BY <3>1, FS_Interval DEF Cells
  <2>2. ASSUME NEW v \in SortVals
        PROVE  Cardinality(Of(b, Cells, v)) = Cardinality(Of(given, Cells, v))
    <3>1. Cardinality(Of(b, Cells, v)) = Cardinality(Of(a, Cells, v))
      BY <1>8, <1>10, <2>1, MovedCount
    <3> QED
      BY <1>2, <3>1 DEF SameValues
  <2> QED
    BY <1>4, <1>6, <2>2 DEF SameValues
<1>15. ChainsOrdered'
  <2>1. \A x, y \in Cells : x <= y /\ y < i + 1 /\ Chain(y, x, h) => b[x] <= b[y]
    BY <1>1, <1>2, <1>3, <1>5, <1>50, <1>9, SlidOrdered
  <2> QED
    BY <1>4, <1>6, <2>1 DEF ChainsOrdered
<1>16. (\E o, p, r : Pass(o, p, r))'
  <2>1. PICK o, p, r : Pass(o, p, r)
    BY <1>2
  <2>2. /\ o \in [Cells -> SortVals] /\ p \in [Cells -> Cells] /\ r \in [Cells -> Cells]
        /\ \A j \in Cells : r[p[j]] = j /\ p[r[j]] = j
        /\ \A x \in Cells : a[x] = o[p[x]] /\ Chain(p[x], x, h) /\ (x >= i => p[x] = x)
        /\ \A g \in passed : Ordered(o, g)
    BY <2>1 DEF Pass, Moves
  <2>20. PICK np, nr : np = [j \in Cells |-> p[c[j]]] /\ nr = [j \in Cells |-> d[r[j]]]
    OBVIOUS
  <2>3. Moves(np, nr, Cells)
    <3>1. np \in [Cells -> Cells] /\ nr \in [Cells -> Cells]
      BY <1>11, <2>2, <2>20
    <3>2. \A j \in Cells : nr[np[j]] = j /\ np[nr[j]] = j
      BY <1>11, <2>2, <2>20
    <3> QED
      BY <3>1, <3>2 DEF Moves
  <2>4. ASSUME NEW x \in Cells
        PROVE  b[x] = o[np[x]] /\ Chain(np[x], x, h) /\ (x >= i + 1 => np[x] = x)
    <3>1. c[x] \in Cells /\ np[x] = p[c[x]] /\ p[c[x]] \in Cells
      BY <1>11, <2>2, <2>20
    <3>2. \A j \in Cells : j \in Int
      BY DEF Cells
    <3>3. b[x] = o[np[x]]
      BY <1>10, <2>2, <3>1
    <3>4. Chain(np[x], x, h)
      <4>1. Chain(p[c[x]], c[x], h) /\ Chain(c[x], x, h)
        BY <1>8, <2>2, <3>1
      <4>2. p[c[x]] \in Int /\ c[x] \in Int /\ x \in Int
        BY <3>1, <3>2
      <4>3. Chain(p[c[x]], x, h)
        BY <1>3, <4>1, <4>2, Chains
      <4> QED
        BY <3>1, <4>3
    <3>5. ASSUME x >= i + 1 PROVE np[x] = x
      <4>1. x > i /\ x >= i
        BY <1>2, <3>2, <3>5
      <4> QED
        BY <1>8, <2>2, <3>1, <4>1
    <3> QED
      BY <3>3, <3>4, <3>5
  <2>5. \A g \in passed : Ordered(o, g)'
    BY <1>4, <2>2 DEF Ordered
  <2>6. Pass(o, np, nr)'
    BY <1>4, <1>6, <2>2, <2>3, <2>4, <2>5 DEF Pass
  <2> QED
    BY <2>6
<1>17. sortI' # sortH' /\ sortI' \in Nat /\ sortH' <= sortI'
  BY <1>2, <1>3, <1>4
<1> QED
  BY <1>1, <1>2, <1>4, <1>13, <1>14, <1>15, <1>16, <1>17 DEF SortInv

\* A pass begins: nothing has been moved, and every chain has one cell below
\* the gap.
LEMMA PassBegins ==
  ASSUME SortTypes', sortH' \in Nat \ {0}, sortI' = sortH', \A g \in passed' : Ordered(my_array, g)'
  PROVE  ChainsOrdered' /\ (\E o, p, r : Pass(o, p, r))'
<1> DEFINE D == Cells'
           h == sortH'
<1>0. \A x \in D : x \in Int /\ x >= 0
  BY DEF Cells, SortTypes
<1>1. ChainsOrdered'
  <2> SUFFICES ASSUME NEW x \in D, NEW y \in D, x <= y, y < h, Chain(y, x, h)
               PROVE  my_array'[x] <= my_array'[y]
    BY DEF ChainsOrdered
  <2>1. Chain(x, y, h) /\ x \in Int /\ y \in Int /\ x >= 0 /\ y >= 0
    <3>1. x \in Int /\ y \in Int /\ x >= 0 /\ y >= 0
      BY <1>0
    <3> QED
      BY <3>1, Chains
  <2>2. x = y
    <3>1. x < y => x <= y - h
      BY <2>1, Chains
    <3> HIDE DEF h, D
    <3>2. h \in Nat
      BY DEF h
    <3> QED
      BY <2>1, <3>1, <3>2
  <2>3. my_array'[x] \in Int
    BY SortAssumption DEF SortTypes
  <2> QED
    BY <2>2, <2>3
<1>2. (\E o, p, r : Pass(o, p, r))'
  <2>0. PICK o, e : o = my_array' /\ e = [x \in D |-> x]
    OBVIOUS
  <2>1. Moves(e, e, D)
    BY <2>0 DEF Moves
  <2>2. \A x \in D : Chain(e[x], x, h) /\ e[x] = x
    BY <1>0, <2>0, Chains
  <2>3. o \in [D -> SortVals]
    BY <2>0 DEF SortTypes
  <2>4. \A x \in D : my_array'[x] = o[e[x]]
    BY <2>0, <2>2
  <2>5. \A g \in passed' : Ordered(o, g)'
    BY <2>0 DEF Ordered
  <2>6. Pass(o, e, e)'
    BY <2>1, <2>2, <2>3, <2>4, <2>5 DEF Pass
  <2> QED
    BY <2>6
<1> QED
  BY <1>1, <1>2

\* The gap of the first pass.
LEMMA GapStep ==
  ASSUME SortInv, H!Gap
  PROVE  SortInv'
<1>1. /\ loop = "gap" /\ passed = {} /\ sortH \in Gaps /\ SortTypes /\ SameValues
      /\ my_array' = my_array /\ length' = length /\ given' = given /\ passed' = passed
      /\ \/ sortH' = 3 * sortH + 1 /\ loop' = loop
         \/ sortI' = sortH /\ loop' = "insert" /\ sortH' = sortH
  BY DEF SortInv, H!Gap
<1>2. SortTypes' /\ SameValues'
  BY <1>1 DEF SortTypes, SameValues, Cells
<1>3. CASE sortH' = 3 * sortH + 1 /\ loop' = loop
  BY <1>1, <1>2, <1>3, NextGap DEF SortInv
<1>4. CASE sortI' = sortH /\ loop' = "insert" /\ sortH' = sortH
  <2>1. sortH \in Nat \ {0}
    BY <1>1, PreviousGap
  <2>2. ChainsOrdered' /\ (\E o, p, r : Pass(o, p, r))'
    BY <1>1, <1>2, <1>4, <2>1, PassBegins
  <2> QED
    BY <1>1, <1>2, <1>4, <2>1, <2>2 DEF SortInv
<1> QED
  BY <1>1, <1>3, <1>4

\* A pass ends, with the array in order at its gap too.
LEMMA PassEndStep ==
  ASSUME SortInv, H!PassEnd
  PROVE  SortInv'
<1> DEFINE h == sortH
<1>1. loop = "insert" /\ sortI >= length
  BY DEF H!PassEnd
<1>2. /\ SortTypes /\ SameValues /\ h \in Gaps /\ sortI \in Nat /\ ChainsOrdered
      /\ \E o, p, r : Pass(o, p, r)
  BY <1>1 DEF SortInv
<1>3. /\ my_array' = my_array /\ length' = length /\ given' = given
      /\ passed' = passed \cup {h} /\ sortH' = h \div 3 /\ sortI' = h \div 3
      /\ loop' = IF h \div 3 = 0 THEN "end" ELSE loop
  BY DEF H!PassEnd
<1>4. /\ h \in Nat \ {0} /\ h \div 3 \in Nat /\ (h \div 3 = 0 => h = 1)
      /\ h \div 3 # 0 => h \div 3 \in Gaps /\ h \div 3 \in Nat \ {0}
  <2>1. /\ h \in Nat \ {0} /\ h \div 3 \in Nat /\ (h \div 3 = 0 => h = 1)
        /\ h \div 3 # 0 => h \div 3 \in Gaps
    BY <1>2, PreviousGap
  <2> QED
    BY <2>1
<1>5. SortTypes' /\ SameValues'
  BY <1>1, <1>2, <1>3, <1>4 DEF SortTypes, SameValues, Cells
<1>6. \A g \in passed : Ordered(my_array, g)
  <2>1. PICK o, p, r : Pass(o, p, r)
    BY <1>2
  <2> QED
    BY <1>1, <1>2, <1>4, <2>1, PassKeepsOrder
<1>7. Ordered(my_array, h)
  <2> SUFFICES ASSUME NEW j \in h .. (length - 1) PROVE my_array[j - h] <= my_array[j]
    BY DEF Ordered
  <2>1. length \in Nat
    BY <1>2 DEF SortTypes
  <2>2. j \in Cells /\ j - h \in Cells /\ j - h <= j /\ j < sortI /\ j \in Int
    BY <1>1, <1>2, <1>4, <2>1 DEF Cells
  <2>3. Chain(j, j - h, h)
    BY <1>4, <2>2, Chains
  <2> QED
    BY <1>2, <2>2, <2>3 DEF ChainsOrdered
<1>8. \A g \in passed' : Ordered(my_array, g)'
  BY <1>3, <1>6, <1>7 DEF Ordered
<1>9. CASE h \div 3 = 0
  BY <1>3, <1>4, <1>5, <1>8, <1>9 DEF SortInv
<1>10. CASE h \div 3 # 0
  <2>1. ChainsOrdered' /\ (\E o, p, r : Pass(o, p, r))'
    BY <1>3, <1>4, <1>5, <1>8, <1>10, PassBegins
  <2> QED
    BY <1>1, <1>3, <1>4, <1>5, <1>8, <1>10, <2>1 DEF SortInv
<1> QED
  BY <1>9, <1>10

\* What the sort keeps holds in every state, whatever else runs.
LEMMA SortReached == AllSpec => []SortInv
<1>1. AllInit => SortInv
  <2> SUFFICES ASSUME AllInit PROVE SortInv
    OBVIOUS
  <2>1. /\ length \in 0 .. MaxLength /\ given \in [0 .. (length - 1) -> SortVals]
        /\ my_array = given /\ sortH = 1 /\ loop = "gap" /\ passed = {}
    BY DEF AllInit, H!Init
  <2>2. SortTypes /\ SameValues
    BY <2>1, SortAssumption DEF SortTypes, SameValues, Cells
  <2> QED
    BY <2>1, <2>2, NextGap DEF SortInv
<1>2. SortInv /\ [AllNext]_allVars => SortInv'
  <2> SUFFICES ASSUME SortInv, [AllNext]_allVars PROVE SortInv'
    OBVIOUS
  <2>1. H!Next \/ UNCHANGED sortVars
    BY DEF AllNext, allVars
  <2>2. CASE H!Next
    BY <2>2, GapStep, InsertStep, PassEndStep DEF H!Next
  <2>3. CASE UNCHANGED sortVars
    <3>1. /\ my_array' = my_array /\ length' = length /\ sortH' = sortH /\ sortI' = sortI
          /\ loop' = loop /\ given' = given /\ passed' = passed
      BY <2>3 DEF sortVars
    <3> QED
      BY <3>1 DEF SortInv, SortTypes, SameValues, Cells, ChainsOrdered, Pass, Ordered
  <2> QED
    BY <2>1, <2>2, <2>3
<1> QED
  BY <1>1, <1>2, PTL DEF AllSpec

\* shell_sort() (stack_corr.cpp:13-23) loses and doubles no value; whenever a
\* pass is over the array is in order at its gap and at those of all the passes
\* before, and at the end the gap 1 is among them.
THEOREM SortHolds == AllSpec => []ArraySorted
<1>1. SortInv => ArraySorted
  <2> SUFFICES ASSUME SortInv PROVE ArraySorted
    OBVIOUS
  <2>1. H!KeepsValues
    <3>1. DOMAIN my_array = Cells /\ DOMAIN given = Cells
      BY DEF SortInv, SortTypes
    <3>2. SameValues
      BY DEF SortInv
    <3>3. \A v \in SortVals : Cardinality({j \in DOMAIN my_array : my_array[j] = v})
                                = Cardinality({j \in DOMAIN given : given[j] = v})
      BY <3>1, <3>2 DEF SameValues, Of
    <3> QED
      BY <3>3 DEF H!KeepsValues, H!Cardinality, Cardinality
  <2>2. H!StaysOrdered
    <3>1. loop \in {"gap", "insert", "end"}
      BY DEF SortInv, SortTypes
    <3>2. loop = "end" \/ sortI = sortH => \A g \in passed : Ordered(my_array, g)
      BY <3>1 DEF SortInv
    <3>3. loop = "end" => 1 \in passed
      BY DEF SortInv
    <3> QED
      BY <3>2, <3>3 DEF H!StaysOrdered, Ordered
  <2> QED
    BY <2>1, <2>2 DEF ArraySorted
<1> QED
  BY <1>1, SortReached, PTL

=============================================================================
