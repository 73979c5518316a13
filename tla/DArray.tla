------------------------------- MODULE DArray -------------------------------
(***************************************************************************)
(* The dynamic array of cmake_make_gtest_cppunit (DArray.h, DArray.cpp)    *)
(* and the heap functions that work on it (Heap.h, Heap.cpp).  A run stops *)
(* at a write outside the buffer: what follows it is undefined.            *)
(***************************************************************************)
EXTENDS Integers, Sequences, FiniteSets

CONSTANTS
  BufferSizes,   \* arguments of the constructor
  Vals,          \* values stored
  MaxLen,        \* bound: length of the array
  SizeMod,       \* size_t is a number modulo SizeMod
  Throws, Junk   \* an exception, and uninitialised memory

VARIABLES
  buffer_,
  buf_size_,
  actual_size_,
  wild,      \* a write went outside the buffer
  ordered,   \* ghost: only heap operations since the last MakeHeap()
  out        \* the last call and what it stored, returned or threw

vars == <<buffer_, buf_size_, actual_size_, wild, ordered, out>>

ToSize(n) == n % SizeMod

Init ==
  /\ buf_size_ \in BufferSizes
  /\ buffer_ = [i \in 0 .. (buf_size_ - 1) |-> 0]
  /\ actual_size_ = 0
  /\ wild = FALSE /\ ordered = TRUE /\ out = << >>

(***************************************************************************)
(* The array.                                                              *)
(***************************************************************************)
\* The buffer twice as large, its upper half uninitialised.
Reallocate ==
  [i \in 0 .. (2 * buf_size_ - 1) |-> IF i < buf_size_ THEN buffer_[i] ELSE Junk]

\* Mutant: the buffer is grown one call too late.
NoRoomLate == actual_size_ > buf_size_

NoRoom == actual_size_ = buf_size_

Room == IF NoRoom THEN 2 * buf_size_ ELSE buf_size_

\* Twice zero is zero: an array made with no room writes outside it.
Fits == actual_size_ < Room

\* The buffer with v behind the last value.
Pushed(v) ==
  LET b == IF NoRoom THEN Reallocate ELSE buffer_
  IN IF Fits THEN [b EXCEPT ![actual_size_] = v] ELSE b

\* v was pushed, which left the buffer b.
Inserted(v, b) ==
  /\ actual_size_ < MaxLen
  /\ buffer_' = b /\ buf_size_' = Room
  /\ actual_size_' = actual_size_ + 1
  /\ wild' = ~ Fits
  /\ out' = <<"Insert", v>>

PushBack(v) == Inserted(v, Pushed(v)) /\ ordered' = FALSE

PopBack ==
  /\ IF actual_size_ = 0
     THEN out' = <<"PopBack", Throws>> /\ UNCHANGED actual_size_
     ELSE /\ actual_size_' = actual_size_ - 1
          /\ out' = <<"PopBack", buffer_[actual_size_ - 1]>>
  /\ UNCHANGED <<buffer_, buf_size_, wild, ordered>>

\* The index is compared as a size_t with size - 1, which wraps when empty.
At(index) ==
  /\ out' = <<"At", IF ToSize(index) > ToSize(actual_size_ - 1) THEN Throws
                    ELSE IF index \in DOMAIN buffer_ THEN buffer_[index] ELSE Junk>>
  /\ UNCHANGED <<buffer_, buf_size_, actual_size_, wild, ordered>>

\* operator[] as the target of an assignment.
Assign(index, v) ==
  /\ buffer_' = [buffer_ EXCEPT ![index] = v]
  /\ ordered' = FALSE /\ out' = << >>
  /\ UNCHANGED <<buf_size_, actual_size_, wild>>

(***************************************************************************)
(* The heap.                                                               *)
(***************************************************************************)
Swap(b, i, j) == [b EXCEPT ![i] = b[j], ![j] = b[i]]

\* Mutant: the right child is compared with the parent, not with the larger one.
LargestOfTwo(b, n, i) ==
  LET left == 2 * i + 1  right == 2 * i + 2
  IN IF right < n /\ b[right] > b[i] THEN right
     ELSE IF left < n /\ b[left] > b[i] THEN left ELSE i

\* The largest of a node and its children.
Largest(b, n, i) ==
  LET left == 2 * i + 1  right == 2 * i + 2
      larger == IF left < n /\ b[left] > b[i] THEN left ELSE i
  IN IF right < n /\ b[right] > b[larger] THEN right ELSE larger

\* The buffer and the node after k calls: once the node is the largest nothing
\* changes, and it cannot sink more than n times.
SiftDown(b, n, i) ==
  LET sunk[k \in 0 .. n] ==
        IF k = 0 THEN <<b, i>>
        ELSE LET arr == sunk[k - 1][1]  node == sunk[k - 1][2]  largest == Largest(arr, n, node)
             IN <<Swap(arr, node, largest), largest>>
  IN sunk[n][1]

SiftUp(b, i) ==
  LET risen[k \in 0 .. i] ==
        IF k = 0 THEN <<b, i>>
        ELSE LET arr == risen[k - 1][1]  node == risen[k - 1][2]  parent == (node - 1) \div 2
             IN IF node = 0 \/ arr[node] <= arr[parent] THEN <<arr, node>>
                ELSE <<Swap(arr, node, parent), parent>>
  IN risen[i][1]

\* Sift down the nodes i, i - 1, ..., 0.
SiftAll(b, n, i) ==
  LET sifted[k \in 0 .. (i + 1)] ==
        IF k = 0 THEN b ELSE SiftDown(sifted[k - 1], n, i + 1 - k)
  IN sifted[i + 1]

MakeHeap ==
  /\ buffer_' = SiftAll(buffer_, actual_size_, actual_size_ \div 2 - 1)
  /\ ordered' = TRUE /\ out' = << >>
  /\ UNCHANGED <<buf_size_, actual_size_, wild>>

Add(element) ==
  LET b == Pushed(element)
  IN Inserted(element, IF Fits THEN SiftUp(b, actual_size_) ELSE b) /\ UNCHANGED ordered

\* The last value takes the place of the first and sinks.
ExtractMax ==
  /\ IF actual_size_ = 0
     THEN out' = <<"ExtractMax", Throws>> /\ UNCHANGED <<buffer_, actual_size_>>
     ELSE /\ out' = <<"ExtractMax", buffer_[0]>>
          /\ actual_size_' = actual_size_ - 1
          /\ buffer_' = SiftDown([buffer_ EXCEPT ![0] = buffer_[actual_size_ - 1]],
                                 actual_size_ - 1, 0)
  /\ UNCHANGED <<buf_size_, wild, ordered>>

HeapMaximum ==
  /\ out' = <<"HeapMaximum", IF actual_size_ = 0 THEN Throws ELSE buffer_[0]>>
  /\ UNCHANGED <<buffer_, buf_size_, actual_size_, wild, ordered>>

Next ==
  /\ ~ wild
  /\ \/ \E v \in Vals : PushBack(v) \/ Add(v)
     \/ \E i \in -1 .. MaxLen : At(i)
     \/ \E i \in DOMAIN buffer_, v \in Vals : Assign(i, v)
     \/ PopBack \/ MakeHeap \/ ExtractMax \/ HeapMaximum

Spec == Init /\ [][Next]_vars

(***************************************************************************)
(* Properties.                                                             *)
(***************************************************************************)
\* Every value of the array was stored there: neither Reallocate() nor a heap
\* function leaves memory that was never written below actual_size_, and the
\* array grows beyond its buffer only if it was made without room
\* (DArray.cpp:36).
WrittenInside ==
  IF wild THEN buf_size_ = 0
  ELSE actual_size_ <= buf_size_ /\ \A i \in 0 .. (actual_size_ - 1) : buffer_[i] \in Vals

Stored(v) == {i \in 0 .. (actual_size_ - 1) : i \in DOMAIN buffer_ /\ buffer_[i] = v}

Heap == INSTANCE PriorityQueue WITH
  count <- [v \in Vals |-> Cardinality(Stored(v))]

\* The array with its heap functions is a priority queue: nothing is lost or
\* doubled when it grows, is popped or rearranged, and ExtractMax returns a
\* greatest value whenever the heap order was kept.
IsPriorityQueue == Heap!Spec

=============================================================================
