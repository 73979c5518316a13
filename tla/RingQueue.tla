----------------------------- MODULE RingQueue -----------------------------
(***************************************************************************)
(* The ring buffer Queue of cmake_make_gtest_cppunit (Queue.h, Queue.cpp). *)
(* One slot stays free, so that a full queue differs from an empty one.    *)
(***************************************************************************)
EXTENDS Integers, Sequences

CONSTANTS
  queue_size_,        \* the constructor's argument
  Vals,               \* values pushed
  None, Full, Empty   \* a call without a result, and the two exceptions

\* head_ and tail_ are ints.
MaxInt == 2147483647

\* Push() computes a remainder by the size, so it is not zero.
ASSUME SizeAssumption == queue_size_ \in Nat \ {0} /\ queue_size_ <= MaxInt

ASSUME ResultsAssumption == Vals \cap {None, Full, Empty} = {}

VARIABLES
  buffer_,
  head_,
  tail_,
  out        \* what the last call returned or threw

vars == <<buffer_, head_, tail_, out>>

Slots == 0 .. (queue_size_ - 1)

\* The buffer is cleared to zero, which need not be a value pushed.
Zero == 0

Init ==
  /\ buffer_ = [i \in Slots |-> Zero]
  /\ head_ = 0 /\ tail_ = 0
  /\ out = None

IsEmpty == head_ = tail_

Wrap(i) == IF i = queue_size_ THEN 0 ELSE i

\* Mutant: no slot stays free.
PushToTheBrim(v) ==
  /\ buffer_' = [buffer_ EXCEPT ![tail_] = v]
  /\ tail_' = Wrap(tail_ + 1)
  /\ out' = None
  /\ UNCHANGED head_

\* Mutant: the index does not wrap.
PushPastEnd(v) ==
  IF (tail_ + 1) % queue_size_ = head_
  THEN out' = Full /\ UNCHANGED <<buffer_, head_, tail_>>
  ELSE /\ buffer_' = [buffer_ EXCEPT ![tail_] = v]
       /\ tail_' = tail_ + 1
       /\ out' = None
       /\ UNCHANGED head_

Push(v) ==
  IF (tail_ + 1) % queue_size_ = head_
  THEN out' = Full /\ UNCHANGED <<buffer_, head_, tail_>>
  ELSE /\ buffer_' = [buffer_ EXCEPT ![tail_] = v]
       /\ tail_' = Wrap(tail_ + 1)
       /\ out' = None
       /\ UNCHANGED head_

Pop ==
  IF IsEmpty
  THEN out' = Empty /\ UNCHANGED <<buffer_, head_, tail_>>
  ELSE /\ out' = buffer_[head_]
       /\ head_' = Wrap(head_ + 1)
       /\ UNCHANGED <<buffer_, tail_>>

GetFront ==
  /\ out' = IF IsEmpty THEN Empty ELSE buffer_[head_]
  /\ UNCHANGED <<buffer_, head_, tail_>>

GetBack ==
  /\ out' = IF IsEmpty THEN Empty
            ELSE buffer_[IF tail_ = 0 THEN queue_size_ - 1 ELSE tail_ - 1]
  /\ UNCHANGED <<buffer_, head_, tail_>>

Next == (\E v \in Vals : Push(v)) \/ Pop \/ GetFront \/ GetBack

Spec == Init /\ [][Next]_vars

(***************************************************************************)
(* Properties.                                                             *)
(***************************************************************************)
\* Every variable has its type: both indices stay inside the buffer
\* (Queue.cpp:22, 32 mark the accesses "invalid write" and "invalid read").
TypeOK ==
  /\ buffer_ \in [Slots -> Vals \cup {Zero}]
  /\ head_ \in Slots /\ tail_ \in Slots
  /\ out \in Vals \cup {None, Full, Empty}

\* The values queued, oldest first.
Count == IF head_ <= tail_ THEN tail_ - head_ ELSE tail_ - head_ + queue_size_

At(i) == IF head_ + i - 1 < queue_size_ THEN head_ + i - 1 ELSE head_ + i - 1 - queue_size_

Items == [i \in 1 .. Count |-> buffer_[At(i)]]

Fifo == INSTANCE BoundedFifo WITH Cap <- queue_size_ - 1, items <- Items

\* The ring buffer is a first-in first-out queue of queue_size_ - 1 values,
\* results and exceptions of every call included.
IsFifo == Fifo!Spec

=============================================================================
