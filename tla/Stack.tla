------------------------------- MODULE Stack -------------------------------
(***************************************************************************)
(* The array stack of cmake_make_gtest_cppunit (Stack.h, Stack.cpp).  Its  *)
(* top_ is a size_t: the -1 of an empty stack is the largest one, and      *)
(* ++top_ relies on the wrap-around.                                       *)
(***************************************************************************)
EXTENDS Integers, Sequences

CONSTANTS
  stack_size_,           \* the constructor's argument
  Vals,                  \* values pushed
  SizeMod,               \* size_t is a number modulo SizeMod
  Overflow, Underflow,   \* the two exceptions
  Junk                   \* what memory outside the buffer holds

VARIABLES
  up,        \* the process runs
  buffer_,
  top_,
  out        \* the last call and what it stored, returned or threw

vars == <<up, buffer_, top_, out>>

Slots == 0 .. (stack_size_ - 1)

Wrapped(n) == n % SizeMod

Init ==
  /\ up = TRUE
  /\ buffer_ = [i \in Slots |-> 0]
  /\ top_ = Wrapped(-1)
  /\ out = << >>

IsEmpty == top_ = Wrapped(-1)

Size == Wrapped(top_ + 1)

Push(v) ==
  /\ IF Size >= stack_size_
     THEN out' = <<"Push", Overflow>> /\ UNCHANGED <<buffer_, top_>>
     ELSE /\ top_' = Wrapped(top_ + 1)
          /\ buffer_' = [buffer_ EXCEPT ![top_'] = v]
          /\ out' = <<"Push", v>>
  /\ UNCHANGED up

\* Mutant: the value stays on the stack.
PopKeeps ==
  /\ out' = <<"Pop", IF IsEmpty THEN Underflow ELSE buffer_[top_]>>
  /\ UNCHANGED <<up, buffer_, top_>>

Pop ==
  /\ IF IsEmpty
     THEN out' = <<"Pop", Underflow>> /\ UNCHANGED top_
     ELSE out' = <<"Pop", buffer_[top_]>> /\ top_' = Wrapped(top_ - 1)
  /\ UNCHANGED <<up, buffer_>>

\* Top() does not check: an empty stack reads outside the buffer.
Top ==
  /\ IF top_ \in Slots
     THEN out' = <<"Top", buffer_[top_]>> /\ UNCHANGED up
     ELSE \/ out' = <<"Top", Junk>> /\ UNCHANGED up
          \/ up' = FALSE /\ UNCHANGED out
  /\ UNCHANGED <<buffer_, top_>>

ShowSize == out' = <<"Size", Size>> /\ UNCHANGED <<up, buffer_, top_>>

\* The index is compared as a size_t: an empty stack is printed without end.
Display ==
  /\ IF IsEmpty
     THEN up' = FALSE /\ UNCHANGED out
     ELSE out' = <<"Display", [i \in 1 .. (top_ + 1) |-> buffer_[i - 1]]>> /\ UNCHANGED up
  /\ UNCHANGED <<buffer_, top_>>

Next == up /\ ((\E v \in Vals : Push(v)) \/ Pop \/ Top \/ ShowSize \/ Display)

Spec == Init /\ [][Next]_vars

(***************************************************************************)
(* Properties.                                                             *)
(***************************************************************************)
Lifo == INSTANCE BoundedLifo WITH
  Cap <- stack_size_,
  items <- [i \in 1 .. Size |-> buffer_[i - 1]]

\* The stack is a last-in first-out stack of stack_size_ values, exceptions and
\* results included, that ends the process only by reading an empty stack
\* (Stack.cpp:34, 38).
IsLifo == Lifo!Spec

=============================================================================
