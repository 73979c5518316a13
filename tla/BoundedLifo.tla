---------------------------- MODULE BoundedLifo ----------------------------
(***************************************************************************)
(* A bounded last-in first-out stack.  What Top() and Display() do on an   *)
(* empty stack is left open: they may answer anything or end the process.  *)
(***************************************************************************)
EXTENDS Naturals, Sequences

CONSTANTS Cap, Vals, Overflow, Underflow, Junk

VARIABLES
  up,      \* the process runs
  items,   \* values stacked, the last one on top
  out      \* the last call and what it stored, returned or threw

vars == <<up, items, out>>

Init == up = TRUE /\ items = << >> /\ out = << >>

Push(v) ==
  /\ IF Len(items) = Cap
     THEN out' = <<"Push", Overflow>> /\ UNCHANGED items
     ELSE out' = <<"Push", v>> /\ items' = Append(items, v)
  /\ UNCHANGED up

Pop ==
  /\ IF items = << >>
     THEN out' = <<"Pop", Underflow>> /\ UNCHANGED items
     ELSE out' = <<"Pop", items[Len(items)]>> /\ items' = SubSeq(items, 1, Len(items) - 1)
  /\ UNCHANGED up

Read ==
  /\ items # << >>
  /\ out' \in {<<"Display", items>>, <<"Top", items[Len(items)]>>}
  /\ UNCHANGED <<up, items>>

Count == out' = <<"Size", Len(items)>> /\ UNCHANGED <<up, items>>

Undefined ==
  /\ items = << >>
  /\ \/ out' \in {<<"Top", v>> : v \in Vals \cup {Junk}} /\ UNCHANGED up
     \/ up' = FALSE /\ UNCHANGED out
  /\ UNCHANGED items

Next == up /\ ((\E v \in Vals : Push(v)) \/ Pop \/ Read \/ Count \/ Undefined)

Spec == Init /\ [][Next]_vars

=============================================================================
