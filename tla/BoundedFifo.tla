---------------------------- MODULE BoundedFifo ----------------------------
(***************************************************************************)
(* A first-in first-out queue that holds at most Cap values.  out is what  *)
(* the last call returned, or the exception it threw.                      *)
(***************************************************************************)
EXTENDS Naturals, Sequences

CONSTANTS Cap, Vals, None, Full, Empty

VARIABLES items, out

Init == items = << >> /\ out = None

Push(v) ==
  IF Len(items) < Cap
  THEN items' = Append(items, v) /\ out' = None
  ELSE out' = Full /\ UNCHANGED items

Pop ==
  IF items = << >>
  THEN out' = Empty /\ UNCHANGED items
  ELSE out' = items[1] /\ items' = Tail(items)

Front ==
  /\ out' = IF items = << >> THEN Empty ELSE items[1]
  /\ UNCHANGED items

Back ==
  /\ out' = IF items = << >> THEN Empty ELSE items[Len(items)]
  /\ UNCHANGED items

Next == (\E v \in Vals : Push(v)) \/ Pop \/ Front \/ Back

Spec == Init /\ [][Next]_<<items, out>>

=============================================================================
