--------------------------- MODULE PriorityQueue ---------------------------
(***************************************************************************)
(* What a dynamic array used as a heap promises: a bag of values from      *)
(* which ExtractMax takes a greatest one as long as the heap order was not *)
(* given up by a plain PushBack() or an assignment since it was last made. *)
(***************************************************************************)
EXTENDS Integers, Sequences

CONSTANTS Vals, Throws, Junk

VARIABLES
  count,     \* bag: how many of each value
  ordered,   \* the heap order holds
  wild,      \* a write went outside the buffer: nothing is promised
  out        \* the last call and what it stored, returned or threw

vars == <<count, ordered, wild, out>>

Init ==
  /\ count = [v \in Vals |-> 0]
  /\ ordered = TRUE /\ wild = FALSE /\ out = << >>

IsEmpty == \A v \in Vals : count[v] = 0
Has(v) == count[v] > 0
Greatest(v) == Has(v) /\ \A w \in Vals : Has(w) => w <= v

Insert(v) ==
  /\ count' = [count EXCEPT ![v] = @ + 1]
  /\ out' = <<"Insert", v>> /\ (ordered' => ordered) /\ UNCHANGED wild

PopBack ==
  /\ IF IsEmpty THEN out' = <<"PopBack", Throws>> /\ UNCHANGED count
     ELSE \E v \in Vals : /\ Has(v) /\ out' = <<"PopBack", v>>
                          /\ count' = [count EXCEPT ![v] = @ - 1]
  /\ UNCHANGED <<ordered, wild>>

ExtractMax ==
  /\ IF IsEmpty THEN out' = <<"ExtractMax", Throws>> /\ UNCHANGED count
     ELSE \E v \in Vals : /\ Has(v) /\ (ordered => Greatest(v))
                          /\ out' = <<"ExtractMax", v>>
                          /\ count' = [count EXCEPT ![v] = @ - 1]
  /\ UNCHANGED <<ordered, wild>>

HeapMaximum ==
  /\ out' \in {<<"HeapMaximum", v>> :
       v \in IF IsEmpty THEN {Throws} ELSE {w \in Vals : Has(w) /\ (ordered => Greatest(w))}}
  /\ UNCHANGED <<count, ordered, wild>>

MakeHeap == ordered' = TRUE /\ out' = << >> /\ UNCHANGED <<count, wild>>

Assign ==
  /\ \/ UNCHANGED count
     \/ \E v, w \in Vals :
          Has(v) /\ count' = [u \in Vals |-> count[u] - (IF u = v THEN 1 ELSE 0)
                                                      + (IF u = w THEN 1 ELSE 0)]
  /\ ordered' = FALSE /\ out' = << >> /\ UNCHANGED wild

\* An access with a check, which an empty array does not make.
At ==
  /\ out' \in {<<"At", x>> : x \in IF IsEmpty THEN Vals \cup {0, Junk}
                                   ELSE {Throws} \cup {v \in Vals : Has(v)}}
  /\ UNCHANGED <<count, ordered, wild>>

Corrupt == wild' = TRUE

Next ==
  /\ ~ wild
  /\ \/ \E v \in Vals : Insert(v)
     \/ PopBack \/ ExtractMax \/ HeapMaximum \/ MakeHeap \/ Assign \/ At \/ Corrupt

Spec == Init /\ [][Next]_vars

=============================================================================
