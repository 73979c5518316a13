----------------------------- MODULE ShellSort -----------------------------
(***************************************************************************)
(* shell_sort() of cmake_make_gtest_cppunit/stack_corr.cpp, one step per   *)
(* gap computed, element inserted and pass ended.                          *)
(***************************************************************************)
EXTENDS Integers, FiniteSetsExt

CONSTANTS
  MaxLength,   \* bound: length of the array
  Vals

VARIABLES
  my_array, length,
  h, i,      \* the gap and the index
  loop,      \* "gap", "insert" or "end"
  given,     \* history: the array passed in
  passed     \* history: gaps whose pass is over

vars == <<my_array, length, h, i, loop, given, passed>>

Init ==
  /\ length \in 0 .. MaxLength
  /\ given \in [0 .. (length - 1) -> Vals]
  /\ my_array = given
  /\ h = 1 /\ i = 0 /\ loop = "gap" /\ passed = {}

\* 1, 4, 13, ... while not above a ninth of the length.  The length is a long,
\* h and i are ints: arrays so long that these overflow are left out.
Gap ==
  /\ loop = "gap"
  /\ IF h <= length \div 9
     THEN h' = 3 * h + 1 /\ UNCHANGED <<i, loop>>
     ELSE i' = h /\ loop' = "insert" /\ UNCHANGED h
  /\ UNCHANGED <<my_array, length, given, passed>>

\* Mutant: the element at the start of the array is not compared.
PlacesFromOne == {k \in 0 .. (i \div h) :
  \A q \in 1 .. k : i - q * h > 0 /\ my_array[i] < my_array[i - q * h]}

\* How many places of h the element i may move down.
Places == {k \in 0 .. (i \div h) : \A q \in 1 .. k : my_array[i] < my_array[i - q * h]}

Insert ==
  /\ loop = "insert" /\ i < length
  /\ LET k == Max(Places) IN
       my_array' = [j \in DOMAIN my_array |->
                      IF j = i - k * h THEN my_array[i]
                      ELSE IF j \in {i - q * h : q \in 0 .. (k - 1)} THEN my_array[j - h]
                      ELSE my_array[j]]
  /\ i' = i + 1
  /\ UNCHANGED <<length, h, loop, given, passed>>

PassEnd ==
  /\ loop = "insert" /\ i >= length
  /\ passed' = passed \cup {h}
  /\ h' = h \div 3 /\ i' = h \div 3
  /\ loop' = IF h \div 3 = 0 THEN "end" ELSE loop
  /\ UNCHANGED <<my_array, length, given>>

Next == Gap \/ Insert \/ PassEnd

Spec == Init /\ [][Next]_vars

(***************************************************************************)
(* Properties.                                                             *)
(***************************************************************************)
\* The array always holds the values it was given.
KeepsValues ==
  \A v \in Vals : Cardinality({j \in DOMAIN my_array : my_array[j] = v})
                    = Cardinality({j \in DOMAIN given : given[j] = v})

\* A pass leaves the array ordered at its gap, and so do the later passes with
\* smaller gaps when they are over; the last gap is 1 (stack_corr.cpp:13-23).
StaysOrdered ==
  /\ loop = "end" \/ i = h =>
       \A g \in passed : \A j \in g .. (length - 1) : my_array[j - g] <= my_array[j]
  /\ loop = "end" => 1 \in passed

=============================================================================
