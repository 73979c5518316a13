------------------------- MODULE LeastRecentlyUsed -------------------------
(***************************************************************************)
(* A cache of at most cap entries that drops the least recently inserted   *)
(* key.  Looking a key up does not count as a use.                         *)
(***************************************************************************)
EXTENDS Naturals, Sequences

CONSTANTS
  Keys, Items,
  Overwrites   \* inserting a known key replaces its item

VARIABLES
  cap,       \* how many entries fit
  entries,   \* <<key, item>>, the latest insert first
  out        \* the last call and what find() returned

vars == <<cap, entries, out>>

Init == cap \in Nat /\ entries = << >> /\ out = << >>

Known(key) == \E i \in DOMAIN entries : entries[i][1] = key

Place(key) == CHOOSE i \in DOMAIN entries : entries[i][1] = key

\* The entry at place p makes way for e, which goes to the front.
ToFront(p, e) ==
  [i \in 1 .. (IF p > Len(entries) THEN p ELSE Len(entries)) |->
     IF i = 1 THEN e ELSE IF i <= p THEN entries[i - 1] ELSE entries[i]]

\* A known key leaves its place, and a new one takes a free place or, when there
\* is none, that of the last entry.
Insert(key, item) ==
  /\ entries' = IF Known(key)
                THEN ToFront(Place(key),
                             <<key, IF Overwrites THEN item ELSE entries[Place(key)][2]>>)
                ELSE ToFront(IF Len(entries) < cap THEN Len(entries) + 1 ELSE Len(entries),
                             <<key, item>>)
  /\ out' = <<"insert", key, item>>
  /\ UNCHANGED cap

Find(key) ==
  /\ out' = <<"find", key>> \o (IF Known(key) THEN <<entries[Place(key)][2]>> ELSE << >>)
  /\ UNCHANGED <<cap, entries>>

Clear == entries' = << >> /\ out' = <<"clear">> /\ UNCHANGED cap

Next == (\E k \in Keys : Find(k) \/ \E i \in Items : Insert(k, i)) \/ Clear

Spec == Init /\ [][Next]_vars

=============================================================================
