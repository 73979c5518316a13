----------------------------- MODULE LinkedList -----------------------------
(***************************************************************************)
(* The doubly linked lists of cmake_make_gtest_cppunit (LinkedList.h,      *)
(* LinkedList.cpp).  InsertAfter() and DeteleAt() work on nodes and leave  *)
(* head_ and tail_ alone; Union() makes two lists share nodes.  A run      *)
(* stops where a null or freed node is used.  The values stored are not    *)
(* told apart.                                                             *)
(***************************************************************************)
EXTENDS Integers, SequencesExt

CONSTANTS
  Lists,      \* the list objects
  MaxNodes    \* bound: nodes allocated, numbered in order

Nullptr  == 0
Nodes == 1 .. MaxNodes

VARIABLES
  next, prev,         \* fields of each Node
  head_, tail_,       \* per list
  used,               \* nodes allocated so far
  freed,              \* nodes deleted
  alive,              \* lists not destroyed
  status,             \* "ok", or what went wrong
  items,              \* ghost, per list: the nodes its callers asked for, in order
  loose,              \* ghost, per list: an end was removed or inserted after
  dropped,            \* ghost: nodes taken out by DeteleAt()
  joined              \* ghost: Union() was called

fields == <<next, prev>>
ghosts == <<items, loose, dropped, joined>>
vars   == <<fields, head_, tail_, used, freed, alive, status, ghosts>>

Init ==
  /\ next = [n \in Nodes |-> Nullptr] /\ prev = [n \in Nodes |-> Nullptr]
  /\ head_ = [l \in Lists |-> Nullptr] /\ tail_ = [l \in Lists |-> Nullptr]
  /\ used = 0 /\ freed = {} /\ alive = Lists /\ status = "ok"
  /\ items = [l \in Lists |-> << >>] /\ loose = [l \in Lists |-> FALSE]
  /\ dropped = {} /\ joined = FALSE

\* The k-th node met when following next from head_.
Walk(l) ==
  LET at[k \in 1 .. (MaxNodes + 1)] ==
        IF k = 1 THEN head_[l] ELSE IF at[k - 1] = Nullptr THEN Nullptr ELSE next[at[k - 1]]
  IN at

Cyclic(l) == Walk(l)[MaxNodes + 1] # Nullptr

Reached(l) == {Walk(l)[k] : k \in 1 .. (MaxNodes + 1)} \ {Nullptr}

\* Using a freed node ends the run, otherwise Effect happens.
Use(nodes, Effect) ==
  IF nodes \cap freed # {}
  THEN status' = "freed" /\ UNCHANGED <<fields, head_, tail_, used, freed, alive, ghosts>>
  ELSE Effect

PushBack(l) ==
  LET temp == used + 1 IN
  /\ used < MaxNodes
  /\ Use({tail_[l]}, LET empty == head_[l] = Nullptr IN
       /\ used' = temp
       /\ next' = IF empty THEN next ELSE [next EXCEPT ![tail_[l]] = temp]
       /\ prev' = IF empty THEN prev ELSE [prev EXCEPT ![temp] = tail_[l]]
       /\ head_' = IF empty THEN [head_ EXCEPT ![l] = temp] ELSE head_
       /\ tail_' = [tail_ EXCEPT ![l] = temp]
       /\ items' = [items EXCEPT ![l] = Append(@, temp)]
       /\ UNCHANGED <<freed, alive, status, loose, dropped, joined>>)

\* Search() and Display() follow the chain.
Follow(l) ==
  /\ IF Reached(l) \cap freed # {} THEN status' = "freed"
     ELSE status' = IF Cyclic(l) THEN "endless" ELSE status
  /\ UNCHANGED <<fields, head_, tail_, used, freed, alive, ghosts>>

\* Nodes a caller can name: what Search(), Front() and Back() return now.  A
\* Node* kept from an earlier call is left out.
Named(l) == Reached(l) \cup ({tail_[l]} \ {Nullptr})

\* Mutant: the node behind the new one keeps pointing at the old one.
BackLinksForgotten(node, new) == [prev EXCEPT ![new] = node]

BackLinks(node, new) ==
  [n \in Nodes |-> IF n = new THEN node ELSE IF n = next[node] THEN new ELSE prev[n]]

\* tail_ stays where it is.
InsertAfter(l, node) ==
  LET new == used + 1 IN
  /\ used < MaxNodes
  /\ Use({node, next[node]},
       /\ used' = new
       /\ next' = [next EXCEPT ![new] = next[node], ![node] = new]
       /\ prev' = BackLinks(node, new)
       /\ items' = [items EXCEPT ![l] = IF Contains(@, node)
                                        THEN InsertAt(@, SelectInSeq(@, LAMBDA n : n = node) + 1, new)
                                        ELSE @]
       /\ loose' = [loose EXCEPT ![l] = @ \/ node = tail_[l]]
       /\ UNCHANGED <<head_, tail_, freed, alive, status, dropped, joined>>)

\* Mutant: a node is deleted while the list may still name it.
AfterDeteleAtFrees(node) == freed \cup {node}

\* The node is unlinked, not freed.
AfterDeteleAt(node) == freed

DeteleAt(l, node) ==
  /\ Use({node, next[node], prev[node]},
       /\ prev' = IF next[node] = Nullptr THEN prev ELSE [prev EXCEPT ![next[node]] = prev[node]]
       /\ next' = IF prev[node] = Nullptr THEN next ELSE [next EXCEPT ![prev[node]] = next[node]]
       /\ items' = [items EXCEPT ![l] = RemoveFirst(@, node)]
       /\ loose' = [loose EXCEPT ![l] = @ \/ node \in {head_[l], tail_[l]}]
       /\ dropped' = dropped \cup {node}
       /\ freed' = AfterDeteleAt(node)
       /\ UNCHANGED <<head_, tail_, used, alive, status, joined>>)

\* Neither end is checked for null.
Union(l1, l2) ==
  LET tail1 == tail_[l1]  head2 == head_[l2] IN
  /\ joined' = TRUE
  /\ IF Nullptr \in {tail1, head2} THEN status' = "null" /\ UNCHANGED <<next, prev>>
     ELSE IF {tail1, head2} \cap freed # {} THEN status' = "freed" /\ UNCHANGED <<next, prev>>
     ELSE /\ next' = [next EXCEPT ![tail1] = head2]
          /\ prev' = [prev EXCEPT ![head2] = tail1]
          /\ UNCHANGED status
  /\ UNCHANGED <<head_, tail_, used, freed, alive, items, loose, dropped>>

\* ~LinkedList() deletes the chain; a node met twice is used after its delete.
Destroy(l) ==
  /\ IF Cyclic(l) \/ Reached(l) \cap freed # {}
     THEN status' = "freed" /\ UNCHANGED <<freed, alive>>
     ELSE freed' = freed \cup Reached(l) /\ alive' = alive \ {l} /\ UNCHANGED status
  /\ UNCHANGED <<fields, head_, tail_, used, ghosts>>

Next ==
  /\ status = "ok"
  /\ \E l \in alive :
       \/ PushBack(l)
       \/ \E n \in Named(l) : InsertAfter(l, n) \/ DeteleAt(l, n)
       \/ \E l2 \in alive \ {l} : Union(l, l2)
       \/ Follow(l) \/ Destroy(l)

Spec == Init /\ [][Next]_vars

(***************************************************************************)
(* Properties.                                                             *)
(***************************************************************************)
\* While no end was removed or inserted after and no list was joined to
\* another, each list is linked both ways and holds exactly the nodes its
\* callers asked for, in order (LinkedList.cpp:50-79); a destroyed one has freed
\* them, but for those DeteleAt() took out, which nobody frees (LinkedList.cpp:6).
WellLinked ==
  \A l \in Lists :
    ~ joined /\ ~ loose[l] /\ status = "ok" =>
      IF l \notin alive
      THEN ToSet(items[l]) \subseteq freed \ dropped
      ELSE /\ \A k \in 1 .. (MaxNodes + 1) :
                Walk(l)[k] = IF k <= Len(items[l]) THEN items[l][k] ELSE Nullptr
           /\ tail_[l] = IF items[l] = << >> THEN Nullptr ELSE Last(items[l])
           /\ \A k \in 2 .. Len(items[l]) : prev[items[l][k]] = items[l][k - 1]

\* Only Union() makes a later call use a null or freed node or never return:
\* stale ends alone do not (LinkedList.cpp:81-90).
OnlyUnionBreaks == status # "ok" => joined

=============================================================================
