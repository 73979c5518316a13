----------------------------- MODULE Ownership -----------------------------
(***************************************************************************)
(* Who frees what in the examples that manage memory by hand: class A      *)
(* (008, deep copy and copy-and-swap), class Alpha (014, copy and move),   *)
(* class T (016, a handle that is only moved), bad() of 021, and good() of *)
(* 021, whose RAII_str is an object.  Memory may run out: new then throws  *)
(* and the expression has no effect.                                       *)
(***************************************************************************)
EXTENDS Integers, FiniteSets

CONSTANTS
  Objects,   \* variables of the program that hold an A, an Alpha, a T or a RAII_str
  Blocks,    \* memory blocks
  Null       \* the null pointer

VARIABLES
  kind,       \* per object: "A", "Alpha", "T", "RAII_str", or "none" when not alive
  ptr,        \* per object: its s, d, handle or str
  allocated,  \* blocks in use
  lost,       \* ghost: blocks bad() leaked
  misfreed    \* history: a block was freed twice

vars == <<kind, ptr, allocated, lost, misfreed>>

Init ==
  /\ kind = [o \in Objects |-> "none"]
  /\ ptr = [o \in Objects |-> Null]
  /\ allocated = {} /\ lost = {} /\ misfreed = FALSE

Free == Blocks \ allocated

Delete(b) == b = Null \/ b \in allocated

\* An object with a block of its own.
Construct(o, class) ==
  /\ kind[o] = "none"
  /\ \E b \in Free :
       /\ kind' = [kind EXCEPT ![o] = class] /\ ptr' = [ptr EXCEPT ![o] = b]
       /\ allocated' = allocated \cup {b}
  /\ UNCHANGED <<lost, misfreed>>

\* A(const char *) and A(const A &).
ConstructA(o) == Construct(o, "A")

\* good() makes one and returns, early or not, through its destructor.
ConstructRAII(o) == Construct(o, "RAII_str")

\* Mutant: the pointer is copied.
AssignAShares(o, from) ==
  /\ kind[o] = "A" /\ kind[from] = "A"
  /\ ptr' = [ptr EXCEPT ![o] = ptr[from]]
  /\ allocated' = allocated \ {ptr[o]}
  /\ misfreed' = (misfreed \/ ~ Delete(ptr[o]))
  /\ UNCHANGED <<kind, lost>>

\* operator=: a copy is made first, swapped in, and its destructor frees the
\* old block; also when an object is assigned to itself.
AssignA(o, from) ==
  /\ kind[o] = "A" /\ kind[from] = "A"
  /\ \E b \in Free :
       /\ ptr' = [ptr EXCEPT ![o] = b]
       /\ allocated' = (allocated \cup {b}) \ {ptr[o]}
       /\ misfreed' = (misfreed \/ ~ Delete(ptr[o]))
  /\ UNCHANGED <<kind, lost>>

ConstructNull(o, class) ==
  /\ kind[o] = "none"
  /\ kind' = [kind EXCEPT ![o] = class] /\ ptr' = [ptr EXCEPT ![o] = Null]
  /\ UNCHANGED <<allocated, lost, misfreed>>

DefaultAlpha(o) == ConstructNull(o, "Alpha")

\* new double[sz], of no elements too.
CopyAlpha(o, from) ==
  /\ kind[from] = "Alpha"
  /\ Construct(o, "Alpha")

MoveAlpha(o, from) ==
  /\ kind[o] = "none" /\ kind[from] = "Alpha"
  /\ kind' = [kind EXCEPT ![o] = "Alpha"]
  /\ ptr' = [ptr EXCEPT ![o] = ptr[from], ![from] = Null]
  /\ UNCHANGED <<allocated, lost, misfreed>>

\* acquire() is a stub that returns a null pointer; with a resource behind it,
\* acquire() and release() are as good as new and delete.
AcquireT(o) == ConstructNull(o, "T") \/ Construct(o, "T")

MoveT(o, from) ==
  /\ kind[o] = "none" /\ kind[from] = "T"
  /\ kind' = [kind EXCEPT ![o] = "T"]
  /\ ptr' = [ptr EXCEPT ![o] = ptr[from], ![from] = Null]
  /\ UNCHANGED <<allocated, lost, misfreed>>

\* operator=(T &&): a copy takes the handle and swaps, then releases what it got:
\* nothing when an object is moved to itself.
MoveAssignT(o, from) ==
  /\ kind[o] = "T" /\ kind[from] = "T"
  /\ LET old == IF o = from THEN Null ELSE ptr[o] IN
       /\ ptr' = [ptr EXCEPT ![from] = Null, ![o] = ptr[from]]
       /\ allocated' = allocated \ {old}
       /\ misfreed' = (misfreed \/ ~ Delete(old))
  /\ UNCHANGED <<kind, lost>>

Destroy(o) ==
  /\ kind[o] # "none"
  /\ kind' = [kind EXCEPT ![o] = "none"] /\ ptr' = [ptr EXCEPT ![o] = Null]
  /\ allocated' = allocated \ {ptr[o]}
  /\ misfreed' = (misfreed \/ ~ Delete(ptr[o]))
  /\ UNCHANGED lost

\* bad() frees its block unless cond() makes it return early.
Bad ==
  /\ \E b \in Free : \/ UNCHANGED <<allocated, lost>>
                     \/ allocated' = allocated \cup {b} /\ lost' = lost \cup {b}
  /\ UNCHANGED <<kind, ptr, misfreed>>

Next ==
  \/ \E o \in Objects : ConstructA(o) \/ ConstructRAII(o) \/ AcquireT(o) \/ DefaultAlpha(o) \/ Destroy(o)
  \/ \E o, from \in Objects : AssignA(o, from) \/ CopyAlpha(o, from) \/ MoveAlpha(o, from)
                                \/ MoveT(o, from) \/ MoveAssignT(o, from)
  \/ Bad

Spec == Init /\ [][Next]_vars

(***************************************************************************)
(* Properties.                                                             *)
(***************************************************************************)
Owners(b) == {o \in Objects : ptr[o] = b}

\* Whatever is copied, moved, assigned (to itself too) and destroyed, every
\* block in use has exactly one owner that will free it, a block is never freed
\* twice, and only bad() leaks (021_RAII.cpp:14-18).
OneOwner ==
  /\ ~ misfreed
  /\ \A b \in Blocks :
       Cardinality(Owners(b)) = IF b \in allocated \ lost THEN 1 ELSE 0

=============================================================================
