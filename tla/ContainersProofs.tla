-------------------------- MODULE ContainersProofs --------------------------
(***************************************************************************)
(* Theorems about the containers and examples that stand beside the        *)
(* servers: the double-checked locking for every number of threads, the    *)
(* owners of memory for every number of objects and blocks, the queue and  *)
(* the stack for every size, the caches for every size and number of       *)
(* calls, and the linked lists for every number of lists and nodes.        *)
(***************************************************************************)
EXTENDS MCContainers, SequenceLemmas, FiniteSetTheorems

(***************************************************************************)
(* Double-checked locking.                                                 *)
(***************************************************************************)
\* Only the holder of the mutex is between the lock and the unlock.
Holds(t) == at[t] \in {"reload", "new", "store", "unlock"}
Exclusive == \A t \in Callers : Holds(t) <=> initialization_mutex_ = t

\* An object that is made and not published is in the hands of a thread that is
\* about to publish it, so that the second load decides rightly.
Published ==
  /\ made \in {0, 1} /\ atomic_instance_ \in {0, made}
  /\ made = 1 /\ atomic_instance_ = 0 => \E t \in Callers : at[t] = "store"
  /\ \A t \in Callers :
       /\ at[t] = "new" => made = 0
       /\ at[t] = "store" => made = 1 /\ atomic_instance_ = 0 /\ instance[t] = 1
       /\ at[t] = "unlock" => atomic_instance_ = 1 /\ instance[t] = 1
       /\ at[t] = "returned" => instance[t] = 1

SingletonInv ==
  /\ at \in [Callers -> {"load", "lock", "reload", "new", "store", "unlock", "returned"}]
  /\ instance \in [Callers -> Nat]
  /\ Exclusive /\ Published

\* A step of a thread in GetInstance() keeps it.
LEMMA SingletonStep ==
  ASSUME SingletonInv, NEW t \in Callers, G!Step(t)
  PROVE  SingletonInv'
<1> USE DEF SingletonInv, Exclusive, Published, Holds
<1>1. CASE G!Load(t)
  <2>1. /\ at[t] = "load" /\ instance' = [instance EXCEPT ![t] = atomic_instance_]
        /\ at' = [at EXCEPT ![t] = IF atomic_instance_ = 0 THEN "lock" ELSE "returned"]
        /\ atomic_instance_' = atomic_instance_ /\ initialization_mutex_' = initialization_mutex_
        /\ made' = made
    BY <1>1 DEF G!Load, G!Nullptr
  <2> QED
    BY <2>1
<1>2. CASE G!Lock(t)
  <2>1. /\ at[t] = "lock" /\ initialization_mutex_ = NoThread /\ initialization_mutex_' = t
        /\ at' = [at EXCEPT ![t] = "reload"]
        /\ atomic_instance_' = atomic_instance_ /\ made' = made /\ instance' = instance
    BY <1>2 DEF G!Lock
  <2> QED
    BY <2>1, SingletonAssumption
<1>3. CASE G!Reload(t)
  <2>1. /\ at[t] = "reload" /\ instance' = [instance EXCEPT ![t] = atomic_instance_]
        /\ at' = [at EXCEPT ![t] = IF atomic_instance_ = 0 THEN "new" ELSE "unlock"]
        /\ atomic_instance_' = atomic_instance_ /\ initialization_mutex_' = initialization_mutex_
        /\ made' = made
    BY <1>3 DEF G!Reload, G!Nullptr
  <2>2. initialization_mutex_ = t /\ \A u \in Callers : at[u] # "store"
    BY <2>1
  <2>3. atomic_instance_ = 0 => made = 0
    BY <2>2
  <2> QED
    BY <2>1, <2>2, <2>3
<1>4. CASE G!New(t)
  <2>1. /\ at[t] = "new" /\ made' = made + 1 /\ instance' = [instance EXCEPT ![t] = made + 1]
        /\ at' = [at EXCEPT ![t] = "store"]
        /\ atomic_instance_' = atomic_instance_ /\ initialization_mutex_' = initialization_mutex_
    BY <1>4 DEF G!New
  <2>2. made = 0 /\ atomic_instance_ = 0 /\ \A u \in Callers : u # t => ~ Holds(u)
    BY <2>1
  <2> QED
    BY <2>1, <2>2
<1>5. CASE G!Store(t)
  <2>1. /\ at[t] = "store" /\ atomic_instance_' = instance[t]
        /\ at' = [at EXCEPT ![t] = "unlock"]
        /\ initialization_mutex_' = initialization_mutex_ /\ made' = made /\ instance' = instance
    BY <1>5 DEF G!Store
  <2>2. \A u \in Callers : u # t => ~ Holds(u)
    BY <2>1
  <2> QED
    BY <2>1, <2>2
<1>6. CASE G!Unlock(t)
  <2>1. /\ at[t] = "unlock" /\ initialization_mutex_' = NoThread
        /\ at' = [at EXCEPT ![t] = "returned"]
        /\ atomic_instance_' = atomic_instance_ /\ made' = made /\ instance' = instance
    BY <1>6 DEF G!Unlock
  <2>2. \A u \in Callers : u # t => ~ Holds(u)
    BY <2>1
  <2> QED
    BY <2>1, <2>2, SingletonAssumption
<1> QED
  BY <1>1, <1>2, <1>3, <1>4, <1>5, <1>6 DEF G!Step

\* However many threads call GetInstance(), one object is made and all get it.
THEOREM SingletonHolds == AllSpec => []SingletonIsOne
<1>1. AllInit => SingletonInv
  BY SingletonAssumption
    DEF AllInit, G!Init, G!Nullptr, SingletonInv, Exclusive, Published, Holds
<1>2. SingletonInv /\ [AllNext]_allVars => SingletonInv'
  <2> SUFFICES ASSUME SingletonInv, [AllNext]_allVars PROVE SingletonInv'
    OBVIOUS
  <2>1. G!Next \/ UNCHANGED singletonVars
    BY DEF AllNext, allVars
  <2>2. CASE UNCHANGED singletonVars
    BY <2>2 DEF singletonVars, SingletonInv, Exclusive, Published, Holds
  <2>3. CASE G!Next
    BY <2>3, SingletonStep DEF G!Next
  <2> QED
    BY <2>1, <2>2, <2>3
<1>3. SingletonInv => SingletonIsOne
  BY DEF SingletonInv, Published, SingletonIsOne, G!OneInstance
<1> QED
  BY <1>1, <1>2, <1>3, PTL DEF AllSpec

(***************************************************************************)
(* The owning classes.                                                     *)
(***************************************************************************)
\* Each block in use and not leaked has an owner, no two objects own one block,
\* and no object points at a block that is free or leaked.
OwnerInv ==
  /\ kind \in [Objects -> {"A", "Alpha", "T", "RAII_str", "none"}]
  /\ ptr \in [Objects -> Blocks \cup {Null}]
  /\ lost \subseteq allocated /\ allocated \subseteq Blocks /\ misfreed = FALSE
  /\ \A o \in Objects : kind[o] = "none" => ptr[o] = Null
  /\ \A o \in Objects : ptr[o] # Null => ptr[o] \in allocated /\ ptr[o] \notin lost
  /\ \A o, q \in Objects : ptr[o] = ptr[q] /\ ptr[o] # Null => o = q
  /\ \A b \in allocated \ lost : \E o \in Objects : ptr[o] = b

\* What an object points at may be freed.
LEMMA DeleteIsRight ==
  ASSUME OwnerInv, NEW o \in Objects
  PROVE  O!Delete(ptr[o]) /\ O!Delete(Null)
BY DEF OwnerInv, O!Delete

\* An object gets a fresh block, and what it pointed at is freed.
LEMMA FreshOwner ==
  ASSUME OwnerInv, NEW o \in Objects, NEW b \in O!Free, NEW class \in {"A", "Alpha", "T", "RAII_str"},
         kind' = [kind EXCEPT ![o] = class], ptr' = [ptr EXCEPT ![o] = b],
         allocated' = (allocated \cup {b}) \ {ptr[o]}, lost' = lost, misfreed' = FALSE
  PROVE  OwnerInv'
<1>1. b \in Blocks /\ b \notin allocated /\ b # Null /\ b # ptr[o]
  BY OwnershipAssumption DEF O!Free, OwnerInv
<1>2. /\ ptr'[o] = b /\ kind'[o] = class
      /\ \A q \in Objects : q # o => ptr'[q] = ptr[q] /\ kind'[q] = kind[q]
  BY DEF OwnerInv
<1>3. /\ kind' \in [Objects -> {"A", "Alpha", "T", "RAII_str", "none"}]
      /\ ptr' \in [Objects -> Blocks \cup {Null}]
      /\ lost' \subseteq allocated' /\ allocated' \subseteq Blocks
  <2>1. kind' \in [Objects -> {"A", "Alpha", "T", "RAII_str", "none"}]
    BY DEF OwnerInv
  <2>2. ptr' \in [Objects -> Blocks \cup {Null}]
    BY <1>1 DEF OwnerInv
  <2>3. ptr[o] \notin lost
    BY OwnershipAssumption DEF OwnerInv
  <2>4. lost' \subseteq allocated' /\ allocated' \subseteq Blocks
    BY <1>1, <2>3 DEF OwnerInv
  <2> QED
    BY <2>1, <2>2, <2>4
<1>4. \A q \in Objects : kind'[q] = "none" => ptr'[q] = Null
  BY <1>2 DEF OwnerInv
<1>5. \A q \in Objects : ptr'[q] # Null => ptr'[q] \in allocated' /\ ptr'[q] \notin lost'
  BY <1>1, <1>2 DEF OwnerInv
<1>6. \A q, r \in Objects : ptr'[q] = ptr'[r] /\ ptr'[q] # Null => q = r
  BY <1>1, <1>2 DEF OwnerInv
<1>7. \A d \in allocated' \ lost' : \E q \in Objects : ptr'[q] = d
  BY <1>1, <1>2 DEF OwnerInv
<1> QED
  BY <1>3, <1>4, <1>5, <1>6, <1>7 DEF OwnerInv

\* An object gives its block, if any, to another, whose own is freed.
LEMMA MovedOwner ==
  ASSUME OwnerInv, NEW o \in Objects, NEW from \in Objects, o # from,
         NEW class \in {"A", "Alpha", "T", "RAII_str"},
         kind' = [kind EXCEPT ![o] = class],
         ptr'[o] = ptr[from], ptr'[from] = Null, ptr' \in [Objects -> Blocks \cup {Null}],
         \A q \in Objects : q # o /\ q # from => ptr'[q] = ptr[q],
         allocated' = allocated \ {ptr[o]}, lost' = lost, misfreed' = FALSE
  PROVE  OwnerInv'
<1>1. /\ kind'[o] = class
      /\ \A q \in Objects : q # o => kind'[q] = kind[q]
  BY DEF OwnerInv
<1>2. /\ kind' \in [Objects -> {"A", "Alpha", "T", "RAII_str", "none"}]
      /\ lost' \subseteq allocated' /\ allocated' \subseteq Blocks
  BY OwnershipAssumption DEF OwnerInv
<1>3. \A q \in Objects : kind'[q] = "none" => ptr'[q] = Null
  BY <1>1 DEF OwnerInv
<1>4. \A q \in Objects : ptr'[q] # Null => ptr'[q] \in allocated' /\ ptr'[q] \notin lost'
  BY DEF OwnerInv
<1>5. \A q, r \in Objects : ptr'[q] = ptr'[r] /\ ptr'[q] # Null => q = r
  BY DEF OwnerInv
<1>6. \A d \in allocated' \ lost' : \E q \in Objects : ptr'[q] = d
  BY OwnershipAssumption DEF OwnerInv
<1> QED
  BY <1>2, <1>3, <1>4, <1>5, <1>6 DEF OwnerInv

\* An object is made without a block.
LEMMA NullOwner ==
  ASSUME OwnerInv, NEW o \in Objects, NEW class \in {"A", "Alpha", "T", "RAII_str"},
         O!ConstructNull(o, class)
  PROVE  OwnerInv'
<1>1. /\ kind[o] = "none" /\ kind' = [kind EXCEPT ![o] = class]
      /\ ptr' = [ptr EXCEPT ![o] = Null]
      /\ allocated' = allocated /\ lost' = lost /\ misfreed' = misfreed
  BY DEF O!ConstructNull
<1>2. ptr' = ptr
  BY <1>1 DEF OwnerInv
<1> QED
  BY <1>1, <1>2 DEF OwnerInv

\* An object is made with a block of its own.
LEMMA ConstructedOwner ==
  ASSUME OwnerInv, NEW o \in Objects, NEW class \in {"A", "Alpha", "T", "RAII_str"},
         O!Construct(o, class)
  PROVE  OwnerInv'
<1>1. PICK b \in O!Free :
        /\ kind' = [kind EXCEPT ![o] = class] /\ ptr' = [ptr EXCEPT ![o] = b]
        /\ allocated' = allocated \cup {b}
  BY DEF O!Construct
<1>2. kind[o] = "none" /\ lost' = lost /\ misfreed' = misfreed
  BY DEF O!Construct
<1>3. ptr[o] = Null /\ Null \notin allocated \cup {b}
  BY <1>2, OwnershipAssumption DEF OwnerInv, O!Free
<1>4. allocated' = (allocated \cup {b}) \ {ptr[o]}
  BY <1>1, <1>3
<1>5. misfreed' = FALSE
  BY <1>2 DEF OwnerInv
<1> QED
  BY <1>1, <1>2, <1>4, <1>5, FreshOwner

\* A step of the owning classes keeps it.
LEMMA OwnerStep ==
  ASSUME OwnerInv, O!Next
  PROVE  OwnerInv'
<1>1. ASSUME NEW o \in Objects, O!ConstructA(o) \/ O!ConstructRAII(o) PROVE OwnerInv'
  BY <1>1, ConstructedOwner DEF O!ConstructA, O!ConstructRAII
<1>2. ASSUME NEW o \in Objects, O!AcquireT(o) \/ O!DefaultAlpha(o) PROVE OwnerInv'
  BY <1>2, ConstructedOwner, NullOwner DEF O!AcquireT, O!DefaultAlpha
<1>3. ASSUME NEW o \in Objects, O!Destroy(o) PROVE OwnerInv'
  <2>1. /\ kind' = [kind EXCEPT ![o] = "none"] /\ ptr' = [ptr EXCEPT ![o] = Null]
        /\ allocated' = allocated \ {ptr[o]} /\ lost' = lost
        /\ misfreed' = (misfreed \/ ~ O!Delete(ptr[o]))
    BY <1>3 DEF O!Destroy
  <2>2. misfreed' = FALSE
    BY <2>1, DeleteIsRight, Zenon DEF OwnerInv
  <2>3. /\ ptr'[o] = Null /\ kind'[o] = "none"
        /\ \A q \in Objects : q # o => ptr'[q] = ptr[q] /\ kind'[q] = kind[q]
    BY <2>1 DEF OwnerInv
  <2>4. /\ kind' \in [Objects -> {"A", "Alpha", "T", "RAII_str", "none"}]
        /\ ptr' \in [Objects -> Blocks \cup {Null}]
        /\ lost' \subseteq allocated' /\ allocated' \subseteq Blocks
    BY <2>1, OwnershipAssumption DEF OwnerInv
  <2>5. /\ \A q \in Objects : kind'[q] = "none" => ptr'[q] = Null
        /\ \A q, r \in Objects : ptr'[q] = ptr'[r] /\ ptr'[q] # Null => q = r
    BY <2>3 DEF OwnerInv
  <2>6. \A q \in Objects : ptr'[q] # Null => ptr'[q] \in allocated' /\ ptr'[q] \notin lost'
    BY <2>1, <2>3 DEF OwnerInv
  <2>7. \A d \in allocated' \ lost' : \E q \in Objects : ptr'[q] = d
    BY <2>1, <2>3 DEF OwnerInv
  <2> QED
    BY <2>2, <2>4, <2>5, <2>6, <2>7 DEF OwnerInv
<1>4. ASSUME NEW o \in Objects, NEW from \in Objects, O!AssignA(o, from) PROVE OwnerInv'
  <2>1. PICK b \in O!Free :
          /\ ptr' = [ptr EXCEPT ![o] = b]
          /\ allocated' = (allocated \cup {b}) \ {ptr[o]}
          /\ misfreed' = (misfreed \/ ~ O!Delete(ptr[o]))
    BY <1>4 DEF O!AssignA
  <2>2. kind[o] = "A" /\ kind' = kind /\ lost' = lost
    BY <1>4 DEF O!AssignA
  <2>3. misfreed' = FALSE
    BY <2>1, DeleteIsRight, Zenon DEF OwnerInv
  <2>4. kind' = [kind EXCEPT ![o] = "A"]
    BY <2>2 DEF OwnerInv
  <2> QED
    BY <2>1, <2>2, <2>3, <2>4, FreshOwner
<1>5. ASSUME NEW o \in Objects, NEW from \in Objects, O!CopyAlpha(o, from) PROVE OwnerInv'
  BY <1>5, ConstructedOwner DEF O!CopyAlpha
<1>6. ASSUME NEW o \in Objects, NEW from \in Objects, O!MoveAlpha(o, from) \/ O!MoveT(o, from)
      PROVE  OwnerInv'
  <2>1. PICK class \in {"Alpha", "T"} :
          /\ kind[o] = "none" /\ kind[from] = class /\ kind' = [kind EXCEPT ![o] = class]
          /\ ptr' = [ptr EXCEPT ![o] = ptr[from], ![from] = Null]
          /\ allocated' = allocated /\ lost' = lost /\ misfreed' = misfreed
    BY <1>6 DEF O!MoveAlpha, O!MoveT
  <2>2. o # from /\ ptr[o] = Null /\ Null \notin allocated /\ misfreed = FALSE
    BY <2>1, OwnershipAssumption DEF OwnerInv
  <2>3. /\ ptr'[o] = ptr[from] /\ ptr'[from] = Null /\ ptr' \in [Objects -> Blocks \cup {Null}]
        /\ \A q \in Objects : q # o /\ q # from => ptr'[q] = ptr[q]
    BY <2>1, <2>2 DEF OwnerInv
  <2>4. /\ allocated' = allocated \ {ptr[o]} /\ lost' = lost /\ misfreed' = FALSE
        /\ class \in {"A", "Alpha", "T", "RAII_str"} /\ kind' = [kind EXCEPT ![o] = class]
        /\ o # from
    BY <2>1, <2>2
  <2> QED
    BY <2>3, <2>4, MovedOwner
<1>7. ASSUME NEW o \in Objects, NEW from \in Objects, O!MoveAssignT(o, from) PROVE OwnerInv'
  <2>1. /\ kind[o] = "T" /\ kind' = kind /\ lost' = lost
        /\ ptr' = [ptr EXCEPT ![from] = Null, ![o] = ptr[from]]
        /\ o = from => /\ allocated' = allocated \ {Null}
                       /\ misfreed' = (misfreed \/ ~ O!Delete(Null))
        /\ o # from => /\ allocated' = allocated \ {ptr[o]}
                       /\ misfreed' = (misfreed \/ ~ O!Delete(ptr[o]))
    BY <1>7 DEF O!MoveAssignT
  <2>2. misfreed' = FALSE
    BY <2>1, DeleteIsRight, Zenon DEF OwnerInv
  <2>3. CASE o = from
    <3>1. allocated' = allocated /\ ptr' = ptr
      BY <2>1, <2>3, OwnershipAssumption DEF OwnerInv
    <3> QED
      BY <2>1, <2>2, <3>1 DEF OwnerInv
  <2>4. CASE o # from
    <3>1. /\ ptr'[o] = ptr[from] /\ ptr'[from] = Null /\ ptr' \in [Objects -> Blocks \cup {Null}]
          /\ \A q \in Objects : q # o /\ q # from => ptr'[q] = ptr[q]
      BY <2>1, <2>4 DEF OwnerInv
    <3>2. kind' = [kind EXCEPT ![o] = "T"]
      BY <2>1 DEF OwnerInv
    <3> QED
      BY <2>1, <2>2, <2>4, <3>1, <3>2, MovedOwner
  <2> QED
    BY <2>3, <2>4
<1>8. ASSUME O!Bad PROVE OwnerInv'
  <2>1. kind' = kind /\ ptr' = ptr /\ misfreed' = misfreed
    BY <1>8 DEF O!Bad
  <2>2. PICK b \in O!Free : \/ allocated' = allocated /\ lost' = lost
                            \/ allocated' = allocated \cup {b} /\ lost' = lost \cup {b}
    BY <1>8 DEF O!Bad
  <2>3. b \in Blocks /\ b \notin allocated
    BY DEF O!Free
  <2> QED
    BY <2>1, <2>2, <2>3 DEF OwnerInv
<1> QED
  BY <1>1, <1>2, <1>3, <1>4, <1>5, <1>6, <1>7, <1>8 DEF O!Next

\* With any number of objects of the owning classes and of blocks, each block in
\* use has one owner, none is freed twice and only bad() leaks.
THEOREM OwnersHold == AllSpec => []BlocksHaveOneOwner
<1>1. AllInit => OwnerInv
  BY DEF AllInit, O!Init, OwnerInv
<1>2. OwnerInv /\ [AllNext]_allVars => OwnerInv'
  <2> SUFFICES ASSUME OwnerInv, [AllNext]_allVars PROVE OwnerInv'
    OBVIOUS
  <2>1. O!Next \/ UNCHANGED ownerVars
    BY DEF AllNext, allVars
  <2>2. CASE UNCHANGED ownerVars
    BY <2>2 DEF ownerVars, OwnerInv
  <2> QED
    BY <2>1, <2>2, OwnerStep
<1>3. OwnerInv => BlocksHaveOneOwner
  <2> SUFFICES ASSUME OwnerInv PROVE BlocksHaveOneOwner
    OBVIOUS
  <2>1. ~ misfreed
    BY Zenon DEF OwnerInv
  <2>2. ASSUME NEW b \in Blocks
        PROVE  Cardinality(O!Owners(b)) = IF b \in allocated \ lost THEN 1 ELSE 0
    <3>1. b # Null
      BY OwnershipAssumption
    <3>2. CASE b \in allocated \ lost
      <4>1. PICK o \in Objects : ptr[o] = b
        BY <3>2 DEF OwnerInv
      <4>2. O!Owners(b) = {o}
        BY <3>1, <4>1 DEF OwnerInv, O!Owners
      <4> QED
        BY <3>2, <4>2, FS_Singleton
    <3>3. CASE b \notin allocated \ lost
      <4>1. O!Owners(b) = {}
        BY <3>1, <3>3 DEF OwnerInv, O!Owners
      <4> QED
        BY <3>3, <4>1, FS_EmptySet
    <3> QED
      BY <3>2, <3>3
  <2> QED
    BY <2>1, <2>2 DEF BlocksHaveOneOwner, O!OneOwner, O!Cardinality, Cardinality
<1> QED
  BY <1>1, <1>2, <1>3, PTL DEF AllSpec

(***************************************************************************)
(* The queue.  That a call returns a value pushed is not inductive: it     *)
(* needs the slots in use to hold such values.                             *)
(***************************************************************************)
\* The slots between head_ and tail_ hold values pushed.
Filled == \A i \in 1 .. Count : buffer_[At(i)] \in Vals

IInv == TypeOK /\ Filled

\* The remainder in Push() is the wrap-around of the index.
LEMMA RemainderWraps ==
  ASSUME NEW n \in Nat \ {0}, NEW k \in 0 .. (n - 1)
  PROVE  (k + 1) % n = IF k + 1 = n THEN 0 ELSE k + 1
  <1>1. CASE k + 1 = n
    BY <1>1
  <1>2. CASE k + 1 # n
    BY <1>2
  <1> QED BY <1>1, <1>2

\* The number of values queued is less than the size and places them inside the
\* buffer; the queue is empty exactly when there are none.
LEMMA Places ==
  ASSUME TypeOK
  PROVE  /\ Count \in 0 .. (queue_size_ - 1)
         /\ \A i \in 1 .. Count : At(i) \in Slots
         /\ IsEmpty <=> Count = 0
  BY SizeAssumption DEF TypeOK, Count, At, Slots, IsEmpty

\* What the queue holds is a sequence of values as long as Count.
ItemsOK ==
  /\ Items \in Seq(Vals) /\ Len(Items) = Count
  /\ \A i \in 1 .. Count : Items[i] = buffer_[At(i)]
  /\ Items = << >> <=> IsEmpty

\* The invariant gives that.
LEMMA ItemsSeq == IInv => ItemsOK
  <1> SUFFICES ASSUME IInv PROVE ItemsOK
    OBVIOUS
  <1>1. Count \in Nat
    BY Places, SizeAssumption DEF IInv
  <1>2. Items \in [1 .. Count -> Vals]
    BY DEF IInv, Filled, Items
  <1>3. Items \in Seq(Vals) /\ Len(Items) = Count
    BY <1>1, <1>2
  <1>4. Items = << >> <=> Count = 0
    BY <1>1, <1>3, EmptySeq
  <1> QED BY <1>3, <1>4, Places DEF IInv, Items, ItemsOK

\* A Push() that finds room appends to the items, and finds room exactly when
\* they are fewer than queue_size_ - 1.
LEMMA PushAppends ==
  ASSUME IInv, NEW v \in Vals, Push(v)
  PROVE  /\ IInv'
         /\ Count < queue_size_ - 1 => Items' = Append(Items, v) /\ out' = None
         /\ Count >= queue_size_ - 1 => Items' = Items /\ out' = Full
  <1> USE SizeAssumption
  <1>1. (tail_ + 1) % queue_size_ = Wrap(tail_ + 1)
    BY RemainderWraps DEF IInv, TypeOK, Slots, Wrap
  <1>2. Wrap(tail_ + 1) = head_ <=> Count >= queue_size_ - 1
    BY DEF IInv, TypeOK, Slots, Wrap, Count
  <1>3. CASE Count >= queue_size_ - 1
    <2>1. out' = Full /\ UNCHANGED <<buffer_, head_, tail_>>
      BY <1>1, <1>2, <1>3 DEF Push
    <2>2. Items' = Items /\ IInv'
      BY <2>1 DEF IInv, TypeOK, Filled, Items, Count, At
    <2> QED BY <1>3, <2>1, <2>2, Places DEF IInv
  <1>4. CASE Count < queue_size_ - 1
    <2>1. /\ buffer_' = [buffer_ EXCEPT ![tail_] = v] /\ tail_' = Wrap(tail_ + 1)
          /\ out' = None /\ head_' = head_
      BY <1>1, <1>2, <1>4, Places DEF Push, IInv
    <2>2. TypeOK'
      BY <2>1 DEF IInv, TypeOK, Slots, Wrap
    <2>3. Count' = Count + 1
      BY <1>2, <1>4, <2>1 DEF IInv, TypeOK, Slots, Wrap, Count
    <2>4. At(Count + 1) = tail_ /\ \A i \in 1 .. Count : At(i) # tail_
      BY DEF IInv, TypeOK, Slots, Count, At
    <2>5. \A i \in 1 .. Count + 1 : At(i)' = At(i)
      BY <2>1 DEF At
    <2>6. \A i \in 1 .. Count + 1 :
            buffer_'[At(i)'] = IF i = Count + 1 THEN v ELSE buffer_[At(i)]
      BY <2>1, <2>4, <2>5, Places DEF IInv, TypeOK, Slots
    <2>7. Filled'
      BY <2>3, <2>6, Places DEF IInv, Filled
    <2>8. IInv'
      BY <2>2, <2>7 DEF IInv
    <2>9. /\ Items' \in Seq(Vals) /\ Len(Items') = Count + 1
          /\ \A i \in 1 .. Count + 1 : Items'[i] = IF i = Count + 1 THEN v ELSE buffer_[At(i)]
      <3>1. /\ Items' \in Seq(Vals) /\ Len(Items') = Count'
            /\ \A i \in 1 .. Count' : Items'[i] = buffer_'[At(i)']
        <4>1. ItemsOK'
          BY <2>8, ItemsSeq, PTL
        <4> QED BY <4>1 DEF ItemsOK
      <3> QED BY <3>1, <2>3, <2>6
    <2>10. /\ Append(Items, v) \in Seq(Vals) /\ Len(Append(Items, v)) = Count + 1
           /\ \A i \in 1 .. Count : Append(Items, v)[i] = buffer_[At(i)]
           /\ Append(Items, v)[Count + 1] = v
      BY ItemsSeq, AppendProperties DEF ItemsOK
    <2>11. Items' = Append(Items, v)
      <3>1. \A i \in 1 .. Len(Items') : Items'[i] = Append(Items, v)[i]
        BY <2>9, <2>10, Places DEF IInv
      <3> QED BY <2>9, <2>10, <3>1, SeqEqual
    <2> QED BY <1>4, <2>1, <2>8, <2>11, Places DEF IInv
  <1> QED BY <1>3, <1>4, Places DEF IInv

\* A Pop() that finds a value returns the first item and removes it.
LEMMA PopRemoves ==
  ASSUME IInv, Pop
  PROVE  /\ IInv'
         /\ Items = << >> => Items' = Items /\ out' = Empty
         /\ Items # << >> => Items' = Tail(Items) /\ out' = Items[1]
  <1> USE SizeAssumption
  <1>1. CASE IsEmpty
    <2>1. out' = Empty /\ UNCHANGED <<buffer_, head_, tail_>>
      BY <1>1 DEF Pop
    <2>2. Items' = Items /\ IInv'
      BY <2>1 DEF IInv, TypeOK, Filled, Items, Count, At
    <2> QED BY <1>1, <2>1, <2>2, ItemsSeq DEF ItemsOK
  <1>2. CASE ~ IsEmpty
    <2>1. /\ out' = buffer_[head_] /\ head_' = Wrap(head_ + 1)
          /\ buffer_' = buffer_ /\ tail_' = tail_
      BY <1>2 DEF Pop
    <2>2. At(1) = head_ /\ Count \in Nat \ {0}
      BY <1>2, Places DEF IInv, TypeOK, Slots, At
    <2>3. Count' = Count - 1
      BY <1>2, <2>1 DEF IInv, TypeOK, Slots, Wrap, Count, IsEmpty
    <2>4. \A i \in 1 .. (Count - 1) : At(i)' = At(i + 1)
      BY <2>1, <2>2, Places DEF IInv, TypeOK, Slots, Wrap, At
    <2>5. out' \in Vals
      BY <2>1, <2>2 DEF IInv, Filled
    <2>6. TypeOK'
      BY <2>1, <2>5 DEF IInv, TypeOK, Slots, Wrap
    <2>7. Filled'
      BY <2>1, <2>2, <2>3, <2>4 DEF IInv, Filled
    <2>8. ItemsOK'
      <3>1. IInv'
        BY <2>6, <2>7 DEF IInv
      <3> QED BY <3>1, ItemsSeq, PTL
    <2>9. Items # << >> /\ Items[1] = buffer_[head_]
      BY <1>2, <2>2, ItemsSeq DEF ItemsOK
    <2>10. /\ Tail(Items) \in Seq(Vals) /\ Len(Tail(Items)) = Count - 1
           /\ \A i \in 1 .. (Count - 1) : Tail(Items)[i] = Items[i + 1]
      BY <2>9, ItemsSeq, HeadTailProperties DEF ItemsOK
    <2>11. \A i \in 1 .. (Count - 1) : Items'[i] = Items[i + 1]
      BY <2>1, <2>2, <2>3, <2>4, <2>8, ItemsSeq DEF ItemsOK
    <2>12. Items' = Tail(Items)
      <3>1. Len(Items') = Len(Tail(Items)) /\ Items' \in Seq(Vals)
        BY <2>3, <2>8, <2>10 DEF ItemsOK
      <3>2. \A i \in 1 .. Len(Items') : Items'[i] = Tail(Items)[i]
        BY <2>3, <2>8, <2>10, <2>11 DEF ItemsOK
      <3> QED BY <2>10, <3>1, <3>2, SeqEqual
    <2> QED BY <2>1, <2>6, <2>7, <2>9, <2>12 DEF IInv
  <1> QED BY <1>1, <1>2

\* Front() and Back() return the first and the last item and change nothing.
LEMMA FrontBackRead ==
  ASSUME IInv, GetFront \/ GetBack
  PROVE  /\ IInv' /\ Items' = Items
         /\ GetFront => out' = IF Items = << >> THEN Empty ELSE Items[1]
         /\ GetBack => out' = IF Items = << >> THEN Empty ELSE Items[Len(Items)]
  <1> USE SizeAssumption
  <1>1. UNCHANGED <<buffer_, head_, tail_>>
    BY DEF GetFront, GetBack
  <1>2. Items' = Items /\ Filled'
    BY <1>1 DEF IInv, Filled, Items, Count, At
  <1>3. ASSUME ~ IsEmpty
        PROVE  /\ Items # << >>
               /\ buffer_[head_] = Items[1]
               /\ buffer_[IF tail_ = 0 THEN queue_size_ - 1 ELSE tail_ - 1] = Items[Len(Items)]
               /\ Items[1] \in Vals /\ Items[Len(Items)] \in Vals
    <2>1. Count \in Nat \ {0} /\ At(1) = head_
      BY <1>3, Places DEF IInv, TypeOK, Slots, At
    <2>2. At(Count) = IF tail_ = 0 THEN queue_size_ - 1 ELSE tail_ - 1
      BY <1>3 DEF IInv, TypeOK, Slots, At, Count, IsEmpty
    <2>3. Items[1] = buffer_[At(1)] /\ Items[Len(Items)] = buffer_[At(Count)]
      BY <2>1, ItemsSeq DEF ItemsOK
    <2>4. Items # << >> /\ Items[1] \in Vals /\ Items[Len(Items)] \in Vals
      BY <1>3, <2>1, ItemsSeq DEF ItemsOK
    <2> QED BY <2>1, <2>2, <2>3, <2>4
  <1>4. CASE IsEmpty
    <2>1. out' = Empty /\ Items = << >>
      BY <1>4, ItemsSeq DEF GetFront, GetBack, ItemsOK
    <2>2. TypeOK'
      BY <1>1, <2>1 DEF IInv, TypeOK
    <2> QED BY <1>2, <2>1, <2>2 DEF IInv
  <1>5. CASE ~ IsEmpty
    <2>1. /\ GetFront => out' = Items[1]
          /\ GetBack => out' = Items[Len(Items)]
      BY <1>3, <1>5 DEF GetFront, GetBack
    <2>2. TypeOK'
      BY <1>1, <1>3, <1>5, <2>1 DEF IInv, TypeOK
    <2> QED BY <1>2, <1>3, <1>5, <2>1, <2>2 DEF IInv
  <1> QED BY <1>4, <1>5

\* The queue starts empty.
LEMMA InitEmpty == Init => IInv /\ Items = << >> /\ out = None
  <1> SUFFICES ASSUME Init PROVE IInv /\ Items = << >> /\ out = None
    OBVIOUS
  <1>1. Count = 0 /\ TypeOK
    BY SizeAssumption DEF Init, TypeOK, Count, Slots
  <1>2. IInv
    BY <1>1 DEF IInv, Filled
  <1> QED BY <1>2, ItemsSeq DEF Init, ItemsOK, IsEmpty

\* IInv is inductive, and under it every call is the same call of BoundedFifo.
LEMMA StepRefines == IInv /\ [Next]_vars => IInv' /\ [Fifo!Next]_<<Items, out>>
  <1> SUFFICES ASSUME IInv, [Next]_vars
               PROVE  IInv' /\ [Fifo!Next]_<<Items, out>>
    OBVIOUS
  <1>1. ASSUME NEW v \in Vals, Push(v) PROVE IInv' /\ Fifo!Push(v)
    <2>1. Count = Len(Items) /\ Count \in Nat
      BY ItemsSeq, Places, SizeAssumption DEF ItemsOK, IInv
    <2> QED BY <1>1, <2>1, PushAppends, SizeAssumption DEF Fifo!Push
  <1>2. ASSUME Pop PROVE IInv' /\ Fifo!Pop
    BY <1>2, PopRemoves DEF Fifo!Pop
  <1>3. ASSUME GetFront PROVE IInv' /\ Fifo!Front
    BY <1>3, FrontBackRead DEF Fifo!Front
  <1>4. ASSUME GetBack PROVE IInv' /\ Fifo!Back
    BY <1>4, FrontBackRead DEF Fifo!Back
  <1>5. CASE UNCHANGED vars
    BY <1>5 DEF vars, IInv, TypeOK, Filled, Items, Count, At
  <1> QED BY <1>1, <1>2, <1>3, <1>4, <1>5 DEF Next, Fifo!Next

\* The indices of the ring buffer stay inside it and every result is a value
\* pushed or one of the two exceptions (Queue.cpp:17-52).
THEOREM QueueTypeCorrect == Spec => []TypeOK
  <1>1. Init => IInv
    BY InitEmpty
  <1>2. IInv /\ [Next]_vars => IInv'
    BY StepRefines
  <1>3. IInv => TypeOK
    BY DEF IInv
  <1> QED BY <1>1, <1>2, <1>3, PTL DEF Spec

\* For every size and set of values the ring buffer (Queue.cpp) implements the
\* queue of queue_size_ - 1 values, results and exceptions included.
THEOREM QueueIsFifo == Spec => IsFifo
  <1>1. Init => IInv /\ Fifo!Init
    BY InitEmpty DEF Fifo!Init
  <1>2. IInv /\ [Next]_vars => IInv' /\ [Fifo!Next]_<<Items, out>>
    BY StepRefines
  <1> QED BY <1>1, <1>2, PTL DEF Spec, IsFifo, Fifo!Spec

(***************************************************************************)
(* The stack.                                                              *)
(***************************************************************************)
\* top_ is a slot or, when the stack is empty, the largest size_t.
StackInv ==
  /\ stackBuffer = [i \in S!Slots |-> stackBuffer[i]]
  /\ top_ \in S!Slots \cup {SizeMod - 1}

\* The values stacked, the last one on top.
Stacked == [i \in 1 .. S!Size |-> stackBuffer[i - 1]]

\* Arithmetic modulo SizeMod, where Push(), Pop() and IsEmpty() rely on it.
LEMMA WrapAround ==
  /\ -1 % SizeMod = SizeMod - 1 /\ SizeMod % SizeMod = 0
  /\ \A k \in 0 .. (SizeMod - 1) : k % SizeMod = k
<1>1. SizeMod \in Nat \ {0}
  BY StackAssumption
<1>2. \A k \in 0 .. (SizeMod - 1) : k % SizeMod = k
  BY <1>1
<1>3. SizeMod % SizeMod = 0
  BY <1>1
<1>4. -1 % SizeMod = SizeMod - 1
  BY <1>1
<1> QED
  BY <1>2, <1>3, <1>4

\* The wrap-around makes the size one more than top_, and 0 when empty.
LEMMA StackCount ==
  ASSUME StackInv
  PROVE  /\ S!Wrapped(-1) = SizeMod - 1
         /\ top_ = SizeMod - 1 <=> S!IsEmpty
         /\ S!IsEmpty => S!Size = 0
         /\ ~ S!IsEmpty => S!Size = top_ + 1 /\ top_ \in S!Slots
         /\ S!Size \in 0 .. stack_size_
         /\ top_ \in Nat
<1>1. S!Wrapped(-1) = SizeMod - 1
  BY WrapAround DEF S!Wrapped
<1>2. top_ = SizeMod - 1 <=> S!IsEmpty
  BY <1>1 DEF S!IsEmpty
<1>3. CASE top_ = SizeMod - 1
  <2>1. top_ + 1 = SizeMod
    BY <1>3, StackAssumption
  <2>2. S!Size = 0
    BY <2>1, WrapAround DEF S!Size, S!Wrapped
  <2> QED
    BY <1>1, <1>2, <1>3, <2>2, StackAssumption
<1>4. CASE top_ # SizeMod - 1
  <2>1. top_ \in 0 .. (stack_size_ - 1)
    BY <1>4 DEF StackInv, S!Slots
  <2>2. top_ + 1 \in 0 .. (SizeMod - 1) /\ top_ + 1 \in 0 .. stack_size_
    BY <2>1, StackAssumption
  <2>3. S!Size = top_ + 1
    BY <2>2, WrapAround DEF S!Size, S!Wrapped
  <2> QED
    BY <1>1, <1>2, <1>4, <2>1, <2>2, <2>3, StackAssumption DEF S!Slots
<1> QED
  BY <1>3, <1>4

\* What is stacked is a sequence as long as the size.
LEMMA StackedSeq ==
  ASSUME StackInv
  PROVE  /\ Len(Stacked) = S!Size /\ Stacked \in Seq({Stacked[i] : i \in 1 .. S!Size})
         /\ DOMAIN Stacked = 1 .. S!Size
         /\ \A i \in 1 .. S!Size : Stacked[i] = stackBuffer[i - 1]
         /\ Stacked = << >> <=> S!IsEmpty
         /\ ~ S!IsEmpty => Stacked[Len(Stacked)] = stackBuffer[top_]
<1>1. S!Size \in Nat
  BY StackCount, StackAssumption
<1>2. \A i \in 1 .. S!Size : Stacked[i] = stackBuffer[i - 1]
  BY DEF Stacked
<1>3. Stacked \in [1 .. S!Size -> {Stacked[i] : i \in 1 .. S!Size}]
  BY DEF Stacked
<1>4. Len(Stacked) = S!Size /\ Stacked \in Seq({Stacked[i] : i \in 1 .. S!Size})
  BY <1>1, <1>3
<1>5. Stacked = << >> <=> S!Size = 0
  BY <1>1, <1>4, EmptySeq
<1>6. S!Size = 0 <=> S!IsEmpty
  BY StackCount
<1>7. ~ S!IsEmpty => Stacked[Len(Stacked)] = stackBuffer[top_]
  <2>1. ~ S!IsEmpty => S!Size = top_ + 1 /\ top_ \in Nat
    BY StackCount
  <2> QED
    BY <1>2, <1>4, <2>1
<1> QED
  BY <1>2, <1>3, <1>4, <1>5, <1>6, <1>7

\* Push() appends what fits.
LEMMA PushStacks ==
  ASSUME StackInv, NEW v \in Vals, S!Push(v)
  PROVE  StackInv' /\ S!Lifo!Push(v)
<1>1. stackUp' = stackUp
  BY DEF S!Push
<1>2. CASE S!Size >= stack_size_
  <2>1. stackOut' = <<"Push", Overflow>> /\ stackBuffer' = stackBuffer /\ top_' = top_
    BY <1>2 DEF S!Push
  <2>2. Len(Stacked) = stack_size_
    BY <1>2, StackCount, StackedSeq, StackAssumption
  <2>3. Stacked' = Stacked /\ StackInv'
    BY <2>1 DEF Stacked, S!Size, StackInv
  <2> QED
    BY <1>1, <2>1, <2>2, <2>3 DEF S!Lifo!Push, Stacked
<1>3. CASE ~ (S!Size >= stack_size_)
  <2> DEFINE n == S!Size
  <2>1. top_' = n /\ stackBuffer' = [stackBuffer EXCEPT ![n] = v] /\ stackOut' = <<"Push", v>>
    BY <1>3 DEF S!Push, S!Size
  <2>2. n \in 0 .. (stack_size_ - 1)
    BY <1>3, StackCount, StackAssumption
  <2>3. StackInv'
    BY <2>1, <2>2 DEF StackInv, S!Slots
  <2>4. top_' \in S!Slots /\ top_' # SizeMod - 1
    BY <2>1, <2>2, StackAssumption DEF S!Slots
  <2>5. S!Size' = n + 1
    <3>1. (top_ + 1)' = n + 1 /\ n + 1 \in 0 .. (SizeMod - 1)
      BY <2>1, <2>2, StackAssumption
    <3> QED
      BY <3>1, WrapAround DEF S!Size, S!Wrapped
  <2>6. Len(Stacked) = n /\ n \in Nat /\ n # stack_size_
    BY <2>2, StackedSeq, StackAssumption
  <2>7. \A i \in 1 .. n : stackBuffer'[i - 1] = stackBuffer[i - 1]
    <3>1. \A i \in 1 .. n : i - 1 # n /\ i - 1 \in S!Slots
      BY <2>2, StackAssumption DEF S!Slots
    <3> QED
      BY <2>1, <3>1 DEF StackInv
  <2>8. stackBuffer'[n] = v
    BY <2>1, <2>2 DEF StackInv, S!Slots
  <2>9. Stacked' = Append(Stacked, v)
    <3> DEFINE q == Stacked
           T == {q[i] : i \in 1 .. n} \cup {v}
    <3>1. /\ q \in Seq(T) /\ Len(q) = n /\ v \in T
          /\ \A i \in 1 .. n : q[i] = stackBuffer[i - 1]
      BY StackedSeq
    <3>2. Stacked' = [i \in 1 .. (n + 1) |-> stackBuffer'[i - 1]]
      BY <2>5 DEF Stacked
    <3> HIDE DEF q, n, T
    <3>3. /\ Append(q, v) \in Seq(T) /\ Len(Append(q, v)) = n + 1
          /\ \A i \in 1 .. n : Append(q, v)[i] = q[i]
          /\ Append(q, v)[n + 1] = v
      BY <2>6, <3>1, AppendProperties
    <3>4. \A i \in 1 .. (n + 1) : stackBuffer'[i - 1] = Append(q, v)[i]
      BY <2>6, <2>7, <2>8, <3>1, <3>3
    <3>5. Append(q, v) = [i \in 1 .. (n + 1) |-> Append(q, v)[i]]
      <4>1. \A a \in Seq(T) : a \in [1 .. Len(a) -> T]
        OBVIOUS
      <4>2. Append(q, v) \in [1 .. (n + 1) -> T]
        BY <3>3, <4>1
      <4> QED
        BY <4>2, Zenon
    <3> QED
      BY <3>2, <3>4, <3>5 DEF q
  <2> QED
    BY <1>1, <2>1, <2>3, <2>6, <2>9 DEF S!Lifo!Push, Stacked
<1> QED
  BY <1>2, <1>3

\* Pop() takes the last one off.
LEMMA PopUnstacks ==
  ASSUME StackInv, S!Pop
  PROVE  StackInv' /\ S!Lifo!Pop
<1>1. stackUp' = stackUp /\ stackBuffer' = stackBuffer
  BY DEF S!Pop
<1>2. CASE S!IsEmpty
  <2>1. stackOut' = <<"Pop", Underflow>> /\ top_' = top_
    BY <1>2 DEF S!Pop
  <2>2. Stacked = << >>
    BY <1>2, StackedSeq
  <2>3. Stacked' = Stacked /\ StackInv'
    BY <1>1, <2>1 DEF Stacked, S!Size, StackInv
  <2> QED
    BY <1>1, <2>1, <2>2, <2>3 DEF S!Lifo!Pop, Stacked
<1>3. CASE ~ S!IsEmpty
  <2>1. stackOut' = <<"Pop", stackBuffer[top_]>> /\ top_' = S!Wrapped(top_ - 1)
    BY <1>3 DEF S!Pop
  <2>2. S!Size = top_ + 1 /\ top_ \in 0 .. (stack_size_ - 1)
    BY <1>3, StackCount DEF S!Slots
  <2>3. \/ top_ = 0 /\ top_' = SizeMod - 1
        \/ top_ # 0 /\ top_' = top_ - 1
    <3>1. CASE top_ = 0
      BY <2>1, <3>1, StackCount
    <3>2. CASE top_ # 0
      <4>1. top_ - 1 \in 0 .. (SizeMod - 1)
        BY <2>2, <3>2, StackAssumption
      <4> QED
        BY <2>1, <3>2, <4>1, WrapAround DEF S!Wrapped
    <3> QED
      BY <3>1, <3>2
  <2>4. StackInv'
    <3>1. top_' \in S!Slots \cup {SizeMod - 1}
      BY <2>2, <2>3, StackAssumption DEF S!Slots
    <3> QED
      BY <1>1, <3>1 DEF StackInv
  <2>5. S!Size' = top_
    <3>1. S!Size' = (top_' + 1) % SizeMod
      BY DEF S!Size, S!Wrapped
    <3>2. CASE top_ = 0
      <4>1. top_' + 1 = SizeMod
        BY <2>3, <3>2, StackAssumption
      <4> QED
        BY <3>1, <3>2, <4>1, WrapAround
    <3>3. CASE top_ # 0
      <4>1. top_' + 1 = top_ /\ top_ \in 0 .. (SizeMod - 1)
        BY <2>2, <2>3, <3>3, StackAssumption
      <4> QED
        BY <3>1, <4>1, WrapAround
    <3> QED
      BY <3>2, <3>3
  <2>6. /\ Stacked # << >> /\ Len(Stacked) = top_ + 1
        /\ Stacked[Len(Stacked)] = stackBuffer[top_]
    BY <1>3, <2>2, StackedSeq
  <2>7. Stacked' = SubSeq(Stacked, 1, Len(Stacked) - 1)
    <3> DEFINE q == Stacked
               T == {q[i] : i \in 1 .. S!Size}
    <3>1. /\ q \in Seq(T) /\ Len(q) = top_ + 1
          /\ \A i \in 1 .. (top_ + 1) : q[i] = stackBuffer[i - 1]
      BY <2>2, StackedSeq
    <3>2. Stacked' = [i \in 1 .. top_ |-> stackBuffer[i - 1]]
      BY <1>1, <2>5 DEF Stacked
    <3> HIDE DEF q, T
    <3>3. Len(q) - 1 = top_ /\ \A i \in 1 .. top_ : q[i] = stackBuffer[i - 1]
      BY <2>2, <3>1
    <3>4. SubSeq(q, 1, top_) = [i \in 1 .. top_ |-> q[i]]
      BY <2>2, <3>1
    <3> QED
      BY <3>2, <3>3, <3>4 DEF q
  <2> QED
    BY <1>1, <2>1, <2>4, <2>6, <2>7 DEF S!Lifo!Pop, Stacked
<1> QED
  BY <1>2, <1>3

\* The calls that only look do so, and on an empty stack they may do anything.
LEMMA StackReads ==
  ASSUME StackInv, S!Top \/ S!ShowSize \/ S!Display
  PROVE  StackInv' /\ (S!Lifo!Read \/ S!Lifo!Count \/ S!Lifo!Undefined)
<1>1. stackBuffer' = stackBuffer /\ top_' = top_
  BY DEF S!Top, S!ShowSize, S!Display
<1>2. StackInv' /\ Stacked' = Stacked
  BY <1>1 DEF Stacked, S!Size, StackInv
<1>3. CASE S!ShowSize
  <2>1. stackOut' = <<"Size", S!Size>> /\ stackUp' = stackUp
    BY <1>3 DEF S!ShowSize
  <2> QED
    BY <1>2, <2>1, StackedSeq DEF S!Lifo!Count, Stacked
<1>4. CASE S!Top /\ S!IsEmpty
  <2>1. top_ \notin S!Slots
    BY <1>4, StackCount, StackAssumption DEF S!Slots
  <2>2. \/ stackOut' = <<"Top", Junk>> /\ stackUp' = stackUp
        \/ stackUp' = FALSE /\ stackOut' = stackOut
    BY <1>4, <2>1 DEF S!Top
  <2> QED
    BY <1>2, <1>4, <2>2, StackedSeq DEF S!Lifo!Undefined, Stacked
<1>5. CASE S!Top /\ ~ S!IsEmpty
  <2>1. stackOut' = <<"Top", stackBuffer[top_]>> /\ stackUp' = stackUp
    BY <1>5, StackCount DEF S!Top
  <2> QED
    BY <1>2, <1>5, <2>1, StackedSeq DEF S!Lifo!Read, Stacked
<1>6. CASE S!Display /\ S!IsEmpty
  <2>1. stackUp' = FALSE /\ stackOut' = stackOut
    BY <1>6 DEF S!Display
  <2> QED
    BY <1>2, <1>6, <2>1, StackedSeq DEF S!Lifo!Undefined, Stacked
<1>7. CASE S!Display /\ ~ S!IsEmpty
  <2>1. stackOut' = <<"Display", Stacked>> /\ stackUp' = stackUp
    BY <1>7, StackCount DEF S!Display, Stacked
  <2> QED
    BY <1>2, <1>7, <2>1, StackedSeq DEF S!Lifo!Read, Stacked
<1> QED
  BY <1>2, <1>3, <1>4, <1>5, <1>6, <1>7

\* For every size and every set of values, the stack of Stack.cpp is a bounded
\* last-in first-out stack: its index wraps around where it must and nowhere else.
THEOREM StackRefines == AllSpec => StackIsLifo
<1>1. AllInit => StackInv /\ S!Lifo!Init
  <2> SUFFICES ASSUME AllInit PROVE StackInv /\ S!Lifo!Init
    OBVIOUS
  <2>1. /\ stackUp = TRUE /\ stackBuffer = [i \in S!Slots |-> 0]
        /\ top_ = -1 % SizeMod /\ stackOut = << >>
    BY DEF AllInit, S!Init, S!Wrapped
  <2>2. StackInv
    BY <2>1, WrapAround DEF StackInv
  <2>3. S!IsEmpty
    BY <2>1 DEF S!IsEmpty, S!Wrapped
  <2>4. Stacked = << >>
    BY <2>2, <2>3, StackedSeq
  <2> QED
    BY <2>1, <2>2, <2>4 DEF S!Lifo!Init, Stacked
<1>2. StackInv /\ [AllNext]_allVars => StackInv' /\ [S!Lifo!Next]_(S!Lifo!vars)
  <2> SUFFICES ASSUME StackInv, [AllNext]_allVars PROVE StackInv' /\ [S!Lifo!Next]_(S!Lifo!vars)
    OBVIOUS
  <2>1. S!Next \/ UNCHANGED stackVars
    BY DEF AllNext, allVars
  <2>2. CASE UNCHANGED stackVars
    <3>1. stackUp' = stackUp /\ stackBuffer' = stackBuffer /\ top_' = top_ /\ stackOut' = stackOut
      BY <2>2 DEF stackVars
    <3>2. StackInv' /\ Stacked' = Stacked
      BY <3>1 DEF Stacked, S!Size, StackInv
    <3> QED
      BY <3>1, <3>2 DEF S!Lifo!vars, Stacked
  <2>3. CASE S!Next
    <3>1. stackUp /\ ((\E v \in Vals : S!Push(v)) \/ S!Pop \/ S!Top \/ S!ShowSize \/ S!Display)
      BY <2>3 DEF S!Next
    <3>2. StackInv' /\ S!Lifo!Next
      BY <3>1, PushStacks, PopUnstacks, StackReads DEF S!Lifo!Next
    <3> QED
      BY <3>2
  <2> QED
    BY <2>1, <2>2, <2>3
<1> QED
  BY <1>1, <1>2, PTL DEF AllSpec, StackIsLifo, S!IsLifo, S!Lifo!Spec

(***************************************************************************)
(* The good cache.                                                         *)
(***************************************************************************)
Node == [key : Keys, id : Nat]

\* What a list of nodes and a map of entries have in common: the list names
\* every key of the map once, and the iterators of the map point at those nodes.
\* The properties of the runs follow from it, and are not inductive without
\* their converse: a node that no entry points at would be popped for a live key.
Agree(list, c) ==
  /\ list \in Seq(Node) /\ IsFiniteSet(DOMAIN c)
  /\ Len(list) = Cardinality(DOMAIN c)
  /\ \A i, j \in DOMAIN list : list[i].id = list[j].id => i = j
  /\ \A i \in DOMAIN list : list[i].key \in DOMAIN c /\ c[list[i].key].lru_it = list[i].id
  /\ \A k \in DOMAIN c : \E i \in DOMAIN list : list[i].key = k

CacheInv ==
  /\ calls \in Nat /\ Agree(lru_, cache_)
  /\ \A i \in DOMAIN lru_ : lru_[i].id <= calls

\* A list that is lru_ behind a node x.
Fronted(list, x) ==
  /\ list \in Seq(Node) /\ Len(list) = Len(lru_) + 1
  /\ 1 \in DOMAIN list /\ list[1] = x
  /\ \A i \in DOMAIN lru_ : i \in Nat \ {0} /\ i + 1 \in DOMAIN list /\ list[i + 1] = lru_[i]
  /\ \A i \in DOMAIN list : i = 1 \/ (i \in Nat /\ i - 1 \in DOMAIN lru_ /\ list[i] = lru_[i - 1])
  /\ \A i, j \in DOMAIN list : list[i].id = list[j].id => i = j
  /\ \A i \in DOMAIN list : list[i].id <= calls + 1 /\ list[i].id \in Nat

\* The node that insert() puts in front is no other node.
LEMMA NewNode ==
  ASSUME CacheInv, NEW key \in Keys, NEW list,
         list = <<[key |-> key, id |-> calls + 1]>> \o lru_
  PROVE  Fronted(list, [key |-> key, id |-> calls + 1])
<1> DEFINE x == [key |-> key, id |-> calls + 1]
<1>1. x \in Node /\ x.id = calls + 1
  BY DEF CacheInv, Node
<1>2. lru_ \in Seq(Node)
  BY DEF CacheInv, Agree
<1> HIDE DEF x
<1>3. list = <<x>> \o lru_
  BY DEF x
<1>4. /\ list \in Seq(Node) /\ Len(list) = Len(lru_) + 1
      /\ 1 \in DOMAIN list /\ list[1] = x
      /\ \A i \in DOMAIN lru_ : i + 1 \in DOMAIN list /\ list[i + 1] = lru_[i]
      /\ \A i \in DOMAIN list : i = 1 \/ (i \in Nat /\ i - 1 \in DOMAIN lru_ /\ list[i] = lru_[i - 1])
  BY <1>1, <1>2, <1>3, PrependElements
<1>5. \A i \in DOMAIN lru_ : i \in Nat \ {0} /\ lru_[i].id \in Nat /\ lru_[i].id <= calls
  <2>1. \A i \in DOMAIN lru_ : i \in Nat \ {0} /\ lru_[i] \in Node
    BY <1>2
  <2> QED
    BY <2>1 DEF Node, CacheInv
<1>6. \A i \in DOMAIN list : list[i].id <= calls + 1 /\ list[i].id \in Nat
  BY <1>1, <1>4, <1>5 DEF CacheInv
<1>7. ASSUME NEW i \in DOMAIN list, NEW j \in DOMAIN list, list[i].id = list[j].id PROVE i = j
  <2>1. calls \in Nat
    BY DEF CacheInv
  <2>2. \A m \in DOMAIN list : list[m].id = calls + 1 => m = 1
    BY <1>4, <1>5, <2>1
  <2>3. list[1].id = calls + 1
    BY <1>1, <1>4
  <2>4. CASE i = 1 \/ j = 1
    BY <1>7, <2>2, <2>3, <2>4
  <2>5. CASE i # 1 /\ j # 1
    <3>1. /\ i \in Nat /\ i - 1 \in DOMAIN lru_ /\ list[i] = lru_[i - 1]
          /\ j \in Nat /\ j - 1 \in DOMAIN lru_ /\ list[j] = lru_[j - 1]
      BY <1>4, <2>5
    <3>2. i - 1 = j - 1
      <4>1. \A k, m \in DOMAIN lru_ : lru_[k].id = lru_[m].id => k = m
        BY DEF CacheInv, Agree
      <4> QED
        BY <1>7, <3>1, <4>1
    <3> QED
      BY <3>1, <3>2
  <2> QED
    BY <2>4, <2>5
<1> QED
  BY <1>4, <1>5, <1>6, <1>7 DEF x, Fronted

\* With a new key in both, list and map agree.
LEMMA InsertAgrees ==
  ASSUME CacheInv, NEW key \in Keys, NEW item, key \notin DOMAIN cache_, NEW list, NEW c,
         list = <<[key |-> key, id |-> calls + 1]>> \o lru_,
         c = C!With(cache_, key, [data |-> item, lru_it |-> calls + 1])
  PROVE  Agree(list, c)
<1> DEFINE x == [key |-> key, id |-> calls + 1]
<1>1. /\ list \in Seq(Node) /\ Len(list) = Len(lru_) + 1
      /\ 1 \in DOMAIN list /\ list[1] = x
      /\ \A i \in DOMAIN lru_ : i + 1 \in DOMAIN list /\ list[i + 1] = lru_[i]
      /\ \A i \in DOMAIN list : i = 1 \/ (i \in Nat /\ i - 1 \in DOMAIN lru_ /\ list[i] = lru_[i - 1])
      /\ \A i, j \in DOMAIN list : list[i].id = list[j].id => i = j
  <2>1. Fronted(list, x)
    BY NewNode
  <2> HIDE DEF x
  <2> QED
    BY <2>1 DEF Fronted
<1>2. x.key = key /\ x.id = calls + 1
  OBVIOUS
<1> HIDE DEF x
<1>3. /\ DOMAIN c = DOMAIN cache_ \cup {key} /\ c[key].lru_it = calls + 1
      /\ \A k \in DOMAIN cache_ : c[k] = cache_[k]
  BY DEF C!With
<1>4. IsFiniteSet(DOMAIN c) /\ Cardinality(DOMAIN c) = Cardinality(DOMAIN cache_) + 1
  BY <1>3, FS_AddElement DEF CacheInv, Agree
<1>5. Len(list) = Cardinality(DOMAIN c)
  BY <1>1, <1>4 DEF CacheInv, Agree
<1>6. ASSUME NEW i \in DOMAIN list
      PROVE  list[i].key \in DOMAIN c /\ c[list[i].key].lru_it = list[i].id
  <2>1. CASE i = 1
    BY <1>1, <1>2, <1>3, <2>1
  <2>2. CASE i # 1
    <3>1. i - 1 \in DOMAIN lru_ /\ list[i] = lru_[i - 1]
      BY <1>1, <2>2
    <3> QED
      BY <1>3, <3>1 DEF CacheInv, Agree
  <2> QED
    BY <2>1, <2>2
<1>7. ASSUME NEW k \in DOMAIN c PROVE \E i \in DOMAIN list : list[i].key = k
  <2>1. CASE k = key
    BY <1>1, <1>2, <2>1
  <2>2. CASE k # key
    <3>1. PICK i \in DOMAIN lru_ : lru_[i].key = k
      BY <1>3, <2>2 DEF CacheInv, Agree
    <3> QED
      BY <1>1, <3>1
  <2> QED
    BY <2>1, <2>2
<1> QED
  BY <1>1, <1>4, <1>5, <1>6, <1>7 DEF Agree

\* They still do when the last node's key leaves the map with it.
LEMMA PopAgrees ==
  ASSUME NEW list, NEW c, Agree(list, c), list # << >>
  PROVE  Agree(Front(list), C!Without(c, Last(list).key))
<1> DEFINE d == C!Without(c, Last(list).key)
           f == Front(list)
           n == Len(list)
           k0 == Last(list).key
<1>1. list \in Seq(Node) /\ n \in Nat
  BY DEF Agree
<1>2. /\ f \in Seq(Node) /\ Len(f) = n - 1 /\ n \in DOMAIN list /\ Last(list) = list[n]
      /\ \A i \in DOMAIN f : i \in DOMAIN list /\ i # n /\ f[i] = list[i]
      /\ \A i \in DOMAIN list : i # n => i \in DOMAIN f
  BY <1>1, FrontElements
<1>3. k0 = list[n].key
  BY <1>2
<1>4. DOMAIN d = DOMAIN c \ {k0} /\ \A k \in DOMAIN d : d[k] = c[k]
  BY DEF C!Without
<1> HIDE DEF d, f, n, k0
<1>5. k0 \in DOMAIN c
  BY <1>2, <1>3 DEF Agree
<1>6. IsFiniteSet(DOMAIN d) /\ Cardinality(DOMAIN d) = Cardinality(DOMAIN c) - 1
  BY <1>4, <1>5, FS_RemoveElement DEF Agree
<1>7. Len(f) = Cardinality(DOMAIN d)
  BY <1>2, <1>6 DEF Agree, n
<1>8. \A i \in DOMAIN list : list[i].key = k0 => i = n
  <2>1. /\ \A i, j \in DOMAIN list : list[i].id = list[j].id => i = j
        /\ \A i \in DOMAIN list : c[list[i].key].lru_it = list[i].id
    BY DEF Agree
  <2> SUFFICES ASSUME NEW i \in DOMAIN list, list[i].key = k0 PROVE i = n
    OBVIOUS
  <2>2. list[i].id = c[k0].lru_it /\ list[n].id = c[k0].lru_it
    BY <1>2, <1>3, <2>1
  <2> QED
    BY <1>2, <2>1, <2>2
<1>9. ASSUME NEW i \in DOMAIN f PROVE f[i].key \in DOMAIN d /\ d[f[i].key].lru_it = f[i].id
  BY <1>2, <1>4, <1>8 DEF Agree
<1>10. ASSUME NEW k \in DOMAIN d PROVE \E i \in DOMAIN f : f[i].key = k
  <2>1. PICK i \in DOMAIN list : list[i].key = k
    BY <1>4 DEF Agree
  <2>2. i # n
    BY <1>3, <1>4, <2>1
  <2> QED
    BY <1>2, <2>1, <2>2
<1>11. \A i, j \in DOMAIN f : f[i].id = f[j].id => i = j
  BY <1>2 DEF Agree
<1> QED
  BY <1>2, <1>6, <1>7, <1>9, <1>10, <1>11 DEF Agree, d, f, k0

\* A list that is another one without its n-th node.
Lacks(r, list, n) ==
  /\ r \in Seq(Node) /\ Len(r) = Len(list) - 1 /\ DOMAIN r \subseteq Nat
  /\ \A i \in DOMAIN list :
       /\ i < n => i \in DOMAIN r /\ r[i] = list[i]
       /\ i > n => i - 1 \in DOMAIN r /\ r[i - 1] = list[i]
  /\ \A i \in DOMAIN r :
       \/ i < n /\ i \in DOMAIN list /\ r[i] = list[i]
       \/ i >= n /\ i \in Nat /\ i + 1 \in DOMAIN list /\ r[i] = list[i + 1]

\* What RemoveAt() leaves of a list of nodes.
LEMMA NodeRemoved ==
  ASSUME NEW list \in Seq(Node), NEW n \in DOMAIN list
  PROVE  Lacks(RemoveAt(list, n), list, n)
<1> DEFINE r == RemoveAt(list, n)
<1>1. /\ r \in Seq(Node) /\ Len(r) = Len(list) - 1
      /\ \A i \in DOMAIN list :
           /\ i < n => i \in DOMAIN r /\ r[i] = list[i]
           /\ i > n => i - 1 \in DOMAIN r /\ r[i - 1] = list[i]
      /\ \A i \in DOMAIN r :
           \/ i < n /\ i \in DOMAIN list /\ r[i] = list[i]
           \/ i >= n /\ i \in Nat /\ i + 1 \in DOMAIN list /\ r[i] = list[i + 1]
  BY RemoveElements
<1> HIDE DEF r
<1>2. DOMAIN r \subseteq Nat
  BY <1>1
<1>3. Lacks(r, list, n)
  BY <1>1, <1>2 DEF Lacks
<1> QED
  BY <1>3 DEF r

\* With a known key in both and its old node erased, list and map agree.
LEMMA EraseAgrees ==
  ASSUME CacheInv, NEW key \in Keys, NEW item, key \in DOMAIN cache_, NEW list, NEW c,
         list = <<[key |-> key, id |-> calls + 1]>> \o lru_,
         c = C!With(cache_, key, [data |-> item, lru_it |-> calls + 1])
  PROVE  /\ Agree(C!Erased(list, cache_[key].lru_it), c)
         /\ \A i \in DOMAIN C!Erased(list, cache_[key].lru_it) :
              C!Erased(list, cache_[key].lru_it)[i].id <= calls + 1
<1> DEFINE x == [key |-> key, id |-> calls + 1]
           id == cache_[key].lru_it
           n == CHOOSE m \in DOMAIN list : list[m].id = id
           r == C!Erased(list, id)
<1>1. Fronted(list, x)
  BY NewNode
<1>2. x.key = key /\ x.id = calls + 1
  OBVIOUS
<1> HIDE DEF x
<1>3. /\ DOMAIN c = DOMAIN cache_ /\ c[key].lru_it = calls + 1
      /\ \A k \in DOMAIN cache_ : k # key => c[k] = cache_[k]
  BY DEF C!With
<1>0. /\ \A i \in DOMAIN lru_ : /\ lru_[i].key \in DOMAIN cache_
                                /\ cache_[lru_[i].key].lru_it = lru_[i].id
      /\ \A k \in DOMAIN cache_ : \E i \in DOMAIN lru_ : lru_[i].key = k
  BY DEF CacheInv, Agree
<1>4. PICK p \in DOMAIN lru_ : lru_[p].key = key /\ lru_[p].id = id
  BY <1>0
<1>5. p \in Nat \ {0} /\ p + 1 \in DOMAIN list /\ list[p + 1] = lru_[p]
  BY <1>1 DEF Fronted
<1>6. n \in DOMAIN list /\ list[n].id = id
  BY <1>4, <1>5
<1>7. n = p + 1
  BY <1>1, <1>4, <1>5, <1>6 DEF Fronted
<1>9. r = RemoveAt(list, n)
  BY DEF C!Erased, C!RemoveAt, RemoveAt
<1> HIDE DEF n, r, id
<1>8. n \in Nat /\ 1 < n
  BY <1>5, <1>7
<1>10. list \in Seq(Node) /\ DOMAIN list \subseteq Nat
  BY <1>1 DEF Fronted
<1>11. /\ r \in Seq(Node) /\ Len(r) = Len(list) - 1 /\ DOMAIN r \subseteq Nat
       /\ \A i \in DOMAIN list :
            /\ i < n => i \in DOMAIN r /\ r[i] = list[i]
            /\ i > n => i - 1 \in DOMAIN r /\ r[i - 1] = list[i]
       /\ \A i \in DOMAIN r :
            \/ i < n /\ i \in DOMAIN list /\ r[i] = list[i]
            \/ i >= n /\ i \in Nat /\ i + 1 \in DOMAIN list /\ r[i] = list[i + 1]
  <2>1. Lacks(r, list, n)
    BY <1>6, <1>9, <1>10, NodeRemoved
  <2> QED
    BY <2>1 DEF Lacks
<1>12a. \A i \in DOMAIN r :
          /\ i \in Nat
          /\ \/ i < n /\ i \in DOMAIN list /\ r[i] = list[i]
             \/ i >= n /\ i + 1 \in DOMAIN list /\ r[i] = list[i + 1]
  BY <1>11
<1>12. Len(r) = Cardinality(DOMAIN c)
  <2>1. Len(list) = Len(lru_) + 1 /\ Len(lru_) \in Nat
    BY <1>1 DEF Fronted, CacheInv, Agree
  <2> QED
    BY <1>3, <1>11, <2>1 DEF CacheInv, Agree
<1>13. \A m \in DOMAIN list : m # 1 /\ list[m].key = key => m = n
  <2> SUFFICES ASSUME NEW m \in DOMAIN list, m # 1, list[m].key = key PROVE m = n
    OBVIOUS
  <2>1. m - 1 \in DOMAIN lru_ /\ list[m] = lru_[m - 1]
    BY <1>1 DEF Fronted
  <2>2. list[m].id = id
    BY <1>0, <2>1 DEF id
  <2> QED
    BY <1>1, <1>6, <2>2 DEF Fronted
<1>14. \A m \in DOMAIN list : m # n =>
         list[m].key \in DOMAIN c /\ c[list[m].key].lru_it = list[m].id
  <2> SUFFICES ASSUME NEW m \in DOMAIN list, m # n
               PROVE  list[m].key \in DOMAIN c /\ c[list[m].key].lru_it = list[m].id
    OBVIOUS
  <2>1. CASE m = 1
    BY <1>1, <1>2, <1>3, <2>1 DEF Fronted
  <2>2. CASE m # 1
    <3>1. m - 1 \in DOMAIN lru_ /\ list[m] = lru_[m - 1]
      BY <1>1, <2>2 DEF Fronted
    <3>2. list[m].key # key
      BY <1>13, <2>2
    <3> QED
      BY <1>0, <1>3, <3>1, <3>2
  <2> QED
    BY <2>1, <2>2
<1>15. ASSUME NEW i \in DOMAIN r PROVE \E m \in DOMAIN list : m # n /\ r[i] = list[m]
  <2>1. CASE i < n
    <3>1. i \in DOMAIN list /\ i # n /\ r[i] = list[i]
      BY <1>8, <1>12a, <2>1
    <3> QED
      BY <3>1
  <2>2. CASE ~ (i < n)
    <3>1. i + 1 \in DOMAIN list /\ i \in Nat /\ i >= n /\ r[i] = list[i + 1]
      BY <1>12a, <2>2
    <3>2. i + 1 # n
      BY <1>8, <3>1
    <3> QED
      BY <3>1, <3>2
  <2> QED
    BY <2>1, <2>2
<1>16. ASSUME NEW i \in DOMAIN r PROVE r[i].key \in DOMAIN c /\ c[r[i].key].lru_it = r[i].id
  BY <1>14, <1>15
<1>17. ASSUME NEW m \in DOMAIN list, m # n PROVE \E i \in DOMAIN r : r[i] = list[m]
  <2>1. m < n \/ m > n
    BY <1>8, <1>10, <1>17
  <2> QED
    BY <1>11, <2>1
<1>18. ASSUME NEW k \in DOMAIN c PROVE \E i \in DOMAIN r : r[i].key = k
  <2>1. CASE k = key
    <3>1. 1 \in DOMAIN list /\ 1 # n /\ list[1].key = key
      BY <1>1, <1>2, <1>8 DEF Fronted
    <3> QED
      BY <1>17, <2>1, <3>1
  <2>2. CASE k # key
    <3>1. PICK i \in DOMAIN lru_ : lru_[i].key = k
      BY <1>3 DEF CacheInv, Agree
    <3>2. i + 1 \in DOMAIN list /\ list[i + 1] = lru_[i] /\ i \in Nat
      BY <1>1 DEF Fronted
    <3>3. i + 1 # n
      BY <1>4, <1>5, <1>7, <2>2, <3>1, <3>2
    <3> QED
      BY <1>17, <3>1, <3>2, <3>3
  <2> QED
    BY <2>1, <2>2
<1>19. ASSUME NEW i \in DOMAIN r, NEW j \in DOMAIN r, r[i].id = r[j].id PROVE i = j
  <2> DEFINE at_(k) == IF k < n THEN k ELSE k + 1
  <2>1. \A k \in DOMAIN r : at_(k) \in DOMAIN list /\ r[k] = list[at_(k)] /\ k \in Nat
    BY <1>8, <1>12a
  <2>2. at_(i) = at_(j)
    <3>1. /\ at_(i) \in DOMAIN list /\ at_(j) \in DOMAIN list
          /\ list[at_(i)].id = list[at_(j)].id
      BY <1>19, <2>1
    <3> HIDE DEF at_
    <3> QED
      BY <1>1, <3>1 DEF Fronted
  <2> QED
    BY <1>8, <2>1, <2>2
<1>20. \A i \in DOMAIN r : r[i].id <= calls + 1
  BY <1>1, <1>15 DEF Fronted
<1>21. Agree(r, c)
  BY <1>3, <1>11, <1>12, <1>16, <1>18, <1>19 DEF Agree, CacheInv
<1> QED
  BY <1>20, <1>21 DEF r, id

\* insert() keeps list and map in agreement.
LEMMA InsertKeeps ==
  ASSUME CacheInv, NEW key \in Keys, NEW item \in CacheItems, C!GoodInsert(key, item), calls' = calls + 1
  PROVE  CacheInv'
<1> DEFINE list == <<[key |-> key, id |-> calls + 1]>> \o lru_
           c == C!With(cache_, key, [data |-> item, lru_it |-> calls + 1])
           x == [key |-> key, id |-> calls + 1]
<1>1. calls' \in Nat
  BY DEF CacheInv
<1>2. Fronted(list, x)
  BY NewNode
<1>3. CASE key \in DOMAIN cache_
  <2>1. lru_' = C!Erased(list, cache_[key].lru_it) /\ cache_' = c
    BY <1>3 DEF C!GoodInsert
  <2>2. /\ Agree(C!Erased(list, cache_[key].lru_it), c)
        /\ \A i \in DOMAIN C!Erased(list, cache_[key].lru_it) :
             C!Erased(list, cache_[key].lru_it)[i].id <= calls + 1
    BY <1>3, EraseAgrees
  <2> HIDE DEF list, c
  <2>3. Agree(lru_', cache_') /\ \A i \in DOMAIN lru_' : lru_'[i].id <= calls'
    BY <2>1, <2>2
  <2> QED
    BY <1>1, <2>3 DEF CacheInv, Agree
<1>4. CASE key \notin DOMAIN cache_
  <2>1. Agree(list, c)
    BY <1>4, InsertAgrees
  <2>2. \/ lru_' = list /\ cache_' = c
        \/ lru_' = Front(list) /\ cache_' = C!Without(c, Last(list).key)
    BY <1>4 DEF C!GoodInsert, C!Front, Front, C!Last, Last
  <2> HIDE DEF list, c, x
  <2>3. list # << >> /\ list \in Seq(Node)
    <3>1. list \in Seq(Node) /\ 1 \in DOMAIN list
      BY <1>2 DEF Fronted
    <3> QED
      BY <3>1, EmptySeq
  <2>4. CASE lru_' = list /\ cache_' = c
    <3>1. Agree(lru_', cache_') /\ \A i \in DOMAIN lru_' : lru_'[i].id <= calls'
      BY <1>2, <2>1, <2>4 DEF Fronted
    <3> QED
      BY <1>1, <3>1 DEF CacheInv, Agree
  <2>5. CASE lru_' = Front(list) /\ cache_' = C!Without(c, Last(list).key)
    <3>1. Agree(lru_', cache_')
      BY <2>1, <2>3, <2>5, PopAgrees
    <3>2. \A i \in DOMAIN lru_' : lru_'[i].id <= calls'
      <4>1. \A i \in DOMAIN Front(list) : i \in DOMAIN list /\ Front(list)[i] = list[i]
        BY <2>3, FrontElements
      <4> QED
        BY <1>2, <2>5, <4>1 DEF Fronted
    <3> QED
      BY <1>1, <3>1, <3>2 DEF CacheInv, Agree
  <2> QED
    BY <2>2, <2>4, <2>5
<1> QED
  BY <1>3, <1>4

\* The caches begin empty, with list and map in agreement.
LEMMA CacheBegins == AllInit => CacheInv
<1> SUFFICES ASSUME AllInit PROVE CacheInv
  OBVIOUS
<1>1. lru_ = << >> /\ cache_ = << >> /\ calls = 0
  BY DEF AllInit, C!Init
<1>2. DOMAIN cache_ = {} /\ DOMAIN lru_ = {} /\ lru_ \in Seq(Node) /\ Len(lru_) = 0
  BY <1>1
<1>3. IsFiniteSet(DOMAIN cache_) /\ Cardinality(DOMAIN cache_) = 0
  BY <1>2, FS_EmptySet
<1> QED
  BY <1>1, <1>2, <1>3 DEF CacheInv, Agree

\* Every step keeps list and map in agreement.
LEMMA CacheStep == CacheInv /\ [AllNext]_allVars => CacheInv'
<1> SUFFICES ASSUME CacheInv, [AllNext]_allVars PROVE CacheInv'
  OBVIOUS
<1>1. C!Next \/ UNCHANGED cacheVars
  BY DEF AllNext, allVars
<1>2. CASE lru_' = lru_ /\ cache_' = cache_ /\ calls' = calls
  BY <1>2 DEF CacheInv, Agree
<1>3. ASSUME NEW k \in Keys, C!Find(k) PROVE CacheInv'
  BY <1>2, <1>3 DEF C!Find
<1>4. ASSUME NEW k \in Keys, NEW i \in CacheItems, C!Insert(k, i) PROVE CacheInv'
  <2>1. calls' = calls + 1 /\ (C!GoodInsert(k, i) \/ (lru_' = lru_ /\ cache_' = cache_))
    BY <1>4 DEF C!Insert
  <2>2. CASE C!GoodInsert(k, i)
    BY <2>1, <2>2, InsertKeeps
  <2>3. CASE lru_' = lru_ /\ cache_' = cache_
    <3>1. calls' \in Nat /\ Agree(lru_', cache_')
      BY <2>1, <2>3 DEF CacheInv, Agree
    <3>2. \A j \in DOMAIN lru_ : lru_[j].id \in Nat /\ lru_[j].id <= calls
      <4>1. \A j \in DOMAIN lru_ : lru_[j] \in Node
        BY DEF CacheInv, Agree
      <4> QED
        BY <4>1 DEF CacheInv, Node
    <3>3. \A j \in DOMAIN lru_' : lru_'[j].id <= calls'
      BY <2>1, <2>3, <3>2 DEF CacheInv
    <3> QED
      BY <3>1, <3>3 DEF CacheInv, Agree
  <2> QED
    BY <2>1, <2>2, <2>3
<1>5. ASSUME C!Clear PROVE CacheInv'
  <2>1. lru_' = << >> /\ cache_' = << >> /\ calls' = calls
    BY <1>5 DEF C!Clear
  <2>2. DOMAIN cache_' = {} /\ DOMAIN lru_' = {} /\ lru_' \in Seq(Node) /\ Len(lru_') = 0
    BY <2>1
  <2>3. IsFiniteSet(DOMAIN cache_') /\ Cardinality(DOMAIN cache_') = 0
    BY <2>2, FS_EmptySet
  <2> QED
    BY <2>1, <2>2, <2>3 DEF CacheInv, Agree
<1> QED
  BY <1>1, <1>2, <1>3, <1>4, <1>5 DEF C!Next, cacheVars

\* For every size of the cache, every set of keys and items and any number of
\* calls, list and map of the good cache name the same keys and no iterator
\* dangles.
THEOREM IteratorsHold == AllSpec => []CacheIteratorsValid
<1>1. AllInit => CacheInv
  BY CacheBegins
<1>2. CacheInv /\ [AllNext]_allVars => CacheInv'
  BY CacheStep
<1>3. CacheInv => CacheIteratorsValid
  <2> SUFFICES ASSUME CacheInv PROVE CacheIteratorsValid
    OBVIOUS
  <2>1. Len(lru_) = Cardinality(DOMAIN cache_)
    BY DEF CacheInv, Agree
  <2>2. ASSUME NEW k \in DOMAIN cache_
        PROVE  \E i \in DOMAIN lru_ : lru_[i] = [key |-> k, id |-> cache_[k].lru_it]
    <3>1. PICK i \in DOMAIN lru_ : lru_[i].key = k
      BY DEF CacheInv, Agree
    <3>2. lru_[i] \in Node /\ lru_[i].id = cache_[k].lru_it
      BY <3>1 DEF CacheInv, Agree
    <3>3. lru_[i] = [key |-> k, id |-> cache_[k].lru_it]
      BY <3>1, <3>2 DEF Node
    <3> QED
      BY <3>3
  <2> QED
    BY <2>1, <2>2 DEF CacheIteratorsValid, C!IteratorsValid, C!Cardinality, Cardinality
<1> QED
  BY <1>1, <1>2, <1>3, PTL DEF AllSpec

(***************************************************************************)
(* Both caches are least recently used caches.                             *)
(***************************************************************************)
\* The node at place p of list makes way for one with the key in front.
FrontMoved(new, list, p, key) ==
  /\ new \in Seq(Node)
  /\ DOMAIN new = 1 .. (IF p > Len(list) THEN p ELSE Len(list))
  /\ 1 \in DOMAIN new /\ new[1].key = key
  /\ \A i \in DOMAIN new : i # 1 => new[i] = IF i <= p THEN list[i - 1] ELSE list[i]

\* The place that makes way for a key.
PlaceOf(list, key, n) ==
  IF \E i \in DOMAIN list : list[i].key = key THEN CHOOSE i \in DOMAIN list : list[i].key = key
  ELSE IF Len(list) < n THEN Len(list) + 1 ELSE Len(list)

\* The gens of the bad cache order the list of the good one.
LruInv ==
  /\ CacheInv /\ max_size_ \in Nat /\ Len(lru_) <= max_size_
  /\ DOMAIN stamped = DOMAIN cache_ /\ generation_ \in Nat
  /\ \A k \in DOMAIN stamped : /\ stamped[k] \in [data : CacheItems, gen : Nat]
                               /\ stamped[k].gen <= generation_
  /\ \A i, j \in DOMAIN lru_ : i < j => stamped[lru_[i].key].gen > stamped[lru_[j].key].gen

\* What the list is like, in short.
LEMMA ListFacts ==
  ASSUME CacheInv
  PROVE  /\ lru_ \in Seq(Node) /\ DOMAIN lru_ = 1 .. Len(lru_) /\ Len(lru_) \in Nat /\ calls \in Nat
         /\ \A i, j \in DOMAIN lru_ : lru_[i].key = lru_[j].key => i = j
         /\ \A i \in DOMAIN lru_ : lru_[i].key \in DOMAIN cache_ /\ lru_[i] \in Node
         /\ \A k \in DOMAIN cache_ : \E i \in DOMAIN lru_ : lru_[i].key = k
         /\ Len(lru_) = Cardinality(DOMAIN cache_) /\ IsFiniteSet(DOMAIN cache_)
<1>1. lru_ \in Seq(Node) /\ calls \in Nat
  BY DEF CacheInv, Agree
<1>2. DOMAIN lru_ = 1 .. Len(lru_) /\ Len(lru_) \in Nat /\ \A i \in DOMAIN lru_ : lru_[i] \in Node
  BY <1>1
<1>3. \A i \in DOMAIN lru_ : lru_[i].key \in DOMAIN cache_
  BY DEF CacheInv, Agree
<1>4. ASSUME NEW i \in DOMAIN lru_, NEW j \in DOMAIN lru_, lru_[i].key = lru_[j].key PROVE i = j
  <2>1. lru_[i].id = lru_[j].id
    BY <1>4 DEF CacheInv, Agree
  <2> QED
    BY <2>1 DEF CacheInv, Agree
<1>5. /\ \A k \in DOMAIN cache_ : \E i \in DOMAIN lru_ : lru_[i].key = k
      /\ Len(lru_) = Cardinality(DOMAIN cache_) /\ IsFiniteSet(DOMAIN cache_)
  BY DEF CacheInv, Agree
<1> QED
  BY <1>1, <1>2, <1>3, <1>4, <1>5

\* insert() moves the nodes of the list as the abstract cache its entries.
LEMMA InsertMoves ==
  ASSUME LruInv, max_size_ # 0, NEW key \in Keys, NEW item, C!GoodInsert(key, item)
  PROVE  FrontMoved(lru_', lru_, PlaceOf(lru_, key, max_size_), key)
<1> DEFINE n == Len(lru_)
           x == [key |-> key, id |-> calls + 1]
           list == <<x>> \o lru_
           c == C!With(cache_, key, [data |-> item, lru_it |-> calls + 1])
           p == PlaceOf(lru_, key, max_size_)
<1>0. CacheInv /\ max_size_ \in Nat /\ n <= max_size_
  BY DEF LruInv
<1>1. /\ lru_ \in Seq(Node) /\ DOMAIN lru_ = 1 .. n /\ n \in Nat
      /\ \A i, j \in DOMAIN lru_ : lru_[i].key = lru_[j].key => i = j
      /\ \A i \in DOMAIN lru_ : lru_[i].key \in DOMAIN cache_ /\ lru_[i] \in Node
      /\ \A k \in DOMAIN cache_ : \E i \in DOMAIN lru_ : lru_[i].key = k
      /\ n = Cardinality(DOMAIN cache_) /\ IsFiniteSet(DOMAIN cache_)
  BY <1>0, ListFacts
<1>2. Fronted(list, x)
  BY <1>0, NewNode
<1>3. x.key = key
  OBVIOUS
<1>4. /\ DOMAIN c = DOMAIN cache_ \cup {key}
      /\ key \in DOMAIN cache_ => lru_' = C!Erased(list, cache_[key].lru_it)
      /\ key \notin DOMAIN cache_ /\ C!Cardinality(DOMAIN c) > max_size_ => lru_' = C!Front(list)
      /\ key \notin DOMAIN cache_ /\ ~ (C!Cardinality(DOMAIN c) > max_size_) => lru_' = list
  BY DEF C!GoodInsert, C!With
<1> HIDE DEF x, list
<1>5. /\ list \in Seq(Node) /\ DOMAIN list = 1 .. (n + 1) /\ Len(list) = n + 1 /\ list[1] = x
      /\ \A i \in DOMAIN list : i # 1 => i - 1 \in DOMAIN lru_ /\ list[i] = lru_[i - 1]
  <2>1. list \in Seq(Node) /\ Len(list) = n + 1
    BY <1>2 DEF Fronted
  <2>2. DOMAIN list = 1 .. (n + 1)
    BY <2>1
  <2> QED
    BY <1>2, <2>1, <2>2 DEF Fronted
<1>6. CASE key \in DOMAIN cache_
  <2> DEFINE id == cache_[key].lru_it
             q == CHOOSE m \in DOMAIN list : list[m].id = id
  <2>1. p \in DOMAIN lru_ /\ lru_[p].key = key
    BY <1>1, <1>6 DEF PlaceOf
  <2>2. lru_[p].id = id
    BY <1>0, <2>1 DEF CacheInv, Agree
  <2>3. p \in Nat \ {0} /\ p + 1 \in DOMAIN list /\ list[p + 1] = lru_[p]
    BY <1>2, <2>1 DEF Fronted
  <2>4. q \in DOMAIN list /\ list[q].id = id
    BY <2>2, <2>3
  <2>5. q = p + 1
    BY <1>2, <2>2, <2>3, <2>4 DEF Fronted
  <2>6. lru_' = RemoveAt(list, q)
    BY <1>4, <1>6 DEF C!Erased, C!RemoveAt, RemoveAt
  <2> HIDE DEF q, p
  <2>7. Lacks(lru_', list, q)
    BY <1>5, <2>4, <2>6, NodeRemoved
  <2>8. lru_' \in Seq(Node) /\ Len(lru_') = n
    BY <1>1, <1>5, <2>7 DEF Lacks
  <2>9. DOMAIN lru_' = 1 .. n /\ p \in 1 .. n
    BY <1>1, <2>1, <2>8
  <2>10. \A i \in DOMAIN lru_' :
           \/ i < q /\ i \in DOMAIN list /\ lru_'[i] = list[i]
           \/ i >= q /\ i \in Nat /\ i + 1 \in DOMAIN list /\ lru_'[i] = list[i + 1]
    BY <2>7 DEF Lacks
  <2>11. ASSUME NEW i \in 1 .. n
         PROVE  lru_'[i] = IF i = 1 THEN x ELSE IF i <= p THEN lru_[i - 1] ELSE lru_[i]
    <3>1. i \in DOMAIN lru_' /\ i \in Nat /\ i >= 1
      BY <2>9
    <3>2. CASE i < q
      <4>1. i <= p /\ lru_'[i] = list[i] /\ i \in DOMAIN list
        BY <2>3, <2>5, <2>10, <3>1, <3>2
      <4> QED
        BY <1>5, <4>1
    <3>3. CASE ~ (i < q)
      <4>1. i + 1 \in DOMAIN list /\ lru_'[i] = list[i + 1]
        BY <2>10, <3>1, <3>3
      <4>2. ~ (i <= p) /\ i + 1 # 1 /\ (i + 1) - 1 = i /\ i # 1
        BY <2>3, <2>5, <3>1, <3>3
      <4>3. list[i + 1] = lru_[(i + 1) - 1]
        BY <1>5, <4>1, <4>2
      <4> QED
        BY <4>1, <4>2, <4>3
    <3> QED
      BY <3>2, <3>3
  <2>12. ~ (p > n) /\ 1 \in 1 .. n
    BY <1>1, <2>9
  <2>13. FrontMoved(lru_', lru_, p, key)
    BY <1>3, <2>8, <2>9, <2>11, <2>12 DEF FrontMoved
  <2> QED
    BY <2>13 DEF p
<1>7. CASE key \notin DOMAIN cache_
  <2>1. ~ \E i \in DOMAIN lru_ : lru_[i].key = key
    BY <1>1, <1>7
  <2>2. p = IF n < max_size_ THEN n + 1 ELSE n
    BY <2>1 DEF PlaceOf
  <2>3. Cardinality(DOMAIN c) = n + 1
    <3>1. DOMAIN c = DOMAIN cache_ \cup {key}
      BY <1>4
    <3> HIDE DEF c
    <3> QED
      BY <1>1, <1>7, <3>1, FS_AddElement
  <2>4. C!Cardinality(DOMAIN c) = n + 1
    <3> HIDE DEF c
    <3> QED
      BY <2>3 DEF C!Cardinality, Cardinality
  <2> HIDE DEF p, c
  <2>5. CASE n < max_size_
    <3>1. lru_' = list /\ p = n + 1 /\ p > n /\ 1 \in 1 .. (n + 1)
      BY <1>0, <1>1, <1>4, <1>7, <2>2, <2>4, <2>5
    <3>2. \A i \in DOMAIN list : i <= p
      BY <1>1, <1>5, <3>1
    <3>3. FrontMoved(lru_', lru_, p, key)
      BY <1>3, <1>5, <3>1, <3>2 DEF FrontMoved
    <3> QED
      BY <3>3 DEF p
  <2>6. CASE ~ (n < max_size_)
    <3>1. lru_' = Front(list) /\ p = n /\ ~ (p > n) /\ 1 \in 1 .. n
      <4>1. C!Cardinality(DOMAIN c) > max_size_ /\ p = n /\ ~ (p > n) /\ 1 \in 1 .. n
        BY <1>0, <1>1, <2>2, <2>4, <2>6
      <4> QED
        BY <1>4, <1>7, <4>1 DEF C!Front, Front
    <3>2. list # << >>
      BY <1>1, <1>5, EmptySeq
    <3>3. /\ lru_' \in Seq(Node) /\ Len(lru_') = (n + 1) - 1
          /\ \A i \in DOMAIN lru_' : i \in DOMAIN list /\ lru_'[i] = list[i]
      BY <1>5, <3>1, <3>2, FrontElements
    <3>4. DOMAIN lru_' = 1 .. n
      BY <1>1, <3>3
    <3>5. \A i \in DOMAIN lru_' : i <= p
      BY <1>1, <3>1, <3>4
    <3>6. FrontMoved(lru_', lru_, p, key)
      BY <1>3, <1>5, <3>1, <3>3, <3>4, <3>5 DEF FrontMoved
    <3> QED
      BY <3>6 DEF p
  <2> QED
    BY <2>5, <2>6
<1> QED
  BY <1>6, <1>7

\* Where a node that stays behind the first one comes from.
From(i, p) == IF i <= p THEN i - 1 ELSE i

\* The nodes that stay have other keys, keep their order and fit.
Stays(new, p, key) ==
  /\ \A i \in DOMAIN new : i # 1 => /\ i \in Nat /\ From(i, p) \in DOMAIN lru_
                                    /\ new[i] = lru_[From(i, p)] /\ lru_[From(i, p)].key # key
  /\ \A i, j \in DOMAIN new : i # 1 /\ i < j => j # 1 /\ From(i, p) < From(j, p)
  /\ Len(new) <= max_size_

\* Both follow from the place insert() gives up.
LEMMA MovedFrom ==
  ASSUME LruInv, max_size_ # 0, NEW key, NEW p, p = PlaceOf(lru_, key, max_size_),
         NEW new, FrontMoved(new, lru_, p, key)
  PROVE  Stays(new, p, key)
<1> DEFINE n == Len(lru_)
           m == IF p > n THEN p ELSE n
<1>1. /\ DOMAIN lru_ = 1 .. n /\ n \in Nat
      /\ \A i, j \in DOMAIN lru_ : lru_[i].key = lru_[j].key => i = j
  BY ListFacts DEF LruInv
<1>2. max_size_ \in Nat /\ n <= max_size_
  BY DEF LruInv
<1>3. /\ DOMAIN new = 1 .. m /\ new \in Seq(Node)
      /\ \A i \in DOMAIN new : i # 1 => new[i] = lru_[From(i, p)]
  BY DEF FrontMoved, From
<1>4. \/ p \in 1 .. n /\ lru_[p].key = key
      \/ /\ \A i \in DOMAIN lru_ : lru_[i].key # key
         /\ p = IF n < max_size_ THEN n + 1 ELSE n
  <2>1. CASE \E i \in DOMAIN lru_ : lru_[i].key = key
    BY <1>1, <2>1 DEF PlaceOf
  <2>2. CASE ~ \E i \in DOMAIN lru_ : lru_[i].key = key
    BY <2>2 DEF PlaceOf
  <2> QED
    BY <2>1, <2>2
<1> HIDE DEF n
<1>5. p \in Nat /\ p >= 0 /\ p <= n + 1 /\ m \in Nat /\ m <= max_size_
      /\ \A i \in 1 .. m : i # 1 => From(i, p) \in 1 .. n /\ From(i, p) # p
  <2>1. p \in Nat /\ p <= n + 1 /\ m \in Nat /\ m <= max_size_
    BY <1>1, <1>2, <1>4
  <2>2. (p = n + 1 /\ m = n + 1) \/ (p <= n /\ m = n)
    BY <1>1, <1>4, <2>1
  <2>3. ASSUME NEW i \in 1 .. m, i # 1 PROVE From(i, p) \in 1 .. n /\ From(i, p) # p
    BY <1>1, <2>1, <2>2, <2>3 DEF From
  <2> QED
    BY <2>1, <2>3
<1> HIDE DEF m
<1>6. ASSUME NEW i \in DOMAIN new, i # 1
      PROVE  /\ i \in Nat /\ From(i, p) \in DOMAIN lru_
             /\ new[i] = lru_[From(i, p)] /\ lru_[From(i, p)].key # key
  <2>1. i \in Nat /\ i \in 1 .. m
    BY <1>3, <1>5
  <2>2. From(i, p) \in DOMAIN lru_ /\ From(i, p) # p
    BY <1>1, <1>5, <1>6, <2>1
  <2>3. lru_[From(i, p)].key # key
    BY <1>1, <1>4, <2>2
  <2> QED
    BY <1>3, <1>6, <2>1, <2>2, <2>3
<1>7. ASSUME NEW i \in DOMAIN new, NEW j \in DOMAIN new, i # 1, i < j
      PROVE  j # 1 /\ From(i, p) < From(j, p)
  <2>1. i \in Nat /\ j \in Nat /\ i >= 1 /\ j >= 1
    BY <1>3, <1>5
  <2> QED
    BY <1>5, <1>7, <2>1 DEF From
<1>8. Len(new) = m
  BY <1>3, <1>5
<1> QED
  BY <1>5, <1>6, <1>7, <1>8 DEF Stays

\* What insert() leaves in the two maps: the same keys, with the one inserted
\* stamped last and nothing else changed.
Stamps(key, item) ==
  /\ DOMAIN stamped' = DOMAIN cache_' /\ generation_' \in Nat /\ generation_ < generation_'
  /\ key \in DOMAIN stamped' /\ stamped'[key] \in [data : CacheItems, gen : Nat]
  /\ stamped'[key].gen = generation_' /\ cache_'[key].data = item
  /\ stamped'[key].data = IF key \in DOMAIN stamped THEN stamped[key].data ELSE item
  /\ \A k \in DOMAIN stamped' : k # key =>
       k \in DOMAIN stamped /\ stamped'[k] = stamped[k] /\ cache_'[k] = cache_[k]

\* Both caches drop the same key: the last of the list has the least stamp.
LEMMA InsertStamps ==
  ASSUME LruInv, max_size_ # 0, NEW key \in Keys, NEW item \in CacheItems,
         C!BadInsert(key, item), C!GoodInsert(key, item)
  PROVE  Stamps(key, item)
<1> DEFINE g == generation_
           c == C!With(cache_, key, [data |-> item, lru_it |-> calls + 1])
           d == C!With(stamped, key, [data |-> item, gen |-> g + 1])
           R == [data : CacheItems, gen : Nat]
<1>0. /\ CacheInv /\ DOMAIN stamped = DOMAIN cache_ /\ g \in Nat /\ max_size_ \in Nat
      /\ Len(lru_) <= max_size_
      /\ \A k \in DOMAIN stamped : stamped[k] \in R /\ stamped[k].gen \in Nat /\ stamped[k].gen <= g
      /\ \A i, j \in DOMAIN lru_ : i < j => stamped[lru_[i].key].gen > stamped[lru_[j].key].gen
  BY DEF LruInv
<1>1. /\ DOMAIN c = DOMAIN cache_ \cup {key} /\ c[key].data = item
      /\ \A k \in DOMAIN cache_ : k # key => c[k] = cache_[k]
  BY DEF C!With
<1>2. /\ DOMAIN d = DOMAIN stamped \cup {key} /\ d[key] = [data |-> item, gen |-> g + 1]
      /\ \A k \in DOMAIN stamped : k # key => d[k] = stamped[k]
  BY DEF C!With
<1>3. CASE key \in DOMAIN stamped
  <2>1. /\ generation_' = g + 2 /\ stamped' = [stamped EXCEPT ![key].gen = g + 2]
        /\ cache_' = c
    BY <1>0, <1>3 DEF C!BadInsert, C!GoodInsert
  <2> HIDE DEF c, d
  <2>2. /\ DOMAIN stamped' = DOMAIN stamped
        /\ stamped'[key] = [stamped[key] EXCEPT !.gen = g + 2]
        /\ \A k \in DOMAIN stamped : k # key => stamped'[k] = stamped[k]
    BY <1>3, <2>1
  <2>3. /\ stamped'[key] \in R /\ stamped'[key].gen = g + 2 /\ stamped'[key].data = stamped[key].data
    <3>1. stamped[key] \in R /\ g + 2 \in Nat
      BY <1>0, <1>3
    <3> QED
      BY <2>2, <3>1
  <2>4. DOMAIN stamped' = DOMAIN cache_'
    BY <1>0, <1>1, <1>3, <2>1, <2>2
  <2>5. generation_' \in Nat /\ g < generation_'
    BY <1>0, <2>1
  <2> QED
    BY <1>0, <1>1, <1>3, <2>1, <2>2, <2>3, <2>4, <2>5 DEF Stamps
<1>4. CASE key \notin DOMAIN stamped
  <2>1. /\ generation_' = g + 1
        /\ stamped' = IF C!Cardinality(DOMAIN d) > max_size_ THEN C!Without(d, C!Victim(d)) ELSE d
    BY <1>4 DEF C!BadInsert
  <2>2. cache_' = IF C!Cardinality(DOMAIN c) > max_size_
                  THEN C!Without(c, C!Last(<<[key |-> key, id |-> calls + 1]>> \o lru_).key) ELSE c
    BY <1>0, <1>4 DEF C!GoodInsert
  <2>3. DOMAIN c = DOMAIN d
    BY <1>0, <1>1, <1>2
  <2> HIDE DEF c, d
  <2>4. /\ d[key] \in R /\ d[key].gen = g + 1 /\ d[key].data = item /\ g + 1 \in Nat /\ g < g + 1
    BY <1>0, <1>2
  <2>5. CASE ~ (C!Cardinality(DOMAIN d) > max_size_)
    <3>1. stamped' = d /\ cache_' = c
      BY <2>1, <2>2, <2>3, <2>5
    <3> QED
      BY <1>0, <1>1, <1>2, <1>4, <2>1, <2>3, <2>4, <3>1 DEF Stamps
  <2>6. CASE C!Cardinality(DOMAIN d) > max_size_
    <3> DEFINE x == [key |-> key, id |-> calls + 1]
               list == <<x>> \o lru_
               n == Len(lru_)
               v == lru_[n].key
    <3>1. /\ lru_ \in Seq(Node) /\ DOMAIN lru_ = 1 .. n /\ n \in Nat
          /\ \A i \in DOMAIN lru_ : lru_[i].key \in DOMAIN cache_
          /\ \A k \in DOMAIN cache_ : \E i \in DOMAIN lru_ : lru_[i].key = k
          /\ n = Cardinality(DOMAIN cache_) /\ IsFiniteSet(DOMAIN cache_)
      BY <1>0, ListFacts
    <3>2. Cardinality(DOMAIN d) = n + 1
      <4>1. DOMAIN d = DOMAIN cache_ \cup {key} /\ key \notin DOMAIN cache_
        BY <1>0, <1>2, <1>4
      <4>2. IsFiniteSet(DOMAIN cache_) /\ Cardinality(DOMAIN cache_) = n
        BY <3>1
      <4> HIDE DEF n
      <4>3. Cardinality(DOMAIN cache_ \cup {key}) = n + 1
        BY <4>1, <4>2, FS_AddElement
      <4> QED
        BY <4>1, <4>3
    <3>3. n = max_size_ /\ n \in DOMAIN lru_
      <4>1. C!Cardinality(DOMAIN d) = n + 1
        BY <3>2 DEF C!Cardinality, Cardinality
      <4> QED
        BY <1>0, <2>6, <3>1, <4>1
    <3>4. Fronted(list, x)
      BY <1>0, NewNode
    <3>5. C!Last(list) = lru_[n]
      <4>0. C!Last(list) = list[Len(list)]
        BY DEF C!Last
      <4> HIDE DEF list, x
      <4>1. Len(list) = n + 1 /\ list[n + 1] = lru_[n]
        BY <3>3, <3>4 DEF Fronted
      <4> QED
        BY <4>0, <4>1
    <3> HIDE DEF list
    <3>6. v \in DOMAIN stamped /\ v # key
      BY <1>0, <1>4, <3>1, <3>3
    <3>7. \A k \in DOMAIN d : k # v => d[v].gen < d[k].gen /\ d[k].gen \in Nat /\ d[v].gen \in Nat
      <4> SUFFICES ASSUME NEW k \in DOMAIN d, k # v
                   PROVE  d[v].gen < d[k].gen /\ d[k].gen \in Nat /\ d[v].gen \in Nat
        OBVIOUS
      <4>1. d[v].gen = stamped[v].gen /\ stamped[v].gen \in Nat /\ stamped[v].gen <= g
        BY <1>0, <1>2, <3>6
      <4>2. CASE k = key
        BY <1>0, <2>4, <4>1, <4>2
      <4>3. CASE k # key
        <5>1. k \in DOMAIN stamped /\ d[k].gen = stamped[k].gen /\ stamped[k].gen \in Nat
          BY <1>0, <1>2, <4>3
        <5>2. PICK i \in DOMAIN lru_ : lru_[i].key = k
          BY <1>0, <3>1, <5>1
        <5>3. i < n
          BY <3>1, <5>2
        <5>4. stamped[k].gen > stamped[v].gen
          BY <1>0, <3>3, <5>2, <5>3
        <5> QED
          BY <4>1, <5>1, <5>4
      <4> QED
        BY <4>2, <4>3
    <3>8. C!Victim(d) = v
      <4>1. v \in DOMAIN d /\ \A j \in DOMAIN d : d[v].gen <= d[j].gen
        <5>1. v \in DOMAIN d /\ d[v].gen \in Nat
          BY <1>0, <1>2, <3>6
        <5> HIDE DEF v
        <5> QED
          BY <3>7, <5>1
      <4>2. \A k \in DOMAIN d : (\A j \in DOMAIN d : d[k].gen <= d[j].gen) => k = v
        <5> HIDE DEF v
        <5>1. \A k \in DOMAIN d : k # v => ~ (d[k].gen <= d[v].gen)
          BY <3>7
        <5> QED
          BY <4>1, <5>1
      <4> HIDE DEF v
      <4> QED
        BY <4>1, <4>2 DEF C!Victim
    <3>9. stamped' = C!Without(d, v) /\ cache_' = C!Without(c, v)
      BY <2>1, <2>2, <2>3, <2>6, <3>5, <3>8 DEF list
    <3> HIDE DEF v, n, x
    <3>10. /\ DOMAIN stamped' = DOMAIN d \ {v} /\ DOMAIN cache_' = DOMAIN c \ {v}
           /\ \A k \in DOMAIN d \ {v} : stamped'[k] = d[k]
           /\ \A k \in DOMAIN c \ {v} : cache_'[k] = c[k]
      BY <3>9 DEF C!Without
    <3>11. key \in DOMAIN stamped' /\ stamped'[key] = d[key] /\ cache_'[key] = c[key]
           /\ DOMAIN stamped' = DOMAIN cache_'
      BY <1>1, <1>2, <2>3, <3>6, <3>10
    <3>12. \A k \in DOMAIN stamped' : k # key =>
             k \in DOMAIN stamped /\ stamped'[k] = stamped[k] /\ cache_'[k] = cache_[k]
      BY <1>0, <1>1, <1>2, <2>3, <3>10
    <3> QED
      BY <1>1, <1>4, <2>1, <2>4, <3>11, <3>12, <1>0 DEF Stamps
  <2> QED
    BY <2>5, <2>6
<1> QED
  BY <1>3, <1>4

\* insert() keeps the list in the order of the stamps.
LEMMA InsertOrders ==
  ASSUME LruInv, CacheInv', max_size_ # 0, max_size_' = max_size_, NEW key \in Keys,
         NEW item \in CacheItems, C!BadInsert(key, item), C!GoodInsert(key, item)
  PROVE  LruInv'
<1> DEFINE p == PlaceOf(lru_, key, max_size_)
           R == [data : CacheItems, gen : Nat]
<1>1. FrontMoved(lru_', lru_, p, key)
  BY InsertMoves
<1>2. Stays(lru_', p, key)
  BY <1>1, MovedFrom
<1> HIDE DEF p
<1>3. Stamps(key, item)
  BY InsertStamps
<1>4. /\ max_size_ \in Nat /\ generation_ \in Nat
      /\ \A k \in DOMAIN stamped : stamped[k] \in R /\ stamped[k].gen <= generation_
      /\ \A k \in DOMAIN stamped : stamped[k].gen \in Nat
      /\ \A i, j \in DOMAIN lru_ : i < j => stamped[lru_[i].key].gen > stamped[lru_[j].key].gen
  BY DEF LruInv
<1>5. /\ DOMAIN lru_' \subseteq Nat /\ lru_'[1].key = key
      /\ \A i \in DOMAIN lru_' : i >= 1 /\ lru_'[i].key \in DOMAIN cache_'
  <2>1. lru_' \in Seq(Node) /\ lru_'[1].key = key
    BY <1>1 DEF FrontMoved
  <2>2. \A i \in DOMAIN lru_' : lru_'[i].key \in DOMAIN cache_'
    BY DEF CacheInv, Agree
  <2> QED
    BY <2>1, <2>2
<1>6. ASSUME NEW k \in DOMAIN stamped'
      PROVE  stamped'[k] \in R /\ stamped'[k].gen <= generation_'
  <2>1. CASE k = key
    BY <1>3, <2>1 DEF Stamps
  <2>2. CASE k # key
    <3>1. k \in DOMAIN stamped /\ stamped'[k] = stamped[k]
      BY <1>3, <2>2 DEF Stamps
    <3> QED
      BY <1>3, <1>4, <3>1 DEF Stamps
  <2> QED
    BY <2>1, <2>2
<1>7. ASSUME NEW i \in DOMAIN lru_', NEW j \in DOMAIN lru_', i < j
      PROVE  stamped'[lru_'[i].key].gen > stamped'[lru_'[j].key].gen
  <2>1. j # 1 /\ i \in Nat /\ j \in Nat /\ i >= 1
    BY <1>5, <1>7
  <2>2. /\ From(j, p) \in DOMAIN lru_ /\ lru_'[j] = lru_[From(j, p)] /\ lru_[From(j, p)].key # key
    BY <1>2, <2>1 DEF Stays
  <2>3. \A k \in DOMAIN lru_' : lru_'[k].key \in DOMAIN stamped'
    BY <1>3, <1>5 DEF Stamps
  <2>4. /\ lru_'[j].key \in DOMAIN stamped
        /\ stamped'[lru_'[j].key] = stamped[lru_'[j].key]
    BY <1>3, <2>2, <2>3 DEF Stamps
  <2>5. CASE i = 1
    <3>1. stamped'[key].gen = generation_' /\ generation_ < generation_' /\ generation_' \in Nat
      BY <1>3 DEF Stamps
    <3>2. stamped[lru_'[j].key].gen \in Nat /\ stamped[lru_'[j].key].gen <= generation_
      BY <1>4, <2>4
    <3>3. stamped'[lru_'[i].key].gen = generation_'
      BY <1>5, <2>5, <3>1
    <3>4. generation_' > stamped[lru_'[j].key].gen
      <4> DEFINE z == stamped[lru_'[j].key].gen
      <4>1. z \in Nat /\ z <= generation_
        BY <3>2
      <4> HIDE DEF z
      <4>2. generation_' > z
        BY <1>4, <3>1, <4>1
      <4> QED
        BY <4>2 DEF z
    <3> QED
      BY <2>4, <3>3, <3>4
  <2>6. CASE i # 1
    <3>1. /\ From(i, p) \in DOMAIN lru_ /\ lru_'[i] = lru_[From(i, p)] /\ lru_[From(i, p)].key # key
          /\ From(i, p) < From(j, p)
      BY <1>2, <1>7, <2>6 DEF Stays
    <3>2. stamped'[lru_'[i].key] = stamped[lru_'[i].key]
      BY <1>3, <2>3, <3>1 DEF Stamps
    <3>3. stamped[lru_[From(i, p)].key].gen > stamped[lru_[From(j, p)].key].gen
      BY <1>4, <2>2, <3>1
    <3> QED
      BY <2>2, <2>4, <3>1, <3>2, <3>3
  <2> QED
    BY <2>5, <2>6
<1>8. Len(lru_') <= max_size_
  BY <1>2 DEF Stays
<1>9. DOMAIN stamped' = DOMAIN cache_' /\ generation_' \in Nat
  BY <1>3 DEF Stamps
<1> QED
  BY <1>4, <1>6, <1>7, <1>8, <1>9 DEF LruInv

\* Keys in the order of their stamps, the latest first.
Falling(s, gen) == \A i, j \in DOMAIN s : i < j => gen[s[i]] > gen[s[j]]

\* As many of the keys X as there are, in that order.
Latest(s, n, X, gen) == /\ n \in Nat /\ IsFiniteSet(X) /\ Cardinality(X) = n /\ gen \in [X -> Nat]
                        /\ s \in [1 .. n -> X] /\ Falling(s, gen)

\* They are all of the keys.
LEMMA LatestOnto ==
  ASSUME NEW n, NEW X, NEW gen, NEW s, Latest(s, n, X, gen), NEW k \in X
  PROVE  \E i \in 1 .. n : s[i] = k
<1>0. /\ n \in Nat /\ IsFiniteSet(X) /\ Cardinality(X) = n /\ gen \in [X -> Nat]
      /\ s \in [1 .. n -> X] /\ Falling(s, gen)
  BY DEF Latest
<1> SUFFICES ASSUME \A i \in 1 .. n : s[i] # k PROVE FALSE
  OBVIOUS
<1> DEFINE T == X \ {k}
           D == 1 .. n
<1>1. s \in [D -> T]
  BY <1>0
<1>2. IsFiniteSet(T) /\ Cardinality(T) = n - 1
  BY <1>0, FS_RemoveElement
<1>3. IsFiniteSet(D) /\ Cardinality(D) = n
  <2>1. 1 \in Int /\ n \in Int
    BY <1>0
  <2>2. IsFiniteSet(D) /\ Cardinality(D) = IF 1 > n THEN 0 ELSE n - 1 + 1
    BY <2>1, FS_Interval
  <2> QED
    BY <1>0, <2>2
<1>4. Cardinality(T) < Cardinality(D)
  BY <1>0, <1>2, <1>3
<1> HIDE DEF T, D
<1>5. PICK i \in D, j \in D : i # j /\ s[i] = s[j]
  BY <1>1, <1>2, <1>3, <1>4, FS_PigeonHole
<1>6. i \in DOMAIN s /\ j \in DOMAIN s /\ i \in Nat /\ j \in Nat
  BY <1>0, <1>5 DEF D
<1>7. i < j \/ j < i
  BY <1>5, <1>6
<1>8. gen[s[i]] > gen[s[j]] \/ gen[s[j]] > gen[s[i]]
  BY <1>0, <1>6, <1>7 DEF Falling
<1>9. s[i] \in X /\ gen[s[i]] \in Nat
  BY <1>0, <1>6
<1> QED
  BY <1>5, <1>8, <1>9

\* There is one such order.
LEMMA FallingUnique ==
  ASSUME NEW n \in Nat, NEW X, IsFiniteSet(X), Cardinality(X) = n, NEW gen \in [X -> Nat],
         NEW s \in [1 .. n -> X], Falling(s, gen), NEW t \in [1 .. n -> X], Falling(t, gen)
  PROVE  s = t
<1> DEFINE Bad == {i \in 1 .. n : s[i] # t[i]}
<1> SUFFICES \A i \in 1 .. n : s[i] = t[i]
  OBVIOUS
<1>1. SUFFICES ASSUME Bad # {} PROVE FALSE
  OBVIOUS
<1>2. PICK i \in Bad : \A j \in Bad : i <= j
  <2>1. Bad \in SUBSET Nat
    OBVIOUS
  <2> HIDE DEF Bad
  <2> QED
    BY <1>1, <2>1, LeastOne
<1>3. i \in 1 .. n /\ i \in Nat /\ s[i] # t[i] /\ \A j \in 1 .. n : j < i => s[j] = t[j]
  BY <1>2
<1>4. s[i] \in X /\ t[i] \in X /\ gen[s[i]] \in Nat /\ gen[t[i]] \in Nat
  BY <1>3
<1>5. PICK j \in 1 .. n : t[j] = s[i]
  <2>1. Latest(t, n, X, gen)
    BY DEF Latest
  <2> QED
    BY <1>4, <2>1, LatestOnto
<1>6. PICK m \in 1 .. n : s[m] = t[i]
  <2>1. Latest(s, n, X, gen)
    BY DEF Latest
  <2> QED
    BY <1>4, <2>1, LatestOnto
<1>7. \A a, b \in 1 .. n : a < b => gen[s[a]] > gen[s[b]] /\ gen[t[a]] > gen[t[b]]
  BY DEF Falling
<1>8. \A a \in 1 .. n : a \in Nat /\ gen[s[a]] \in Nat /\ gen[t[a]] \in Nat
  OBVIOUS
<1>9. j > i
  <2>1. j # i
    BY <1>3, <1>5
  <2>2. ~ (j < i)
    <3> SUFFICES ASSUME j < i PROVE FALSE
      OBVIOUS
    <3>1. s[j] = s[i] /\ gen[s[j]] > gen[s[i]]
      BY <1>3, <1>5, <1>7
    <3> QED
      BY <1>4, <3>1
  <2> QED
    BY <1>3, <1>8, <2>1, <2>2
<1>10. m > i
  <2>1. m # i
    BY <1>3, <1>6
  <2>2. ~ (m < i)
    <3> SUFFICES ASSUME m < i PROVE FALSE
      OBVIOUS
    <3>1. t[m] = t[i] /\ gen[t[m]] > gen[t[i]]
      BY <1>3, <1>6, <1>7
    <3> QED
      BY <1>4, <3>1
  <2> QED
    BY <1>3, <1>8, <2>1, <2>2
<1>11. gen[t[i]] > gen[s[i]]
  BY <1>3, <1>5, <1>7, <1>9
<1>12. gen[s[i]] > gen[t[i]]
  BY <1>3, <1>6, <1>7, <1>10
<1> QED
  BY <1>4, <1>11, <1>12

\* The keys of a list.
KeysOf(list) == [i \in DOMAIN list |-> list[i].key]

\* The bad cache's keys by age are the good one's list.
LEMMA AgesListed ==
  ASSUME LruInv
  PROVE  C!ByAge = KeysOf(lru_)
<1> DEFINE X == DOMAIN stamped
           n == Len(lru_)
           gen == [k \in X |-> stamped[k].gen]
           t == KeysOf(lru_)
<1>1. /\ DOMAIN lru_ = 1 .. n /\ n \in Nat /\ n = Cardinality(X) /\ IsFiniteSet(X)
      /\ \A i \in DOMAIN lru_ : lru_[i].key \in X
  BY ListFacts DEF LruInv
<1>2. C!Cardinality(X) = n
  <2> HIDE DEF X, n
  <2> QED
    BY <1>1 DEF C!Cardinality, Cardinality
<1>3. C!ByAge = CHOOSE s \in [1 .. n -> X] :
                  \A i, j \in DOMAIN s : i < j => stamped[s[i]].gen > stamped[s[j]].gen
  BY <1>2 DEF C!ByAge
<1>4. gen \in [X -> Nat]
  BY DEF LruInv
<1>5. t \in [1 .. n -> X] /\ Falling(t, gen)
  <2>1. t \in [1 .. n -> X]
    BY <1>1 DEF KeysOf
  <2>2. \A i, j \in 1 .. n : i < j => stamped[t[i]].gen > stamped[t[j]].gen
    BY <1>1 DEF KeysOf, LruInv
  <2> HIDE DEF t
  <2> QED
    BY <2>1, <2>2 DEF Falling
<1>6. \A s \in [1 .. n -> X] :
        Falling(s, gen) <=> \A i, j \in DOMAIN s : i < j => stamped[s[i]].gen > stamped[s[j]].gen
  BY DEF Falling
<1> HIDE DEF gen, t, X, n
<1>7. \A s \in [1 .. n -> X] : Falling(s, gen) => s = t
  BY <1>1, <1>4, <1>5, FallingUnique
<1> QED
  BY <1>3, <1>5, <1>6, <1>7 DEF t

\* The entries of a cache with this list whose items are in d.
Shown(list, d) == [i \in DOMAIN list |-> <<list[i].key, d[list[i].key].data>>]

\* The entries of LeastRecentlyUsed that the caches implement.
GoodEntries == [i \in DOMAIN lru_ |-> <<lru_[i].key,
                  IF lru_[i].key \in DOMAIN cache_ THEN cache_[lru_[i].key].data ELSE lru_[i].key>>]
BadEntries == [i \in DOMAIN C!ByAge |-> <<C!ByAge[i], stamped[C!ByAge[i]].data>>]

\* Both caches have the entries of the list.
LEMMA EntriesShown ==
  ASSUME LruInv
  PROVE  GoodEntries = Shown(lru_, cache_) /\ BadEntries = Shown(lru_, stamped)
<1>1. \A i \in DOMAIN lru_ : lru_[i].key \in DOMAIN cache_
  BY ListFacts DEF LruInv
<1>2. GoodEntries = Shown(lru_, cache_)
  BY <1>1 DEF GoodEntries, Shown
<1>3. C!ByAge = KeysOf(lru_)
  BY AgesListed
<1>4. BadEntries = Shown(lru_, stamped)
  BY <1>3 DEF BadEntries, Shown, KeysOf
<1> QED
  BY <1>2, <1>4

\* The entries of both caches, as the list orders them.
Shows == GoodEntries = Shown(lru_, cache_) /\ BadEntries = Shown(lru_, stamped)

\* The invariant gives that.
LEMMA Showing == LruInv => Shows
BY EntriesShown DEF Shows

\* The same after a step.
LEMMA ShowingNext == LruInv' => Shows'
BY Showing, PTL

\* What the entries shown are.
LEMMA ShownFacts ==
  ASSUME NEW list \in Seq(Node), NEW d
  PROVE  /\ DOMAIN Shown(list, d) = DOMAIN list /\ Len(Shown(list, d)) = Len(list)
         /\ \A i \in DOMAIN list : /\ Shown(list, d)[i][1] = list[i].key
                                   /\ Shown(list, d)[i][2] = d[list[i].key].data
<1> DEFINE s == Shown(list, d)
           X == {s[i] : i \in DOMAIN list}
           n == Len(list)
<1>1. DOMAIN list = 1 .. n /\ n \in Nat
  OBVIOUS
<1>2. DOMAIN s = DOMAIN list /\ \A i \in DOMAIN list : s[i] = <<list[i].key, d[list[i].key].data>>
  BY DEF Shown
<1>3. s = [i \in DOMAIN list |-> s[i]]
  BY DEF Shown
<1> HIDE DEF s, n
<1>4. s \in [1 .. n -> X]
  BY <1>1, <1>2, <1>3
<1> HIDE DEF X
<1>5. s \in Seq(X)
  BY <1>1, <1>4
<1>6. Len(s) = n
  BY <1>1, <1>2, <1>5
<1> QED
  BY <1>2, <1>6 DEF s, n

\* The abstract insert(): the entry at place p makes way for e in front.
Entered(s, p, e) ==
  [i \in 1 .. (IF p > Len(s) THEN p ELSE Len(s)) |->
     IF i = 1 THEN e ELSE IF i <= p THEN s[i - 1] ELSE s[i]]

Knows(s, key) == \E i \in DOMAIN s : s[i][1] = key

PlaceIn(s, key) == CHOOSE i \in DOMAIN s : s[i][1] = key

Inserted(s, n, key, item, over) ==
  IF Knows(s, key)
  THEN Entered(s, PlaceIn(s, key), <<key, IF over THEN item ELSE s[PlaceIn(s, key)][2]>>)
  ELSE Entered(s, IF Len(s) < n THEN Len(s) + 1 ELSE Len(s), <<key, item>>)

\* The new list shows the entries with the first one put in front.
LEMMA InsertShown ==
  ASSUME NEW list \in Seq(Node), NEW new, NEW p, NEW key, FrontMoved(new, list, p, key),
         NEW d, NEW e,
         \A i \in DOMAIN new : i # 1 => /\ From(i, p) \in DOMAIN list
                                        /\ e[new[i].key].data = d[new[i].key].data
  PROVE  Shown(new, e) = Entered(Shown(list, d), p, <<key, e[key].data>>)
<1> DEFINE s == Shown(list, d)
           n == Len(list)
           m == IF p > n THEN p ELSE n
<1>1. /\ Len(s) = n
      /\ \A i \in DOMAIN list : s[i] = <<list[i].key, d[list[i].key].data>>
  BY ShownFacts DEF Shown
<1>2. /\ DOMAIN new = 1 .. m /\ new[1].key = key
      /\ \A i \in DOMAIN new : i # 1 => new[i] = IF i <= p THEN list[i - 1] ELSE list[i]
  BY DEF FrontMoved
<1>3. ASSUME NEW i \in 1 .. m
      PROVE  <<new[i].key, e[new[i].key].data>> =
               IF i = 1 THEN <<key, e[key].data>> ELSE IF i <= p THEN s[i - 1] ELSE s[i]
  <2> HIDE DEF m, s
  <2>1. CASE i = 1
    BY <1>2, <2>1
  <2>2. CASE i # 1
    <3>1. From(i, p) \in DOMAIN list /\ e[new[i].key].data = d[new[i].key].data
          /\ new[i] = list[From(i, p)]
      BY <1>2, <2>2 DEF From
    <3>2. s[From(i, p)] = <<new[i].key, e[new[i].key].data>>
      BY <1>1, <3>1
    <3> QED
      BY <2>2, <3>2 DEF From
  <2> QED
    BY <2>1, <2>2
<1>4. Shown(new, e) = [i \in 1 .. m |-> <<new[i].key, e[new[i].key].data>>]
  BY <1>2 DEF Shown
<1>5. Entered(s, p, <<key, e[key].data>>) =
        [i \in 1 .. m |-> IF i = 1 THEN <<key, e[key].data>> ELSE IF i <= p THEN s[i - 1] ELSE s[i]]
  BY <1>1 DEF Entered
<1> HIDE DEF m, s
<1> QED
  BY <1>3, <1>4, <1>5 DEF s

\* The item an insert() leaves the key with, when a known key is overwritten or not.
Item(key, d, item, over) ==
  IF (\E i \in DOMAIN lru_ : lru_[i].key = key) /\ ~ over THEN d[key].data ELSE item

\* The abstract insert() puts the new entry where the list does.
LEMMA InsertedAt ==
  ASSUME LruInv, NEW key, NEW item, NEW d, NEW over
  PROVE  Inserted(Shown(lru_, d), max_size_, key, item, over)
           = Entered(Shown(lru_, d), PlaceOf(lru_, key, max_size_), <<key, Item(key, d, item, over)>>)
<1> DEFINE s == Shown(lru_, d)
           n == Len(lru_)
<1>1. lru_ \in Seq(Node)
  BY ListFacts DEF LruInv
<1>2. /\ DOMAIN s = DOMAIN lru_ /\ Len(s) = n
      /\ \A i \in DOMAIN lru_ : s[i][1] = lru_[i].key /\ s[i][2] = d[lru_[i].key].data
  BY <1>1, ShownFacts
<1> HIDE DEF s
<1>3. Knows(s, key) <=> \E i \in DOMAIN lru_ : lru_[i].key = key
  BY <1>2 DEF Knows
<1>4. CASE Knows(s, key)
  <2>1. PlaceIn(s, key) = CHOOSE i \in DOMAIN lru_ : lru_[i].key = key
    BY <1>2 DEF PlaceIn
  <2>2. PlaceIn(s, key) = PlaceOf(lru_, key, max_size_)
    BY <1>3, <1>4, <2>1 DEF PlaceOf
  <2>3. PlaceIn(s, key) \in DOMAIN lru_ /\ lru_[PlaceIn(s, key)].key = key
    BY <1>3, <1>4, <2>1
  <2>4. s[PlaceIn(s, key)][2] = d[key].data
    BY <1>2, <2>3
  <2>5. Item(key, d, item, over) = IF over THEN item ELSE d[key].data
    BY <1>3, <1>4 DEF Item
  <2> HIDE DEF n
  <2>6. Inserted(s, max_size_, key, item, over) =
          Entered(s, PlaceOf(lru_, key, max_size_), <<key, Item(key, d, item, over)>>)
    BY <1>4, <2>2, <2>4, <2>5 DEF Inserted
  <2> QED
    BY <2>6 DEF s
<1>5. CASE ~ Knows(s, key)
  <2>1. PlaceOf(lru_, key, max_size_) = IF n < max_size_ THEN n + 1 ELSE n
    BY <1>3, <1>5 DEF PlaceOf
  <2>2. Item(key, d, item, over) = item
    BY <1>3, <1>5 DEF Item
  <2>3. Inserted(s, max_size_, key, item, over) =
          Entered(s, PlaceOf(lru_, key, max_size_), <<key, Item(key, d, item, over)>>)
    BY <1>2, <1>5, <2>1, <2>2 DEF Inserted
  <2> QED
    BY <2>3 DEF s
<1> QED
  BY <1>4, <1>5

\* insert() into caches that keep something inserts into the entries of both.
LEMMA InsertEnters ==
  ASSUME LruInv, LruInv', max_size_ # 0, NEW key \in Keys, NEW item \in CacheItems,
         C!BadInsert(key, item), C!GoodInsert(key, item)
  PROVE  /\ GoodEntries' = Inserted(GoodEntries, max_size_, key, item, TRUE)
         /\ BadEntries' = Inserted(BadEntries, max_size_, key, item, FALSE)
<1> DEFINE p == PlaceOf(lru_, key, max_size_)
<1>1. Shows /\ Shows'
  BY Showing, ShowingNext
<1>2. FrontMoved(lru_', lru_, p, key)
  BY InsertMoves
<1>3. Stays(lru_', p, key)
  BY <1>2, MovedFrom
<1>4. Stamps(key, item)
  BY InsertStamps
<1>5. /\ lru_ \in Seq(Node) /\ DOMAIN stamped = DOMAIN cache_
      /\ (\E i \in DOMAIN lru_ : lru_[i].key = key) <=> key \in DOMAIN cache_
  <2>1. CacheInv /\ DOMAIN stamped = DOMAIN cache_
    BY DEF LruInv
  <2> QED
    BY <2>1, ListFacts
<1>6. /\ \A i \in DOMAIN lru_' : lru_'[i].key \in DOMAIN stamped'
  BY <1>4 DEF LruInv, CacheInv, Agree, Stamps
<1>7. Item(key, cache_, item, TRUE) = cache_'[key].data
  BY <1>4 DEF Item, Stamps
<1>8. Item(key, stamped, item, FALSE) = stamped'[key].data
  BY <1>4, <1>5 DEF Item, Stamps
<1> HIDE DEF p
<1>9. \A i \in DOMAIN lru_' : i # 1 => /\ From(i, p) \in DOMAIN lru_
                                      /\ cache_'[lru_'[i].key].data = cache_[lru_'[i].key].data
                                      /\ stamped'[lru_'[i].key].data = stamped[lru_'[i].key].data
  BY <1>3, <1>4, <1>6 DEF Stays, Stamps
<1>10. Shown(lru_', cache_') = Entered(Shown(lru_, cache_), p, <<key, cache_'[key].data>>)
  BY <1>2, <1>5, <1>9, InsertShown
<1>11. Shown(lru_', stamped') = Entered(Shown(lru_, stamped), p, <<key, stamped'[key].data>>)
  BY <1>2, <1>5, <1>9, InsertShown
<1>12. Inserted(Shown(lru_, cache_), max_size_, key, item, TRUE) = Shown(lru_', cache_')
  BY <1>7, <1>10, InsertedAt DEF p
<1>13. Inserted(Shown(lru_, stamped), max_size_, key, item, FALSE) = Shown(lru_', stamped')
  BY <1>8, <1>11, InsertedAt DEF p
<1> QED
  BY <1>1, <1>12, <1>13 DEF Shows

\* Nothing is ever inserted into caches that keep nothing.
LEMMA NothingEnters ==
  ASSUME LruInv, max_size_ = 0, NEW key, NEW item
  PROVE  /\ GoodEntries = Inserted(GoodEntries, max_size_, key, item, TRUE)
         /\ BadEntries = Inserted(BadEntries, max_size_, key, item, FALSE)
<1>1. lru_ \in Seq(Node) /\ Len(lru_) = 0 /\ DOMAIN lru_ = {}
  <2>1. lru_ \in Seq(Node) /\ DOMAIN lru_ = 1 .. Len(lru_) /\ Len(lru_) \in Nat
    BY ListFacts DEF LruInv
  <2>2. Len(lru_) = 0
    BY <2>1 DEF LruInv
  <2> QED
    BY <2>1, <2>2
<1>2. ASSUME NEW d, NEW over PROVE Inserted(Shown(lru_, d), 0, key, item, over) = Shown(lru_, d)
  <2> DEFINE s == Shown(lru_, d)
  <2>1. DOMAIN s = {} /\ Len(s) = 0
    BY <1>1, ShownFacts
  <2>2. s = [i \in {} |-> s[i]]
    BY <2>1 DEF Shown
  <2> HIDE DEF s
  <2>3. ~ Knows(s, key)
    BY <2>1 DEF Knows
  <2>4. Inserted(s, 0, key, item, over) = Entered(s, 0, <<key, item>>)
    BY <2>1, <2>3 DEF Inserted
  <2>5. DOMAIN Entered(s, 0, <<key, item>>) = {}
    BY <2>1 DEF Entered
  <2>6. Entered(s, 0, <<key, item>>) = [i \in {} |-> s[i]]
    BY <2>1, <2>5 DEF Entered
  <2> QED
    BY <2>2, <2>4, <2>6 DEF s
<1>3. Shows
  BY Showing
<1> QED
  BY <1>2, <1>3 DEF Shows

\* The last call and its answer, and the entries of a cache at a key.
LEMMA FoundEntry ==
  ASSUME LruInv, NEW key, NEW d
  PROVE  /\ Knows(Shown(lru_, d), key) <=> key \in DOMAIN cache_
         /\ key \in DOMAIN cache_ => Shown(lru_, d)[PlaceIn(Shown(lru_, d), key)][2] = d[key].data
<1> DEFINE s == Shown(lru_, d)
<1>1. /\ lru_ \in Seq(Node) /\ \A i \in DOMAIN lru_ : lru_[i].key \in DOMAIN cache_
      /\ \A k \in DOMAIN cache_ : \E i \in DOMAIN lru_ : lru_[i].key = k
  BY ListFacts DEF LruInv
<1>2. /\ DOMAIN s = DOMAIN lru_
      /\ \A i \in DOMAIN lru_ : s[i][1] = lru_[i].key /\ s[i][2] = d[lru_[i].key].data
  BY <1>1, ShownFacts
<1> HIDE DEF s
<1>3. Knows(s, key) <=> key \in DOMAIN cache_
  BY <1>1, <1>2 DEF Knows
<1>4. ASSUME key \in DOMAIN cache_ PROVE s[PlaceIn(s, key)][2] = d[key].data
  <2>1. PlaceIn(s, key) \in DOMAIN s /\ s[PlaceIn(s, key)][1] = key
    BY <1>3, <1>4 DEF Knows, PlaceIn
  <2> QED
    BY <1>2, <2>1
<1> QED
  BY <1>3, <1>4 DEF s

\* The caches begin empty and in order.
LEMMA LruBegins == AllInit => LruInv
<1> SUFFICES ASSUME AllInit PROVE LruInv
  OBVIOUS
<1>1. CacheInv
  BY CacheBegins
<1>2. lru_ = << >> /\ cache_ = << >> /\ stamped = << >> /\ generation_ = 0 /\ max_size_ \in Nat
  BY CacheAssumption DEF AllInit, C!Init
<1>3. DOMAIN lru_ = {} /\ DOMAIN cache_ = {} /\ DOMAIN stamped = {} /\ Len(lru_) = 0
  BY <1>2
<1> QED
  BY <1>1, <1>2, <1>3 DEF LruInv

\* Every step keeps the list in the order of the stamps.
LEMMA LruStep == LruInv /\ [AllNext]_allVars => LruInv'
<1> SUFFICES ASSUME LruInv, [AllNext]_allVars PROVE LruInv'
  OBVIOUS
<1>1. C!Next \/ UNCHANGED cacheVars
  BY DEF AllNext, allVars
<1>2. CacheInv'
  BY CacheStep DEF LruInv
<1>3. CASE /\ max_size_' = max_size_ /\ stamped' = stamped /\ generation_' = generation_
           /\ lru_' = lru_ /\ cache_' = cache_
  BY <1>2, <1>3 DEF LruInv
<1>4. ASSUME NEW k \in Keys, C!Find(k) PROVE LruInv'
  BY <1>3, <1>4 DEF C!Find
<1>5. ASSUME NEW k \in Keys, NEW i \in CacheItems, C!Insert(k, i) PROVE LruInv'
  <2>1. CASE max_size_ # 0
    <3>1. C!BadInsert(k, i) /\ C!GoodInsert(k, i) /\ max_size_' = max_size_
      BY <1>5, <2>1 DEF C!Insert
    <3> QED
      BY <1>2, <2>1, <3>1, InsertOrders
  <2>2. CASE max_size_ = 0
    BY <1>3, <1>5, <2>2 DEF C!Insert
  <2> QED
    BY <2>1, <2>2
<1>6. ASSUME C!Clear PROVE LruInv'
  <2>1. /\ lru_' = << >> /\ cache_' = << >> /\ stamped' = << >>
        /\ generation_' = generation_ /\ max_size_' = max_size_
    BY <1>6 DEF C!Clear
  <2>2. DOMAIN lru_' = {} /\ DOMAIN cache_' = {} /\ DOMAIN stamped' = {} /\ Len(lru_') = 0
    BY <2>1
  <2>3. max_size_ \in Nat /\ generation_ \in Nat
    BY DEF LruInv
  <2> QED
    BY <1>2, <2>1, <2>2, <2>3 DEF LruInv
<1> QED
  BY <1>1, <1>3, <1>4, <1>5, <1>6 DEF C!Next, cacheVars

\* What the abstract caches do in a step, said of the entries of the two caches.
LruStepOf(old, new, said, says, over) ==
  \/ \E k \in Keys, i \in CacheItems :
       /\ new = Inserted(old, max_size_, k, i, over)
       /\ says = <<"insert", k, i>>
  \/ \E k \in Keys :
       /\ new = old
       /\ says = <<"find", k>> \o
                  (IF Knows(old, k) THEN <<old[PlaceIn(old, k)][2]>> ELSE << >>)
  \/ new = << >> /\ says = <<"clear">>
  \/ new = old /\ says = said

\* Every step of the caches is one of both abstract caches.
LEMMA CachesStep ==
  ASSUME LruInv, [AllNext]_allVars
  PROVE  /\ LruStepOf(GoodEntries, GoodEntries', goodOut, goodOut', TRUE)
         /\ LruStepOf(BadEntries, BadEntries', badOut, badOut', FALSE)
         /\ max_size_' = max_size_
<1>1. C!Next \/ UNCHANGED cacheVars
  BY DEF AllNext, allVars
<1>2. LruInv'
  BY LruStep
<1>3. Shows /\ Shows'
  BY <1>2, Showing, ShowingNext
<1>4. DOMAIN stamped = DOMAIN cache_
  BY DEF LruInv
<1>5. lru_' = lru_ /\ cache_' = cache_ /\ stamped' = stamped
        => GoodEntries' = GoodEntries /\ BadEntries' = BadEntries
  BY <1>3 DEF Shows
<1>6. ASSUME NEW k \in Keys, C!Find(k)
      PROVE  /\ LruStepOf(GoodEntries, GoodEntries', goodOut, goodOut', TRUE)
             /\ LruStepOf(BadEntries, BadEntries', badOut, badOut', FALSE)
             /\ max_size_' = max_size_
  <2>1. /\ lru_' = lru_ /\ cache_' = cache_ /\ stamped' = stamped /\ max_size_' = max_size_
        /\ goodOut' = <<"find", k>> \o C!GoodFound(k)
        /\ badOut' = <<"find", k>> \o C!BadFound(k)
    BY <1>6 DEF C!Find
  <2>2. C!GoodFound(k) = IF Knows(GoodEntries, k) THEN <<GoodEntries[PlaceIn(GoodEntries, k)][2]>>
                         ELSE << >>
    BY <1>3, FoundEntry DEF C!GoodFound, Shows
  <2>3. C!BadFound(k) = IF Knows(BadEntries, k) THEN <<BadEntries[PlaceIn(BadEntries, k)][2]>>
                        ELSE << >>
    BY <1>3, <1>4, FoundEntry DEF C!BadFound, Shows
  <2> QED
    BY <1>5, <2>1, <2>2, <2>3 DEF LruStepOf
<1>7. ASSUME NEW k \in Keys, NEW i \in CacheItems, C!Insert(k, i)
      PROVE  /\ LruStepOf(GoodEntries, GoodEntries', goodOut, goodOut', TRUE)
             /\ LruStepOf(BadEntries, BadEntries', badOut, badOut', FALSE)
             /\ max_size_' = max_size_
  <2>1. goodOut' = <<"insert", k, i>> /\ badOut' = <<"insert", k, i>> /\ max_size_' = max_size_
    BY <1>7 DEF C!Insert
  <2>2. /\ GoodEntries' = Inserted(GoodEntries, max_size_, k, i, TRUE)
        /\ BadEntries' = Inserted(BadEntries, max_size_, k, i, FALSE)
    <3>1. CASE max_size_ # 0
      <4>1. C!BadInsert(k, i) /\ C!GoodInsert(k, i)
        BY <1>7, <3>1 DEF C!Insert
      <4> QED
        BY <1>2, <3>1, <4>1, InsertEnters
    <3>2. CASE max_size_ = 0
      <4>1. lru_' = lru_ /\ cache_' = cache_ /\ stamped' = stamped
        BY <1>7, <3>2 DEF C!Insert
      <4> QED
        BY <1>5, <3>2, <4>1, NothingEnters
    <3> QED
      BY <3>1, <3>2
  <2> QED
    BY <2>1, <2>2 DEF LruStepOf
<1>8. ASSUME C!Clear
      PROVE  /\ LruStepOf(GoodEntries, GoodEntries', goodOut, goodOut', TRUE)
             /\ LruStepOf(BadEntries, BadEntries', badOut, badOut', FALSE)
             /\ max_size_' = max_size_
  <2>1. /\ lru_' = << >> /\ max_size_' = max_size_ /\ goodOut' = <<"clear">> /\ badOut' = <<"clear">>
    BY <1>8 DEF C!Clear
  <2>2. DOMAIN lru_' = {}
    BY <2>1
  <2>3. GoodEntries' = << >> /\ BadEntries' = << >>
    BY <1>3, <2>2 DEF Shows, Shown
  <2> QED
    BY <2>1, <2>3 DEF LruStepOf
<1>9. CASE UNCHANGED cacheVars
  BY <1>5, <1>9 DEF LruStepOf, cacheVars
<1> QED
  BY <1>1, <1>6, <1>7, <1>8, <1>9 DEF C!Next

\* For every size of the caches, every set of keys and items and any number of
\* calls, both caches keep, drop and answer as a least recently used cache does,
\* the bad one with the item that a key had when it entered.
THEOREM CachesRefine == AllSpec => CachesAreLru
<1>1. AllInit => LruInv
  BY LruBegins
<1>2. LruInv /\ [AllNext]_allVars => LruInv'
  BY LruStep
<1>3. AllInit => C!Good!Init /\ C!Bad!Init
  <2> SUFFICES ASSUME AllInit PROVE C!Good!Init /\ C!Bad!Init
    OBVIOUS
  <2>1. lru_ = << >> /\ badOut = << >> /\ goodOut = << >> /\ max_size_ \in Nat
    BY CacheAssumption DEF AllInit, C!Init
  <2>2. Shows
    BY LruBegins, Showing
  <2>3. GoodEntries = << >> /\ BadEntries = << >>
    BY <2>1, <2>2 DEF Shows, Shown
  <2>4. C!Good!Init
    BY <2>1, <2>3 DEF C!Good!Init, GoodEntries
  <2>5. C!Bad!Init
    BY <2>1, <2>3 DEF C!Bad!Init, BadEntries
  <2> QED
    BY <2>4, <2>5
<1>4. LruInv /\ [AllNext]_allVars => [C!Good!Next]_(C!Good!vars)
  <2> SUFFICES ASSUME LruInv, [AllNext]_allVars PROVE [C!Good!Next]_(C!Good!vars)
    OBVIOUS
  <2>1. LruStepOf(GoodEntries, GoodEntries', goodOut, goodOut', TRUE) /\ max_size_' = max_size_
    BY CachesStep
  <2>2. ASSUME NEW k \in Keys, NEW i \in CacheItems,
               GoodEntries' = Inserted(GoodEntries, max_size_, k, i, TRUE), goodOut' = <<"insert", k, i>>
        PROVE  C!Good!Insert(k, i)
    BY <2>1, <2>2 DEF C!Good!Insert, C!Good!Known, C!Good!Place, C!Good!ToFront,
       GoodEntries, Inserted, Entered, Knows, PlaceIn
  <2>3. ASSUME NEW k \in Keys, GoodEntries' = GoodEntries,
               goodOut' = <<"find", k>> \o (IF Knows(GoodEntries, k)
                            THEN <<GoodEntries[PlaceIn(GoodEntries, k)][2]>> ELSE << >>)
        PROVE  C!Good!Find(k)
    BY <2>1, <2>3 DEF C!Good!Find, C!Good!Known, C!Good!Place, GoodEntries, Knows, PlaceIn
  <2>4. ASSUME GoodEntries' = << >>, goodOut' = <<"clear">> PROVE C!Good!Clear
    BY <2>1, <2>4 DEF C!Good!Clear, GoodEntries
  <2>5. ASSUME GoodEntries' = GoodEntries, goodOut' = goodOut PROVE UNCHANGED C!Good!vars
    BY <2>1, <2>5 DEF C!Good!vars, GoodEntries
  <2> QED
    BY <2>1, <2>2, <2>3, <2>4, <2>5 DEF LruStepOf, C!Good!Next
<1>5. LruInv /\ [AllNext]_allVars => [C!Bad!Next]_(C!Bad!vars)
  <2> SUFFICES ASSUME LruInv, [AllNext]_allVars PROVE [C!Bad!Next]_(C!Bad!vars)
    OBVIOUS
  <2>1. LruStepOf(BadEntries, BadEntries', badOut, badOut', FALSE) /\ max_size_' = max_size_
    BY CachesStep
  <2>2. ASSUME NEW k \in Keys, NEW i \in CacheItems,
               BadEntries' = Inserted(BadEntries, max_size_, k, i, FALSE), badOut' = <<"insert", k, i>>
        PROVE  C!Bad!Insert(k, i)
    BY <2>1, <2>2 DEF C!Bad!Insert, C!Bad!Known, C!Bad!Place, C!Bad!ToFront,
       BadEntries, Inserted, Entered, Knows, PlaceIn
  <2>3. ASSUME NEW k \in Keys, BadEntries' = BadEntries,
               badOut' = <<"find", k>> \o (IF Knows(BadEntries, k)
                            THEN <<BadEntries[PlaceIn(BadEntries, k)][2]>> ELSE << >>)
        PROVE  C!Bad!Find(k)
    BY <2>1, <2>3 DEF C!Bad!Find, C!Bad!Known, C!Bad!Place, BadEntries, Knows, PlaceIn
  <2>4. ASSUME BadEntries' = << >>, badOut' = <<"clear">> PROVE C!Bad!Clear
    BY <2>1, <2>4 DEF C!Bad!Clear, BadEntries
  <2>5. ASSUME BadEntries' = BadEntries, badOut' = badOut PROVE UNCHANGED C!Bad!vars
    BY <2>1, <2>5 DEF C!Bad!vars, BadEntries
  <2> QED
    BY <2>1, <2>2, <2>3, <2>4, <2>5 DEF LruStepOf, C!Bad!Next
<1> QED
  BY <1>1, <1>2, <1>3, <1>4, <1>5, PTL DEF AllSpec, CachesAreLru, C!GoodIsLru, C!BadIsLru,
     C!Good!Spec, C!Bad!Spec

(***************************************************************************)
(* The linked lists, as long as nobody calls Union().                      *)
(***************************************************************************)
\* Links lead to nodes that were allocated.
LinksType ==
  /\ used \in 0 .. MaxNodes
  /\ next \in [1 .. MaxNodes -> 0 .. used] /\ prev \in [1 .. MaxNodes -> 0 .. used]
  /\ listHead \in [Lists -> 0 .. used] /\ listTail \in [Lists -> 0 .. used]
  /\ \A n \in 1 .. MaxNodes : n > used => next[n] = 0 /\ prev[n] = 0
  /\ freed \subseteq 1 .. used /\ dropped \subseteq 1 .. used /\ alive \subseteq Lists
  /\ items \in [Lists -> Seq(1 .. used)] /\ loose \in [Lists -> BOOLEAN]

\* The ends and links of a list do not leave its own nodes, and a list that
\* lives has all of them.
Within(own, l) ==
  /\ listHead[l] \in own \cup {0} /\ listTail[l] \in own \cup {0}
  /\ listHead[l] = 0 <=> listTail[l] = 0
  /\ \A n \in own : next[n] \in own \cup {0} /\ prev[n] \in own \cup {0}
  /\ l \in alive => own \cap freed = {}

\* The list holds what its callers asked for.
Linked(l) ==
  LET s == items[l] IN
  /\ listHead[l] = IF Len(s) = 0 THEN 0 ELSE s[1]
  /\ listTail[l] = IF Len(s) = 0 THEN 0 ELSE s[Len(s)]
  /\ \A k \in 1 .. Len(s) : next[s[k]] = IF k = Len(s) THEN 0 ELSE s[k + 1]
  /\ \A k \in 2 .. Len(s) : prev[s[k]] = s[k - 1]

\* What the callers asked for is the list's own, each node once and none that
\* was taken out; as long as the ends were left alone, the list is linked
\* accordingly and in the end frees it all.
Asked(own, l) ==
  /\ \A k \in 1 .. Len(items[l]) : items[l][k] \in own \ dropped
  /\ \A j, k \in 1 .. Len(items[l]) : items[l][j] = items[l][k] => j = k
  /\ ~ loose[l] /\ l \in alive => Linked(l)
  /\ ~ loose[l] /\ l \notin alive => \A k \in 1 .. Len(items[l]) : items[l][k] \in freed

\* Every list has nodes of its own.
Apart(own) ==
  /\ own \in [Lists -> SUBSET (1 .. used)]
  /\ \A l, m \in Lists : l # m => own[l] \cap own[m] = {}
  /\ \A l \in Lists : Within(own[l], l) /\ Asked(own[l], l)

\* Links lead from lower to higher nodes, in some order of the nodes.
Ascending(ord) ==
  /\ ord \in [1 .. MaxNodes -> Nat]
  /\ \A n \in 1 .. MaxNodes : next[n] # 0 => ord[n] < ord[next[n]]
  /\ \A n \in 1 .. MaxNodes : prev[n] # 0 => ord[prev[n]] < ord[n]

Sound == LinksType /\ (\E own : Apart(own)) /\ (\E ord : Ascending(ord))

ListInv == joined \/ (status = "ok" /\ Sound)

\* Walk() follows next from head_.
LEMMA WalkSteps ==
  ASSUME LinksType, NEW l \in Lists
  PROVE  /\ L!Walk(l) \in [1 .. (MaxNodes + 1) -> 0 .. MaxNodes]
         /\ L!Walk(l)[1] = listHead[l]
         /\ \A k \in 1 .. MaxNodes :
              L!Walk(l)[k + 1] = IF L!Walk(l)[k] = 0 THEN 0 ELSE next[L!Walk(l)[k]]
<1> DEFINE D == 0 .. MaxNodes
           x == listHead[l]
           Step(d) == IF d = 0 THEN 0 ELSE next[d]
           F == [k \in 1 .. MaxNodes |-> [d \in D |-> Step(d)]]
           walk == CHOOSE g : g = [k \in 1 .. (MaxNodes + 1) |->
                     IF k = 1 THEN listHead[l]
                     ELSE IF g[k - 1] = L!Nullptr THEN L!Nullptr ELSE next[g[k - 1]]]
           Walks(g) == g = [k \in 1 .. (MaxNodes + 1) |-> IF k = 1 THEN x ELSE Step(g[k - 1])]
<1>0. MaxNodes \in Nat
  BY ListAssumption
<1>1. L!Walk(l) = walk
  BY DEF L!Walk
<1>2. walk = CHOOSE g : Walks(g)
  BY DEF L!Nullptr
<1> HIDE DEF walk
<1>3. x \in D
  BY <1>0 DEF LinksType
<1>4. ASSUME NEW d \in D PROVE Step(d) \in D
  BY <1>0 DEF LinksType
<1> HIDE DEF D, Step, x
<1>5. PICK f \in [0 .. MaxNodes -> D] : Repeats(f, F, x, MaxNodes)
  <2>1. F \in [1 .. MaxNodes -> [D -> D]]
    BY <1>4
  <2> HIDE DEF F
  <2> QED
    BY <1>0, <1>3, <2>1, Repeated
<1>6. PICK g \in [1 .. (MaxNodes + 1) -> D] : Walks(g)
  <2> DEFINE g == [k \in 1 .. (MaxNodes + 1) |-> f[k - 1]]
  <2>1. \A k \in 1 .. (MaxNodes + 1) : k - 1 \in 0 .. MaxNodes
    BY <1>0
  <2>2. g \in [1 .. (MaxNodes + 1) -> D]
    BY <2>1
  <2>3. ASSUME NEW k \in 1 .. (MaxNodes + 1) PROVE g[k] = IF k = 1 THEN x ELSE Step(g[k - 1])
    <3>1. CASE k = 1
      BY <1>0, <1>5, <3>1 DEF Repeats
    <3>2. CASE k # 1
      <4>1. k - 1 \in 1 .. MaxNodes /\ k - 1 \in 1 .. (MaxNodes + 1) /\ (k - 1) - 1 \in 0 .. MaxNodes
        BY <1>0, <3>2
      <4>2. f[k - 1] = F[k - 1][f[(k - 1) - 1]] /\ f[(k - 1) - 1] \in D
        BY <1>5, <4>1 DEF Repeats
      <4>3. F[k - 1][f[(k - 1) - 1]] = Step(f[(k - 1) - 1])
        BY <4>1, <4>2
      <4>4. g[k] = f[k - 1] /\ g[k - 1] = f[(k - 1) - 1]
        BY <4>1
      <4> QED
        BY <3>2, <4>2, <4>3, <4>4
    <3> QED
      BY <3>1, <3>2
  <2> HIDE DEF F, g
  <2> QED
    BY <2>2, <2>3
<1>7. Walks(walk)
  <2> HIDE DEF Walks
  <2> QED
    BY <1>2, <1>6
<1>8. \A k \in 1 .. (MaxNodes + 1) : walk[k] = IF k = 1 THEN x ELSE Step(walk[k - 1])
  BY <1>7, Zenon
<1>9. walk = [k \in 1 .. (MaxNodes + 1) |-> walk[k]]
  BY <1>7, Zenon
<1>10. walk[1] = x
  BY <1>0, <1>8
<1>11. ASSUME NEW k \in 1 .. MaxNodes PROVE walk[k + 1] = Step(walk[k])
  <2>1. k + 1 \in 1 .. (MaxNodes + 1) /\ k + 1 # 1 /\ (k + 1) - 1 = k
    BY <1>0
  <2> QED
    BY <1>8, <2>1
<1>12. \A k \in 0 .. MaxNodes : k \in {j \in 0 .. MaxNodes : walk[j + 1] \in D}
  <2> DEFINE T == {j \in 0 .. MaxNodes : walk[j + 1] \in D}
  <2>1. 0 \in T
    BY <1>0, <1>3, <1>10
  <2>2. ASSUME NEW k \in 1 .. MaxNodes, k - 1 \in T PROVE k \in T
    <3>1. (k - 1) + 1 = k /\ k \in 0 .. MaxNodes
      BY <1>0
    <3>2. walk[k] \in D
      BY <2>2, <3>1
    <3> QED
      BY <1>4, <1>11, <3>1, <3>2
  <2> HIDE DEF T
  <2>3. \A k \in 0 .. MaxNodes : k \in T
    BY <1>0, <2>1, <2>2, Counting, Zenon
  <2> QED
    BY <2>3 DEF T
<1>13. \A k \in 1 .. (MaxNodes + 1) : walk[k] \in D
  <2> SUFFICES ASSUME NEW k \in 1 .. (MaxNodes + 1) PROVE walk[k] \in D
    OBVIOUS
  <2>1. k - 1 \in 0 .. MaxNodes /\ (k - 1) + 1 = k
    BY <1>0
  <2> QED
    BY <1>12, <2>1
<1>14. walk \in [1 .. (MaxNodes + 1) -> D]
  BY <1>9, <1>13
<1> QED
  BY <1>1, <1>10, <1>11, <1>14 DEF D, x, Step

\* A walk meets nodes of its own list only.
LEMMA WalkOwned ==
  ASSUME LinksType, NEW own, Apart(own), NEW l \in Lists
  PROVE  /\ \A k \in 1 .. (MaxNodes + 1) : L!Walk(l)[k] \in own[l] \cup {0}
         /\ L!Reached(l) \subseteq own[l]
<1> DEFINE w == L!Walk(l)
           T == {j \in 0 .. MaxNodes : w[j + 1] \in own[l] \cup {0}}
<1>0. MaxNodes \in Nat
  BY ListAssumption
<1>1. /\ w[1] = listHead[l]
      /\ \A k \in 1 .. MaxNodes : w[k + 1] = IF w[k] = 0 THEN 0 ELSE next[w[k]]
  BY WalkSteps
<1> HIDE DEF w
<1>2. 0 \in T
  BY <1>0, <1>1 DEF Apart, Within
<1>3. ASSUME NEW k \in 1 .. MaxNodes, k - 1 \in T PROVE k \in T
  <2>1. (k - 1) + 1 = k /\ k \in 0 .. MaxNodes
    BY <1>0
  <2>2. w[k] \in own[l] \cup {0}
    BY <1>3, <2>1
  <2>3. w[k + 1] \in own[l] \cup {0}
    BY <1>1, <2>2 DEF Apart, Within
  <2> QED
    BY <2>1, <2>3
<1>4. \A k \in 0 .. MaxNodes : k \in T
  <2> HIDE DEF T
  <2> QED
    BY <1>0, <1>2, <1>3, Counting, Zenon
<1>5. ASSUME NEW k \in 1 .. (MaxNodes + 1) PROVE w[k] \in own[l] \cup {0}
  <2>1. k - 1 \in 0 .. MaxNodes /\ (k - 1) + 1 = k
    BY <1>0
  <2>2. k - 1 \in T
    BY <1>4, <2>1
  <2> QED
    BY <2>1, <2>2
<1> HIDE DEF T
<1> QED
  BY <1>5 DEF w, L!Reached, L!Nullptr

\* A walk comes to an end: it ascends, and there are not enough nodes for it to
\* go on.
LEMMA WalkEnds ==
  ASSUME LinksType, NEW ord, Ascending(ord), NEW l \in Lists
  PROVE  ~ L!Cyclic(l)
<1> SUFFICES ASSUME L!Cyclic(l) PROVE FALSE
  OBVIOUS
<1> DEFINE w == L!Walk(l)
<1>0. MaxNodes \in Nat
  BY ListAssumption
<1>1. /\ w \in [1 .. (MaxNodes + 1) -> 0 .. MaxNodes]
      /\ \A k \in 1 .. MaxNodes : w[k + 1] = IF w[k] = 0 THEN 0 ELSE next[w[k]]
      /\ w[MaxNodes + 1] # 0
  BY WalkSteps DEF L!Cyclic, L!Nullptr
<1> HIDE DEF w
<1> DEFINE Up(k) == w[k] # 0 => \A j \in 1 .. (k - 1) : w[j] # 0 /\ ord[w[j]] < ord[w[k]]
           T == {j \in 0 .. MaxNodes : Up(j + 1)}
<1>2. 0 \in T
  BY <1>0
<1>3. ASSUME NEW k \in 1 .. MaxNodes, k - 1 \in T PROVE k \in T
  <2>1. (k - 1) + 1 = k /\ k \in 0 .. MaxNodes /\ (k + 1) - 1 = k
    BY <1>0
  <2>2. Up(k)
    BY <1>3, <2>1
  <2>3. SUFFICES ASSUME w[k + 1] # 0, NEW j \in 1 .. k
                 PROVE  w[j] # 0 /\ ord[w[j]] < ord[w[k + 1]]
    BY <2>1
  <2>4. w[k] # 0 /\ w[k + 1] = next[w[k]] /\ w[k] \in 1 .. MaxNodes /\ w[k + 1] \in 1 .. MaxNodes
    BY <1>0, <1>1, <2>3
  <2>5. ord[w[k]] < ord[w[k + 1]] /\ ord[w[k]] \in Nat /\ ord[w[k + 1]] \in Nat
    <3>1. ord[w[k]] \in Nat /\ ord[w[k + 1]] \in Nat
      BY <2>4 DEF Ascending
    <3>2. next[w[k]] # 0 => ord[w[k]] < ord[next[w[k]]]
      BY <2>4 DEF Ascending
    <3> QED
      BY <2>3, <2>4, <3>1, <3>2
  <2>6. CASE j = k
    BY <2>4, <2>5, <2>6
  <2>7. CASE j # k
    <3>1. j \in 1 .. (k - 1) /\ j \in 1 .. (MaxNodes + 1)
      BY <1>0, <2>7
    <3>2. w[j] # 0 /\ ord[w[j]] < ord[w[k]]
      BY <2>2, <2>4, <3>1
    <3>3. w[j] \in 1 .. MaxNodes
      BY <1>0, <1>1, <3>1, <3>2
    <3>4. ord[w[j]] \in Nat
      BY <3>3 DEF Ascending
    <3> QED
      BY <2>5, <3>2, <3>4
  <2> QED
    BY <2>6, <2>7
<1>4. \A k \in 0 .. MaxNodes : k \in T
  <2> HIDE DEF T
  <2> QED
    BY <1>0, <1>2, <1>3, Counting, Zenon
<1>5. ASSUME NEW k \in 1 .. (MaxNodes + 1) PROVE Up(k)
  <2>1. k - 1 \in 0 .. MaxNodes /\ (k - 1) + 1 = k
    BY <1>0
  <2>2. k - 1 \in T
    BY <1>4, <2>1
  <2> QED
    BY <2>1, <2>2
<1> HIDE DEF T
<1>6. ASSUME NEW k \in 1 .. (MaxNodes + 1) PROVE w[k] \in 1 .. MaxNodes
  <2>1. w[k] # 0
    <3>1. CASE k = MaxNodes + 1
      BY <1>1, <3>1
    <3>2. CASE k # MaxNodes + 1
      <4>1. MaxNodes + 1 \in 1 .. (MaxNodes + 1) /\ k \in 1 .. ((MaxNodes + 1) - 1)
        BY <1>0, <3>2
      <4> QED
        BY <1>1, <1>5, <4>1
    <3> QED
      BY <3>1, <3>2
  <2> QED
    BY <1>0, <1>1, <2>1
<1>7. w \in [1 .. (MaxNodes + 1) -> 1 .. MaxNodes]
  BY <1>1, <1>6
<1>8. /\ IsFiniteSet(1 .. MaxNodes) /\ Cardinality(1 .. MaxNodes) = MaxNodes
      /\ IsFiniteSet(1 .. (MaxNodes + 1)) /\ Cardinality(1 .. (MaxNodes + 1)) = MaxNodes + 1
  BY <1>0, FS_Interval
<1>9. Cardinality(1 .. MaxNodes) < Cardinality(1 .. (MaxNodes + 1))
  BY <1>0, <1>8
<1>10. PICK y, z \in 1 .. (MaxNodes + 1) : y # z /\ w[y] = w[z]
  BY <1>7, <1>8, <1>9, FS_PigeonHole, Zenon
<1>11. ASSUME NEW u \in 1 .. (MaxNodes + 1), NEW v \in 1 .. (MaxNodes + 1), u < v PROVE w[u] # w[v]
  <2>1. u \in 1 .. (v - 1) /\ w[v] # 0
    BY <1>0, <1>6, <1>11
  <2>2. ord[w[u]] < ord[w[v]]
    BY <1>5, <2>1
  <2>3. ord[w[u]] \in Nat
    BY <1>6 DEF Ascending
  <2> QED
    BY <2>2, <2>3
<1>12. y < z \/ z < y
  BY <1>0, <1>10
<1> QED
  BY <1>10, <1>11, <1>12

\* What happens to other nodes and lists does not touch a list.
LEMMA OtherList ==
  ASSUME LinksType, NEW m \in Lists, NEW own \in SUBSET (1 .. used), Within(own, m), Asked(own, m),
         listHead'[m] = listHead[m], listTail'[m] = listTail[m], items'[m] = items[m],
         loose'[m] = loose[m], m \in alive' <=> m \in alive, freed \subseteq freed',
         m \in alive => own \cap freed' = {},
         \A n \in own : next'[n] = next[n] /\ prev'[n] = prev[n],
         \A n \in own : n \in dropped' => n \in dropped
  PROVE  Within(own, m)' /\ Asked(own, m)'
<1>1. Within(own, m)'
  BY DEF Within
<1>2. Linked(m) => Linked(m)'
  <2> SUFFICES ASSUME Linked(m) PROVE Linked(m)'
    OBVIOUS
  <2> DEFINE s == items[m]
  <2>1. items'[m] = s /\ \A k \in 1 .. Len(s) : s[k] \in own
    BY DEF Asked
  <2>2. /\ listHead'[m] = IF Len(s) = 0 THEN 0 ELSE s[1]
        /\ listTail'[m] = IF Len(s) = 0 THEN 0 ELSE s[Len(s)]
    BY DEF Linked
  <2>3. \A k \in 1 .. Len(s) : next'[s[k]] = IF k = Len(s) THEN 0 ELSE s[k + 1]
    BY <2>1 DEF Linked
  <2>4. \A k \in 2 .. Len(s) : prev'[s[k]] = s[k - 1]
    <3>1. Len(s) \in Nat
      BY DEF LinksType
    <3> HIDE DEF s
    <3>2. \A k \in 2 .. Len(s) : k \in 1 .. Len(s)
      BY <3>1
    <3> QED
      BY <2>1, <3>2 DEF Linked, s
  <2> QED
    BY <2>1, <2>2, <2>3, <2>4 DEF Linked
<1>3. Asked(own, m)'
  BY <1>2 DEF Asked
<1> QED
  BY <1>1, <1>3

\* PushBack(): the new node is the list's own, higher than the one it follows.
LEMMA PushBackKeeps ==
  ASSUME LinksType, NEW own, Apart(own), NEW ord, Ascending(ord), NEW l \in alive, L!PushBack(l)
  PROVE  Sound' /\ status' = status /\ joined' = joined
<1>0. MaxNodes \in Nat /\ used \in Nat /\ l \in Lists
  BY ListAssumption DEF LinksType
<1>1. PICK new \in Nat : new = used + 1 /\ new \in 1 .. MaxNodes /\ used \in 0 .. MaxNodes
  BY <1>0 DEF L!PushBack
<1>2. PICK t \in own[l] \cup {0} : t = listTail[l] /\ (listHead[l] = 0 <=> t = 0) /\ t \notin freed
  BY <1>0 DEF Apart, Within, LinksType
<1>3. t \in 0 .. used /\ t # new
  BY <1>0, <1>1, <1>2 DEF LinksType
<1>4. /\ used' = new /\ freed' = freed /\ alive' = alive /\ status' = status /\ loose' = loose
      /\ dropped' = dropped /\ joined' = joined
      /\ listTail' = [listTail EXCEPT ![l] = new]
      /\ items' = [items EXCEPT ![l] = Append(items[l], new)]
      /\ next' = IF t = 0 THEN next ELSE [next EXCEPT ![t] = new]
      /\ prev' = IF t = 0 THEN prev ELSE [prev EXCEPT ![new] = t]
      /\ listHead' = IF t = 0 THEN [listHead EXCEPT ![l] = new] ELSE listHead
  BY <1>1, <1>2 DEF L!PushBack, L!Use, L!Nullptr
<1>5. \A n \in 1 .. MaxNodes : /\ next'[n] = IF n = t THEN new ELSE next[n]
                               /\ prev'[n] = IF n = new /\ t # 0 THEN t ELSE prev[n]
  BY <1>0, <1>4 DEF LinksType
<1>6. /\ next[new] = 0 /\ prev[new] = 0
      /\ \A n \in 1 .. MaxNodes : next[n] \in 0 .. used /\ prev[n] \in 0 .. used
  <2>1. new > used
    BY <1>0, <1>1
  <2>2. next[new] = 0 /\ prev[new] = 0
    BY <1>1, <2>1 DEF LinksType
  <2>3. \A n \in 1 .. MaxNodes : next[n] \in 0 .. used /\ prev[n] \in 0 .. used
    BY DEF LinksType
  <2> QED
    BY <2>2, <2>3
<1>7. LinksType'
  <2>1. \A y \in 0 .. used : y \in 0 .. new
    BY <1>0, <1>1
  <2>2. next' \in [1 .. MaxNodes -> 0 .. new] /\ prev' \in [1 .. MaxNodes -> 0 .. new]
    <3>1. \A n \in 1 .. MaxNodes : next'[n] \in 0 .. new /\ prev'[n] \in 0 .. new
      BY <1>0, <1>1, <1>3, <1>5, <1>6, <2>1
    <3>2. next \in [1 .. MaxNodes -> 0 .. used] /\ prev \in [1 .. MaxNodes -> 0 .. used]
      BY DEF LinksType
    <3>3. /\ next' = [n \in 1 .. MaxNodes |-> next'[n]]
          /\ prev' = [n \in 1 .. MaxNodes |-> prev'[n]]
      BY <1>4, <3>2
    <3> QED
      BY <3>1, <3>3
  <2>3. listHead' \in [Lists -> 0 .. new] /\ listTail' \in [Lists -> 0 .. new]
    BY <1>0, <1>1, <1>4, <2>1 DEF LinksType
  <2>4. \A n \in 1 .. MaxNodes : n > new => next'[n] = 0 /\ prev'[n] = 0
    <3> SUFFICES ASSUME NEW n \in 1 .. MaxNodes, n > new PROVE next'[n] = 0 /\ prev'[n] = 0
      OBVIOUS
    <3>1. n > used /\ n # t /\ n # new
      BY <1>0, <1>1, <1>3
    <3> QED
      BY <1>5, <3>1 DEF LinksType
  <2>5. items' \in [Lists -> Seq(1 .. new)]
    <3>1. \A m \in Lists : items[m] \in Seq(1 .. new)
      <4>1. \A m \in Lists : items[m] \in Seq(1 .. used)
        BY DEF LinksType
      <4>2. 1 .. used \subseteq 1 .. new
        BY <1>0, <1>1
      <4> QED
        BY <4>1, <4>2, WiderSeq
    <3>2. Append(items[l], new) \in Seq(1 .. new)
      BY <1>0, <1>1, <3>1
    <3>3. items \in [Lists -> Seq(1 .. used)]
      BY DEF LinksType
    <3> QED
      BY <1>4, <3>1, <3>2, <3>3
  <2>6. freed' \subseteq 1 .. new /\ dropped' \subseteq 1 .. new /\ alive' \subseteq Lists
    BY <1>0, <1>1, <1>4 DEF LinksType
  <2>7. new \in 0 .. MaxNodes /\ loose' \in [Lists -> BOOLEAN]
    BY <1>0, <1>1, <1>4 DEF LinksType
  <2> QED
    BY <1>4, <2>2, <2>3, <2>4, <2>5, <2>6, <2>7 DEF LinksType
<1>8. \E o : Ascending(o)'
  <2> DEFINE Higher == IF t = 0 THEN ord ELSE [ord EXCEPT ![new] = ord[t] + 1]
  <2>1. PICK o : o = Higher
    OBVIOUS
  <2>2. ord \in [1 .. MaxNodes -> Nat] /\ (t # 0 => t \in 1 .. MaxNodes /\ ord[t] + 1 \in Nat)
    BY <1>0, <1>1, <1>3 DEF Ascending
  <2>3. o \in [1 .. MaxNodes -> Nat]
    BY <2>1, <2>2
  <2>4. /\ t # 0 => o[new] = ord[t] + 1
        /\ \A n \in 1 .. MaxNodes : n # new => o[n] = ord[n]
    BY <1>1, <2>1, <2>2
  <2>5. ASSUME NEW n \in 1 .. MaxNodes, next'[n] # 0 PROVE o[n] < o[next'[n]]
    <3>1. CASE n = t
      <4>1. next'[n] = new /\ n # new /\ t # 0
        BY <1>3, <1>5, <3>1
      <4>2. o[n] = ord[t] /\ o[new] = ord[t] + 1 /\ ord[t] \in Nat
        BY <2>2, <2>4, <3>1, <4>1
      <4> QED
        BY <4>1, <4>2
    <3>2. CASE n # t
      <4>1. next'[n] = next[n] /\ next[n] # 0 /\ next[n] \in 1 .. MaxNodes /\ next[n] # new /\ n # new
        BY <1>0, <1>1, <1>5, <1>6, <2>5, <3>2
      <4>2. ord[n] < ord[next[n]]
        BY <4>1 DEF Ascending
      <4> QED
        BY <2>4, <4>1, <4>2
    <3> QED
      BY <3>1, <3>2
  <2>6. ASSUME NEW n \in 1 .. MaxNodes, prev'[n] # 0 PROVE o[prev'[n]] < o[n]
    <3>1. CASE n = new
      <4>1. prev'[n] = t /\ t # 0 /\ t # new /\ t \in 1 .. MaxNodes
        BY <1>3, <1>5, <1>6, <2>2, <2>6, <3>1
      <4>2. o[t] = ord[t] /\ o[n] = ord[t] + 1 /\ ord[t] \in Nat
        BY <2>2, <2>4, <3>1, <4>1
      <4> QED
        BY <4>1, <4>2
    <3>2. CASE n # new
      <4>1. prev'[n] = prev[n] /\ prev[n] # 0 /\ prev[n] \in 1 .. MaxNodes /\ prev[n] # new
        BY <1>0, <1>1, <1>5, <1>6, <2>6, <3>2
      <4>2. ord[prev[n]] < ord[n]
        BY <4>1 DEF Ascending
      <4> QED
        BY <2>4, <3>2, <4>1, <4>2
    <3> QED
      BY <3>1, <3>2
  <2>7. Ascending(o)'
    BY <2>3, <2>5, <2>6 DEF Ascending
  <2> QED
    BY <2>7
<1>9. PICK o : o = [own EXCEPT ![l] = own[l] \cup {new}]
  OBVIOUS
<1>10. /\ \A m \in Lists : /\ own[m] \subseteq 1 .. used /\ new \notin own[m]
                           /\ own[m] \subseteq 1 .. MaxNodes
       /\ own \in [Lists -> SUBSET (1 .. used)]
  <2>1. own \in [Lists -> SUBSET (1 .. used)]
    BY DEF Apart
  <2>2. new \notin 1 .. used /\ 1 .. used \subseteq 1 .. MaxNodes
    BY <1>0, <1>1
  <2> QED
    BY <2>1, <2>2
<1>11. /\ o \in [Lists -> SUBSET (1 .. new)] /\ o[l] = own[l] \cup {new}
       /\ \A m \in Lists : m # l => o[m] = own[m]
  <2>1. \A y \in 1 .. used : y \in 1 .. new
    BY <1>0, <1>1
  <2>2. new \in 1 .. new
    BY <1>1
  <2> QED
    BY <1>0, <1>9, <1>10, <2>1, <2>2
<1>12. \A y, m \in Lists : y # m => o[y] \cap o[m] = {}
  BY <1>10, <1>11 DEF Apart
<1>13. ASSUME NEW m \in Lists, m # l PROVE Within(o[m], m)' /\ Asked(o[m], m)'
  <2>1. Within(own[m], m) /\ Asked(own[m], m) /\ own[m] \in SUBSET (1 .. used) /\ o[m] = own[m]
    BY <1>10, <1>11, <1>13 DEF Apart
  <2>2. \A n \in own[m] : n \in 1 .. MaxNodes /\ n # new /\ n # t
    <3>1. own[l] \cap own[m] = {} /\ 0 \notin own[m]
      BY <1>0, <1>10, <1>13 DEF Apart
    <3> QED
      BY <1>2, <1>10, <3>1
  <2>3. \A n \in own[m] : next'[n] = next[n] /\ prev'[n] = prev[n]
    BY <1>5, <2>2
  <2>4. /\ listHead'[m] = listHead[m] /\ listTail'[m] = listTail[m] /\ items'[m] = items[m]
        /\ loose'[m] = loose[m]
    BY <1>4, <1>13 DEF LinksType
  <2>5. m \in alive => own[m] \cap freed' = {}
    BY <1>4, <2>1 DEF Within
  <2>6. Within(own[m], m)' /\ Asked(own[m], m)'
    BY <1>4, <2>1, <2>3, <2>4, <2>5, OtherList
  <2> QED
    BY <2>1, <2>6
<1>14. Within(o[l], l)'
  <2>1. Within(own[l], l)
    BY <1>0 DEF Apart
  <2>2. listTail'[l] = new /\ listHead'[l] = IF t = 0 THEN new ELSE listHead[l]
    BY <1>0, <1>4 DEF LinksType
  <2>3. new # 0
    BY <1>1
  <2>4. \A n \in o[l] : next'[n] \in o[l] \cup {0} /\ prev'[n] \in o[l] \cup {0}
    <3> SUFFICES ASSUME NEW n \in o[l] PROVE next'[n] \in o[l] \cup {0} /\ prev'[n] \in o[l] \cup {0}
      OBVIOUS
    <3>1. CASE n = new
      BY <1>1, <1>2, <1>3, <1>5, <1>6, <1>11, <3>1
    <3>2. CASE n # new
      <4>1. n \in own[l] /\ n \in 1 .. MaxNodes
        BY <1>0, <1>10, <1>11, <3>2
      <4> QED
        BY <1>5, <1>11, <2>1, <3>2, <4>1 DEF Within
    <3> QED
      BY <3>1, <3>2
  <2>5. o[l] \cap freed' = {}
    <3>1. own[l] \cap freed = {} /\ new \notin freed
      BY <1>0, <1>1, <2>1 DEF Within, LinksType
    <3> QED
      BY <1>4, <1>11, <3>1
  <2>6. listHead'[l] \in o[l] \cup {0} /\ listHead'[l] # 0
    BY <1>2, <1>11, <2>1, <2>2, <2>3 DEF Within
  <2> QED
    BY <1>11, <2>2, <2>3, <2>4, <2>5, <2>6 DEF Within
<1> DEFINE s == items[l]
           k0 == Len(items[l])
           r == items'[l]
<1>15. /\ k0 \in Nat /\ s \in Seq(1 .. used) /\ r = Append(s, new) /\ Len(r) = k0 + 1 /\ r[k0 + 1] = new
       /\ \A k \in 1 .. k0 : r[k] = s[k] /\ s[k] \in own[l] \ dropped /\ s[k] # new
       /\ \A j, k \in 1 .. k0 : s[j] = s[k] => j = k
  <2>1. s \in Seq(1 .. used) /\ r = Append(s, new)
    BY <1>0, <1>4 DEF LinksType
  <2>2. Asked(own[l], l) /\ new \notin own[l]
    BY <1>0, <1>10 DEF Apart
  <2>3. k0 \in Nat /\ Len(r) = k0 + 1 /\ r[k0 + 1] = new /\ \A k \in 1 .. k0 : r[k] = s[k]
    BY <2>1
  <2> QED
    BY <2>1, <2>2, <2>3 DEF Asked
<1> HIDE DEF s, k0, r
<1>16. ASSUME NEW k \in 1 .. (k0 + 1) PROVE k = k0 + 1 \/ k \in 1 .. k0
  BY <1>15
<1>17. \A k \in 1 .. (k0 + 1) : r[k] \in o[l] \ dropped'
  <2>1. new \notin dropped
    BY <1>0, <1>1 DEF LinksType
  <2> QED
    BY <1>4, <1>11, <1>15, <1>16, <2>1
<1>18. \A j, k \in 1 .. (k0 + 1) : r[j] = r[k] => j = k
  BY <1>15, <1>16
<1>19. ASSUME ~ loose[l] PROVE Linked(l)'
  <2>1. Linked(l)
    BY <1>0, <1>19 DEF Apart, Asked
  <2>2. /\ listHead[l] = IF k0 = 0 THEN 0 ELSE s[1]
        /\ t = IF k0 = 0 THEN 0 ELSE s[k0]
        /\ \A k \in 1 .. k0 : next[s[k]] = IF k = k0 THEN 0 ELSE s[k + 1]
        /\ \A k \in 2 .. k0 : prev[s[k]] = s[k - 1]
    BY <1>2, <2>1 DEF Linked, s, k0
  <2>3. \A k \in 1 .. k0 : s[k] # 0 /\ s[k] \in 1 .. MaxNodes
    BY <1>0, <1>10, <1>15
  <2>4. t = 0 <=> k0 = 0
    BY <1>15, <2>2, <2>3
  <2>5. listHead'[l] = r[1] /\ listTail'[l] = r[k0 + 1]
    <3>1. listTail'[l] = new /\ listHead'[l] = IF t = 0 THEN new ELSE listHead[l]
      BY <1>0, <1>4 DEF LinksType
    <3>2. CASE k0 = 0
      BY <1>15, <2>4, <3>1, <3>2
    <3>3. CASE k0 # 0
      <4>1. 1 \in 1 .. k0
        BY <1>15, <3>3
      <4> QED
        BY <1>15, <2>2, <2>4, <3>1, <3>3, <4>1
    <3> QED
      BY <3>2, <3>3
  <2>6. ASSUME NEW k \in 1 .. (k0 + 1) PROVE next'[r[k]] = IF k = k0 + 1 THEN 0 ELSE r[k + 1]
    <3>1. CASE k = k0 + 1
      BY <1>1, <1>3, <1>5, <1>6, <1>15, <3>1
    <3>2. CASE k \in 1 .. k0
      <4>1. r[k] = s[k] /\ s[k] \in 1 .. MaxNodes /\ k # k0 + 1 /\ k0 \in 1 .. k0
        BY <1>15, <2>3, <3>2
      <4>2. CASE k = k0
        <5>1. s[k] = t /\ r[k + 1] = new
          BY <1>15, <2>2, <4>1, <4>2
        <5> QED
          BY <1>5, <4>1, <5>1
      <4>3. CASE k # k0
        <5>1. k + 1 \in 1 .. k0 /\ s[k] # s[k0]
          BY <1>15, <3>2, <4>1, <4>3
        <5>2. s[k] # t /\ r[k + 1] = s[k + 1] /\ next[s[k]] = s[k + 1]
          BY <1>15, <2>2, <2>3, <3>2, <4>3, <5>1
        <5> QED
          BY <1>5, <4>1, <5>2
      <4> QED
        BY <4>2, <4>3
    <3> QED
      BY <1>16, <3>1, <3>2
  <2>7. ASSUME NEW k \in 2 .. (k0 + 1) PROVE prev'[r[k]] = r[k - 1]
    <3>0. k - 1 \in 1 .. k0 /\ r[k - 1] = s[k - 1]
      BY <1>15
    <3>1. CASE k = k0 + 1
      <4>1. k - 1 = k0 /\ k0 # 0 /\ r[k] = new
        BY <1>15, <3>0, <3>1
      <4>2. r[k - 1] = t /\ t # 0
        BY <2>2, <2>4, <3>0, <4>1
      <4> QED
        BY <1>1, <1>5, <4>1, <4>2
    <3>2. CASE k # k0 + 1
      <4>1. k \in 2 .. k0 /\ k \in 1 .. k0
        BY <1>15, <3>2
      <4>2. r[k] = s[k] /\ s[k] # new /\ s[k] \in 1 .. MaxNodes /\ prev[s[k]] = s[k - 1]
        BY <1>15, <2>2, <2>3, <4>1
      <4> QED
        BY <1>5, <3>0, <4>2
    <3> QED
      BY <3>1, <3>2
  <2>8. Len(r) = k0 + 1 /\ k0 + 1 # 0
    BY <1>15
  <2> HIDE DEF s
  <2> QED
    BY <2>5, <2>6, <2>7, <2>8 DEF Linked, r
<1>20. Asked(o[l], l)'
  <2>1. Len(items'[l]) = k0 + 1 /\ loose' = loose /\ l \in alive'
    BY <1>4, <1>15 DEF r
  <2> QED
    BY <1>17, <1>18, <1>19, <2>1 DEF Asked, r
<1>21. Apart(o)'
  <2>1. \A m \in Lists : Within(o[m], m)' /\ Asked(o[m], m)'
    BY <1>13, <1>14, <1>20
  <2> QED
    BY <1>4, <1>11, <1>12, <2>1 DEF Apart
<1> QED
  BY <1>4, <1>7, <1>8, <1>21 DEF Sound

\* No list can hold more nodes than there are.
LEMMA ItemsFit ==
  ASSUME LinksType, NEW own, Apart(own), NEW l \in Lists
  PROVE  /\ Len(items[l]) \in 0 .. MaxNodes /\ items[l] \in Seq(1 .. used)
         /\ \A k \in 1 .. Len(items[l]) : /\ items[l][k] \in 1 .. MaxNodes
                                          /\ items[l][k] \in own[l] \ dropped
         /\ \A j, k \in 1 .. Len(items[l]) : items[l][j] = items[l][k] => j = k
<1> DEFINE s == items[l]
           k0 == Len(s)
<1>0. MaxNodes \in Nat /\ used \in 0 .. MaxNodes
  BY ListAssumption DEF LinksType
<1>1. s \in Seq(1 .. used)
  BY DEF LinksType
<1>2. k0 \in Nat /\ s \in [1 .. k0 -> 1 .. used]
  <2> DEFINE U == 1 .. used
  <2>1. s \in Seq(U)
    BY <1>1
  <2> HIDE DEF s, U
  <2>2. k0 \in Nat /\ s \in [1 .. k0 -> U]
    BY <2>1
  <2> QED
    BY <2>2 DEF U
<1>3. /\ \A k \in 1 .. k0 : s[k] \in own[l] \ dropped
      /\ \A j, k \in 1 .. k0 : s[j] = s[k] => j = k
  BY DEF Apart, Asked
<1> HIDE DEF s, k0
<1>4. 1 .. used \subseteq 1 .. MaxNodes
  BY <1>0
<1>5. s \in [1 .. k0 -> 1 .. MaxNodes]
  BY <1>2, <1>4
<1>6. ASSUME ~ (k0 <= MaxNodes) PROVE FALSE
  <2>1. /\ IsFiniteSet(1 .. MaxNodes) /\ Cardinality(1 .. MaxNodes) = MaxNodes
        /\ IsFiniteSet(1 .. k0) /\ Cardinality(1 .. k0) = k0
    BY <1>0, <1>2, FS_Interval
  <2>2. Cardinality(1 .. MaxNodes) < Cardinality(1 .. k0)
    BY <1>0, <1>2, <1>6, <2>1
  <2>3. PICK j, k \in 1 .. k0 : j # k /\ s[j] = s[k]
    BY <1>5, <2>1, <2>2, FS_PigeonHole, Zenon
  <2> QED
    BY <1>3, <2>3
<1>7. k0 \in 0 .. MaxNodes
  BY <1>0, <1>2, <1>6
<1> QED
  BY <1>1, <1>3, <1>5, <1>7 DEF s, k0

\* A list that kept its ends is walked in the order that was asked for.
LEMMA WalkLinked ==
  ASSUME LinksType, NEW own, Apart(own), NEW l \in Lists, Linked(l)
  PROVE  /\ \A k \in 1 .. (MaxNodes + 1) :
              L!Walk(l)[k] = IF k <= Len(items[l]) THEN items[l][k] ELSE 0
         /\ L!Reached(l) = {items[l][k] : k \in 1 .. Len(items[l])}
<1> DEFINE w == L!Walk(l)
           s == items[l]
           k0 == Len(s)
           T == {j \in 0 .. MaxNodes : w[j + 1] = IF j + 1 <= k0 THEN s[j + 1] ELSE 0}
<1>0. MaxNodes \in Nat
  BY ListAssumption
<1>1. /\ w[1] = listHead[l]
      /\ \A k \in 1 .. MaxNodes : w[k + 1] = IF w[k] = 0 THEN 0 ELSE next[w[k]]
  BY WalkSteps
<1>2. k0 \in 0 .. MaxNodes /\ \A k \in 1 .. k0 : s[k] \in 1 .. MaxNodes
  BY ItemsFit
<1>3. /\ listHead[l] = IF k0 = 0 THEN 0 ELSE s[1]
      /\ \A k \in 1 .. k0 : next[s[k]] = IF k = k0 THEN 0 ELSE s[k + 1]
  BY DEF Linked
<1> HIDE DEF w, s, k0
<1>4. 0 \in T
  BY <1>0, <1>1, <1>2, <1>3
<1>5. ASSUME NEW k \in 1 .. MaxNodes, k - 1 \in T PROVE k \in T
  <2>1. (k - 1) + 1 = k /\ k \in 0 .. MaxNodes
    BY <1>0
  <2>2. w[k] = IF k <= k0 THEN s[k] ELSE 0
    BY <1>5, <2>1
  <2>3. CASE k <= k0
    <3>1. k \in 1 .. k0 /\ s[k] # 0 /\ w[k] = s[k]
      BY <1>0, <1>2, <2>2, <2>3
    <3>2. w[k + 1] = IF k = k0 THEN 0 ELSE s[k + 1]
      BY <1>1, <1>3, <3>1
    <3> QED
      BY <1>2, <2>1, <2>3, <3>2
  <2>4. CASE ~ (k <= k0)
    <3>1. w[k + 1] = 0 /\ ~ (k + 1 <= k0)
      BY <1>1, <1>2, <2>2, <2>4
    <3> QED
      BY <2>1, <3>1
  <2> QED
    BY <2>3, <2>4
<1>6. \A k \in 0 .. MaxNodes : k \in T
  <2> HIDE DEF T
  <2> QED
    BY <1>0, <1>4, <1>5, Counting, Zenon
<1>7. ASSUME NEW k \in 1 .. (MaxNodes + 1) PROVE w[k] = IF k <= k0 THEN s[k] ELSE 0
  <2>1. k - 1 \in 0 .. MaxNodes /\ (k - 1) + 1 = k
    BY <1>0
  <2>2. k - 1 \in T
    BY <1>6, <2>1
  <2> QED
    BY <2>1, <2>2
<1> HIDE DEF T
<1>8. L!Reached(l) = {s[k] : k \in 1 .. k0}
  <2>1. L!Reached(l) = {w[k] : k \in 1 .. (MaxNodes + 1)} \ {0}
    BY DEF L!Reached, L!Nullptr, w
  <2>2. ASSUME NEW y \in L!Reached(l) PROVE \E k \in 1 .. k0 : y = s[k]
    <3>1. PICK k \in 1 .. (MaxNodes + 1) : y = w[k] /\ y # 0
      BY <2>1
    <3>2. k <= k0 /\ k \in 1 .. k0 /\ y = s[k]
      BY <1>0, <1>2, <1>7, <3>1
    <3> QED
      BY <3>2
  <2>3. ASSUME NEW k \in 1 .. k0 PROVE s[k] \in L!Reached(l)
    <3>1. k \in 1 .. (MaxNodes + 1) /\ k <= k0 /\ s[k] # 0
      BY <1>0, <1>2
    <3>2. w[k] = s[k]
      BY <1>7, <3>1
    <3> QED
      BY <2>1, <3>1, <3>2
  <2> QED
    BY <2>2, <2>3
<1> QED
  BY <1>7, <1>8 DEF w, s, k0

\* A caller can only name a list's own nodes, and in a list that kept its ends
\* only those it holds.
LEMMA NamedNodes ==
  ASSUME LinksType, NEW own, Apart(own), NEW l \in alive, NEW n \in L!Named(l)
  PROVE  /\ n \in own[l] /\ n \in 1 .. used
         /\ ~ loose[l] => Linked(l) /\ \E k \in 1 .. Len(items[l]) : n = items[l][k]
<1>0. l \in Lists /\ own[l] \subseteq 1 .. used
  BY DEF LinksType, Apart
<1>1. n \in L!Reached(l) \/ (n = listTail[l] /\ n # 0)
  BY DEF L!Named, L!Nullptr
<1>2. n \in own[l]
  <2>1. CASE n \in L!Reached(l)
    BY <1>0, <2>1, WalkOwned
  <2>2. CASE n = listTail[l] /\ n # 0
    BY <1>0, <2>2 DEF Apart, Within
  <2> QED
    BY <1>1, <2>1, <2>2
<1>3. ASSUME ~ loose[l] PROVE Linked(l) /\ \E k \in 1 .. Len(items[l]) : n = items[l][k]
  <2>1. Linked(l)
    BY <1>0, <1>3 DEF Apart, Asked
  <2>2. CASE n \in L!Reached(l)
    BY <1>0, <2>1, <2>2, WalkLinked
  <2>3. CASE n = listTail[l] /\ n # 0
    <3>1. Len(items[l]) \in Nat
      BY <1>0, ItemsFit
    <3>2. Len(items[l]) # 0 /\ n = items[l][Len(items[l])]
      BY <2>1, <2>3 DEF Linked
    <3>3. Len(items[l]) \in 1 .. Len(items[l])
      BY <3>1, <3>2
    <3> QED
      BY <2>1, <3>2, <3>3
  <2> QED
    BY <1>1, <2>1, <2>2, <2>3
<1> QED
  BY <1>0, <1>2, <1>3

\* Where an element is found that occurs once.
LEMMA FoundAt ==
  ASSUME NEW s, Len(s) \in Nat, NEW k \in 1 .. Len(s),
         \A i, j \in 1 .. Len(s) : s[i] = s[j] => i = j
  PROVE  /\ {i \in 1 .. Len(s) : s[i] = s[k]} # {}
         /\ L!Min({i \in 1 .. Len(s) : s[i] = s[k]}) = k
<1>1. {i \in 1 .. Len(s) : s[i] = s[k]} = {k}
  OBVIOUS
<1>2. L!Min({k}) = k
  BY DEF L!Min
<1> QED
  BY <1>1, <1>2

\* InsertAfter(): the new node is the list's own and lies between the node it
\* was put behind and the next one.
LEMMA InsertAfterKeeps ==
  ASSUME LinksType, NEW own, Apart(own), NEW ord, Ascending(ord), NEW l \in alive,
         NEW p \in L!Named(l), L!InsertAfter(l, p)
  PROVE  Sound' /\ status' = status /\ joined' = joined
<1>0. MaxNodes \in Nat /\ used \in Nat /\ l \in Lists
  BY ListAssumption DEF LinksType
<1>1. PICK new \in Nat : new = used + 1 /\ new \in 1 .. MaxNodes /\ used \in 0 .. MaxNodes
  BY <1>0 DEF L!InsertAfter
<1>2. /\ p \in own[l] /\ p \in 1 .. used
      /\ ~ loose[l] => Linked(l) /\ \E k \in 1 .. Len(items[l]) : p = items[l][k]
  BY NamedNodes
<1>3. PICK q \in own[l] \cup {0} : q = next[p]
  BY <1>0, <1>2 DEF Apart, Within
<1>4. /\ p \notin freed /\ q \notin freed /\ q \in 0 .. used /\ q # new /\ p # new
      /\ p \in 1 .. MaxNodes
  BY <1>0, <1>1, <1>2, <1>3 DEF Apart, Within, LinksType
<1>5. /\ used' = new /\ freed' = freed /\ alive' = alive /\ status' = status
      /\ dropped' = dropped /\ joined' = joined /\ listTail' = listTail /\ listHead' = listHead
      /\ next' = [next EXCEPT ![new] = q, ![p] = new]
      /\ prev' = L!BackLinks(p, new)
      /\ items' = [items EXCEPT ![l] =
           IF L!Contains(items[l], p)
           THEN L!InsertAt(items[l], L!SelectInSeq(items[l], LAMBDA n : n = p) + 1, new)
           ELSE items[l]]
      /\ loose' = [loose EXCEPT ![l] = loose[l] \/ p = listTail[l]]
  BY <1>1, <1>3, <1>4 DEF L!InsertAfter, L!Use
<1>6. \A n \in 1 .. MaxNodes :
        /\ next'[n] = IF n = p THEN new ELSE IF n = new THEN q ELSE next[n]
        /\ prev'[n] = IF n = new THEN p ELSE IF n = q THEN new ELSE prev[n]
  <2>1. next \in [1 .. MaxNodes -> 0 .. used]
    BY DEF LinksType
  <2> QED
    BY <1>1, <1>3, <1>4, <1>5, <2>1 DEF L!BackLinks, L!Nodes
<1>7. /\ \A n \in 1 .. MaxNodes : next[n] \in 0 .. used /\ prev[n] \in 0 .. used
      /\ next' = [n \in 1 .. MaxNodes |-> next'[n]]
      /\ prev' = [n \in 1 .. MaxNodes |-> prev'[n]]
  <2>1. next \in [1 .. MaxNodes -> 0 .. used] /\ prev \in [1 .. MaxNodes -> 0 .. used]
    BY DEF LinksType
  <2> QED
    BY <1>5, <2>1 DEF L!BackLinks, L!Nodes
<1> DEFINE s == items[l]
           k0 == Len(items[l])
           r == items'[l]
<1>8. /\ k0 \in Nat /\ s \in Seq(1 .. used)
      /\ \A k \in 1 .. k0 : s[k] \in own[l] \ dropped
      /\ \A j, k \in 1 .. k0 : s[j] = s[k] => j = k
  BY <1>0, ItemsFit
<1>9. ASSUME NEW k \in 1 .. k0, s[k] = p
      PROVE  /\ r \in Seq(1 .. new) /\ Len(r) = k0 + 1
             /\ \A j \in 1 .. k : r[j] = s[j]
             /\ r[k + 1] = new
             /\ \A j \in (k + 2) .. (k0 + 1) : r[j] = s[j - 1]
  <2>1. r = InsertAt(s, k + 1, new)
    <3>1. L!Contains(s, p) /\ L!SelectInSeq(s, LAMBDA n : n = p) = k
      <4>1. /\ {i \in 1 .. Len(s) : s[i] = p} # {}
            /\ L!Min({i \in 1 .. Len(s) : s[i] = p}) = k
        BY <1>8, <1>9, FoundAt
      <4> QED
        BY <1>9, <4>1 DEF L!SelectInSeq, L!Contains
    <3>2. r = L!InsertAt(s, L!SelectInSeq(s, LAMBDA n : n = p) + 1, new)
      BY <1>0, <1>5, <3>1 DEF LinksType
    <3>3. r = L!InsertAt(s, k + 1, new)
      BY <3>1, <3>2
    <3> QED
      BY <3>3 DEF L!InsertAt, InsertAt
  <2>2. s \in Seq(1 .. new) /\ new \in 1 .. new
    <3>1. 1 .. used \subseteq 1 .. new /\ new \in 1 .. new
      BY <1>0, <1>1
    <3> QED
      BY <1>8, <3>1, WiderSeq
  <2>3. k \in 1 .. Len(s) /\ Len(s) = k0
    OBVIOUS
  <2> DEFINE U == 1 .. new
  <2>u. s \in Seq(U) /\ new \in U
    BY <2>2
  <2> HIDE DEF s, r, k0, U
  <2>4. InsertAt(s, k + 1, new) \in Seq(U) /\ Longer(InsertAt(s, k + 1, new), s, k, new)
    BY <2>3, <2>u, InsertElements
  <2>5. r \in Seq(U) /\ Longer(r, s, k, new)
    BY <2>1, <2>4
  <2> QED
    BY <2>3, <2>5 DEF U, Longer
<1>10. ASSUME \A k \in 1 .. k0 : s[k] # p PROVE r = s
  <2>1. ~ L!Contains(s, p)
    BY <1>10 DEF L!Contains
  <2> QED
    BY <1>0, <1>5, <2>1 DEF LinksType
<1>11. /\ r \in Seq(1 .. new)
       /\ \A j \in 1 .. Len(r) : r[j] \in own[l] \cup {new} /\ r[j] \notin dropped
       /\ \A j, k \in 1 .. Len(r) : r[j] = r[k] => j = k
  <2>1. new \notin own[l] /\ new \notin dropped
    <3>1. own[l] \subseteq 1 .. used /\ dropped \subseteq 1 .. used
      BY <1>0 DEF Apart, LinksType
    <3> QED
      BY <1>0, <1>1, <3>1
  <2>2. CASE \A k \in 1 .. k0 : s[k] # p
    <3>1. r = s
      BY <1>10, <2>2
    <3>2. 1 .. used \subseteq 1 .. new
      BY <1>0, <1>1
    <3>3. s \in Seq(1 .. new)
      BY <1>8, <3>2, WiderSeq
    <3> QED
      BY <1>8, <3>1, <3>3
  <2>3. ASSUME NEW k \in 1 .. k0, s[k] = p
        PROVE  /\ r \in Seq(1 .. new)
               /\ \A j \in 1 .. Len(r) : r[j] \in own[l] \cup {new} /\ r[j] \notin dropped
               /\ \A i, j \in 1 .. Len(r) : r[i] = r[j] => i = j
    <3>1. /\ r \in Seq(1 .. new) /\ Len(r) = k0 + 1
          /\ \A j \in 1 .. k : r[j] = s[j]
          /\ r[k + 1] = new
          /\ \A j \in (k + 2) .. (k0 + 1) : r[j] = s[j - 1]
      BY <1>9, <2>3
    <3> HIDE DEF s, r, k0
    <3>2. ASSUME NEW j \in 1 .. (k0 + 1)
          PROVE  \/ j \in 1 .. k /\ j \in 1 .. k0 /\ r[j] = s[j]
                 \/ j = k + 1 /\ r[j] = new
                 \/ j \in (k + 2) .. (k0 + 1) /\ j - 1 \in 1 .. k0 /\ r[j] = s[j - 1]
      <4>1. j \in 1 .. k \/ j = k + 1 \/ j \in (k + 2) .. (k0 + 1)
        BY <1>8
      <4>2. j \in 1 .. k => j \in 1 .. k0
        BY <1>8
      <4>3. j \in (k + 2) .. (k0 + 1) => j - 1 \in 1 .. k0
        BY <1>8
      <4> QED
        BY <3>1, <4>1, <4>2, <4>3
    <3>3. \A j \in 1 .. (k0 + 1) : r[j] \in own[l] \cup {new} /\ r[j] \notin dropped
      BY <1>8, <2>1, <3>2
    <3>4. \A j \in 1 .. k0 : s[j] # new
      BY <1>8, <2>1
    <3>5. ASSUME NEW i \in 1 .. (k0 + 1), NEW j \in 1 .. (k0 + 1), r[i] = r[j] PROVE i = j
      <4>1. CASE i = k + 1
        BY <3>2, <3>4, <3>5, <4>1
      <4>2. CASE j = k + 1
        BY <3>2, <3>4, <3>5, <4>2
      <4>3. CASE i \in 1 .. k /\ i \in 1 .. k0 /\ r[i] = s[i]
        <5>1. CASE j \in 1 .. k /\ j \in 1 .. k0 /\ r[j] = s[j]
          BY <1>8, <3>5, <4>3, <5>1
        <5>2. CASE j \in (k + 2) .. (k0 + 1) /\ j - 1 \in 1 .. k0 /\ r[j] = s[j - 1]
          <6>1. i = j - 1
            BY <1>8, <3>5, <4>3, <5>2
          <6> QED
            BY <1>8, <4>3, <5>2, <6>1
        <5> QED
          BY <3>2, <4>2, <5>1, <5>2
      <4>4. CASE i \in (k + 2) .. (k0 + 1) /\ i - 1 \in 1 .. k0 /\ r[i] = s[i - 1]
        <5>1. CASE j \in 1 .. k /\ j \in 1 .. k0 /\ r[j] = s[j]
          <6>1. j = i - 1
            BY <1>8, <3>5, <4>4, <5>1
          <6> QED
            BY <1>8, <4>4, <5>1, <6>1
        <5>2. CASE j \in (k + 2) .. (k0 + 1) /\ j - 1 \in 1 .. k0 /\ r[j] = s[j - 1]
          <6>1. i - 1 = j - 1
            BY <1>8, <3>5, <4>4, <5>2
          <6> QED
            BY <1>8, <4>4, <5>2, <6>1
        <5> QED
          BY <3>2, <4>2, <5>1, <5>2
      <4> QED
        BY <3>2, <4>1, <4>3, <4>4
    <3> QED
      BY <3>1, <3>3, <3>5
  <2> QED
    BY <2>2, <2>3
<1> HIDE DEF s, k0, r
<1>12. LinksType'
  <2>1. \A y \in 0 .. used : y \in 0 .. new
    BY <1>0, <1>1
  <2>2. next' \in [1 .. MaxNodes -> 0 .. new] /\ prev' \in [1 .. MaxNodes -> 0 .. new]
    <3>1. p \in 0 .. new /\ new \in 0 .. new /\ q \in 0 .. new
      BY <1>0, <1>1, <1>2, <1>4
    <3>2. \A n \in 1 .. MaxNodes : next'[n] \in 0 .. new /\ prev'[n] \in 0 .. new
      BY <1>6, <1>7, <2>1, <3>1
    <3> QED
      BY <1>7, <3>2
  <2>3. listHead' \in [Lists -> 0 .. new] /\ listTail' \in [Lists -> 0 .. new]
    BY <1>5, <2>1 DEF LinksType
  <2>4. \A n \in 1 .. MaxNodes : n > new => next'[n] = 0 /\ prev'[n] = 0
    <3> SUFFICES ASSUME NEW n \in 1 .. MaxNodes, n > new PROVE next'[n] = 0 /\ prev'[n] = 0
      OBVIOUS
    <3>1. n > used /\ n # p /\ n # new /\ n # q
      BY <1>0, <1>1, <1>2, <1>4
    <3> QED
      BY <1>6, <3>1 DEF LinksType
  <2>5. items' \in [Lists -> Seq(1 .. new)]
    <3>1. \A m \in Lists : items[m] \in Seq(1 .. new)
      <4>1. \A m \in Lists : items[m] \in Seq(1 .. used)
        BY DEF LinksType
      <4>2. 1 .. used \subseteq 1 .. new
        BY <1>0, <1>1
      <4> QED
        BY <4>1, <4>2, WiderSeq
    <3>2. items \in [Lists -> Seq(1 .. used)]
      BY DEF LinksType
    <3>3. items' = [items EXCEPT ![l] = r]
      BY <1>0, <1>5, <3>2 DEF r
    <3> QED
      BY <1>11, <3>1, <3>2, <3>3
  <2>6. freed' \subseteq 1 .. new /\ dropped' \subseteq 1 .. new /\ alive' \subseteq Lists
    BY <1>0, <1>1, <1>5 DEF LinksType
  <2>7. loose' \in [Lists -> BOOLEAN]
    <3>1. loose \in [Lists -> BOOLEAN] /\ (loose[l] \/ p = listTail[l]) \in BOOLEAN
      BY <1>0, Zenon DEF LinksType
    <3> QED
      BY <1>5, <3>1
  <2>8. new \in 0 .. MaxNodes
    BY <1>0, <1>1
  <2> QED
    BY <1>5, <2>2, <2>3, <2>4, <2>5, <2>6, <2>7, <2>8 DEF LinksType
<1>13. \E o : Ascending(o)'
  <2>1. PICK o : o = [n \in 1 .. MaxNodes |-> IF n = new THEN 2 * ord[p] + 1 ELSE 2 * ord[n]]
    OBVIOUS
  <2>2. /\ \A n \in 1 .. MaxNodes : ord[n] \in Nat
        /\ ord[p] \in Nat
    BY <1>4 DEF Ascending
  <2>3. o \in [1 .. MaxNodes -> Nat]
    BY <2>1, <2>2
  <2>4. /\ o[new] = 2 * ord[p] + 1
        /\ \A n \in 1 .. MaxNodes : n # new => o[n] = 2 * ord[n]
    BY <1>1, <2>1
  <2>q. ASSUME q # 0 PROVE ord[p] < ord[q] /\ q \in 1 .. MaxNodes /\ ord[q] \in Nat
    <3>1. q \in 1 .. MaxNodes
      BY <1>0, <1>1, <1>4, <2>q
    <3>2. ord[p] < ord[q]
      BY <1>3, <1>4, <2>q DEF Ascending
    <3> QED
      BY <2>2, <3>1, <3>2
  <2>5. ASSUME NEW n \in 1 .. MaxNodes, next'[n] # 0 PROVE o[n] < o[next'[n]]
    <3>1. CASE n = p
      <4>1. next'[n] = new /\ o[n] = 2 * ord[p]
        BY <1>4, <1>6, <2>4, <3>1
      <4> QED
        BY <2>2, <2>4, <4>1
    <3>2. CASE n = new
      <4>1. next'[n] = q /\ q # 0
        BY <1>4, <1>6, <2>5, <3>2
      <4>2. o[q] = 2 * ord[q] /\ ord[p] < ord[q] /\ ord[q] \in Nat /\ o[n] = 2 * ord[p] + 1
        BY <1>4, <2>4, <2>q, <3>2, <4>1
      <4> QED
        BY <2>2, <4>1, <4>2
    <3>3. CASE n # p /\ n # new
      <4>1. next'[n] = next[n] /\ next[n] # 0 /\ next[n] \in 1 .. MaxNodes /\ next[n] # new
        BY <1>0, <1>1, <1>6, <1>7, <2>5, <3>3
      <4>2. ord[n] < ord[next[n]] /\ ord[n] \in Nat /\ ord[next[n]] \in Nat
        BY <4>1 DEF Ascending
      <4>3. o[n] = 2 * ord[n] /\ o[next[n]] = 2 * ord[next[n]]
        BY <2>4, <3>3, <4>1
      <4> QED
        BY <4>1, <4>2, <4>3
    <3> QED
      BY <3>1, <3>2, <3>3
  <2>6. ASSUME NEW n \in 1 .. MaxNodes, prev'[n] # 0 PROVE o[prev'[n]] < o[n]
    <3>1. CASE n = new
      <4>1. prev'[n] = p /\ o[p] = 2 * ord[p]
        BY <1>4, <1>6, <2>4, <3>1
      <4> QED
        BY <2>2, <2>4, <3>1, <4>1
    <3>2. CASE n = q /\ n # new
      <4>1. prev'[n] = new /\ q # 0
        BY <1>6, <3>2
      <4>2. o[n] = 2 * ord[q] /\ ord[p] < ord[q] /\ ord[q] \in Nat
        BY <2>4, <2>q, <3>2, <4>1
      <4> QED
        BY <2>2, <2>4, <4>1, <4>2
    <3>3. CASE n # q /\ n # new
      <4>1. prev'[n] = prev[n] /\ prev[n] # 0 /\ prev[n] \in 1 .. MaxNodes /\ prev[n] # new
        BY <1>0, <1>1, <1>6, <1>7, <2>6, <3>3
      <4>2. ord[prev[n]] < ord[n] /\ ord[n] \in Nat /\ ord[prev[n]] \in Nat
        BY <4>1 DEF Ascending
      <4>3. o[n] = 2 * ord[n] /\ o[prev[n]] = 2 * ord[prev[n]]
        BY <2>4, <3>3, <4>1
      <4> QED
        BY <4>1, <4>2, <4>3
    <3> QED
      BY <3>1, <3>2, <3>3
  <2>7. Ascending(o)'
    BY <2>3, <2>5, <2>6 DEF Ascending
  <2> QED
    BY <2>7
<1>14. PICK o : o = [own EXCEPT ![l] = own[l] \cup {new}]
  OBVIOUS
<1>15. /\ own \in [Lists -> SUBSET (1 .. used)]
       /\ \A m \in Lists : /\ own[m] \subseteq 1 .. used /\ new \notin own[m]
                           /\ own[m] \subseteq 1 .. MaxNodes
  <2>1. own \in [Lists -> SUBSET (1 .. used)]
    BY DEF Apart
  <2>2. new \notin 1 .. used /\ 1 .. used \subseteq 1 .. MaxNodes
    BY <1>0, <1>1
  <2> QED
    BY <2>1, <2>2
<1>16. /\ o \in [Lists -> SUBSET (1 .. new)] /\ o[l] = own[l] \cup {new}
       /\ \A m \in Lists : m # l => o[m] = own[m]
  <2>1. \A y \in 1 .. used : y \in 1 .. new
    BY <1>0, <1>1
  <2>2. new \in 1 .. new
    BY <1>1
  <2> QED
    BY <1>0, <1>14, <1>15, <2>1, <2>2
<1>17. \A y, m \in Lists : y # m => o[y] \cap o[m] = {}
  BY <1>15, <1>16 DEF Apart
<1>18. ASSUME NEW m \in Lists, m # l PROVE Within(o[m], m)' /\ Asked(o[m], m)'
  <2>1. Within(own[m], m) /\ Asked(own[m], m) /\ own[m] \in SUBSET (1 .. used) /\ o[m] = own[m]
    BY <1>15, <1>16, <1>18 DEF Apart
  <2>2. \A n \in own[m] : n \in 1 .. MaxNodes /\ n # new /\ n # p /\ n # q
    <3>1. own[l] \cap own[m] = {} /\ 0 \notin own[m]
      BY <1>0, <1>15, <1>18 DEF Apart
    <3> QED
      BY <1>2, <1>3, <1>15, <3>1
  <2>3. \A n \in own[m] : next'[n] = next[n] /\ prev'[n] = prev[n]
    BY <1>6, <2>2
  <2>4. /\ listHead'[m] = listHead[m] /\ listTail'[m] = listTail[m] /\ items'[m] = items[m]
        /\ loose'[m] = loose[m]
    BY <1>5, <1>18 DEF LinksType
  <2>5. m \in alive => own[m] \cap freed' = {}
    BY <1>5, <2>1 DEF Within
  <2>6. Within(own[m], m)' /\ Asked(own[m], m)'
    BY <1>5, <2>1, <2>3, <2>4, <2>5, OtherList
  <2> QED
    BY <2>1, <2>6
<1>19. Within(o[l], l)'
  <2>1. Within(own[l], l)
    BY <1>0 DEF Apart
  <2>2. \A n \in o[l] : next'[n] \in o[l] \cup {0} /\ prev'[n] \in o[l] \cup {0}
    <3> SUFFICES ASSUME NEW n \in o[l] PROVE next'[n] \in o[l] \cup {0} /\ prev'[n] \in o[l] \cup {0}
      OBVIOUS
    <3>1. CASE n = new
      BY <1>1, <1>2, <1>3, <1>4, <1>6, <1>16, <3>1
    <3>2. CASE n # new
      <4>1. n \in own[l] /\ n \in 1 .. MaxNodes
        BY <1>0, <1>15, <1>16, <3>2
      <4> QED
        BY <1>6, <1>16, <2>1, <3>2, <4>1 DEF Within
    <3> QED
      BY <3>1, <3>2
  <2>3. o[l] \cap freed' = {}
    <3>1. own[l] \cap freed = {} /\ new \notin freed
      BY <1>0, <1>1, <2>1 DEF Within, LinksType
    <3> QED
      BY <1>5, <1>16, <3>1
  <2> QED
    BY <1>5, <1>16, <2>1, <2>2, <2>3 DEF Within
<1>20. ASSUME ~ loose'[l] PROVE Linked(l)'
  <2>1. ~ loose[l] /\ p # listTail[l]
    <3>1. loose'[l] = (loose[l] \/ p = listTail[l])
      BY <1>0, <1>5 DEF LinksType
    <3> QED
      BY <1>20, <3>1
  <2>2. Linked(l)
    BY <1>2, <2>1
  <2>3. PICK k \in 1 .. k0 : s[k] = p
    BY <1>2, <2>1 DEF s, k0
  <2>4. /\ listHead[l] = IF k0 = 0 THEN 0 ELSE s[1]
        /\ listTail[l] = IF k0 = 0 THEN 0 ELSE s[k0]
        /\ \A j \in 1 .. k0 : next[s[j]] = IF j = k0 THEN 0 ELSE s[j + 1]
        /\ \A j \in 2 .. k0 : prev[s[j]] = s[j - 1]
    BY <2>2 DEF Linked, s, k0
  <2>5. k < k0 /\ k0 # 0 /\ k + 1 \in 1 .. k0 /\ q = s[k + 1] /\ k0 \in Nat /\ 1 \in 1 .. k
    <3>1. k # k0 /\ k0 # 0
      BY <1>8, <2>1, <2>3, <2>4
    <3>2. k < k0 /\ k + 1 \in 1 .. k0 /\ 1 \in 1 .. k
      BY <1>8, <3>1
    <3> QED
      BY <1>3, <1>8, <2>3, <2>4, <3>1, <3>2
  <2>6. /\ Len(r) = k0 + 1
        /\ \A j \in 1 .. k : r[j] = s[j]
        /\ r[k + 1] = new
        /\ \A j \in (k + 2) .. (k0 + 1) : r[j] = s[j - 1]
    BY <1>9, <2>3
  <2>7. \A j \in 1 .. k0 : s[j] \in 1 .. MaxNodes /\ s[j] # new
    BY <1>0, <1>8, <1>15
  <2>8. listHead'[l] = r[1] /\ listTail'[l] = r[k0 + 1]
    <3>1. k0 + 1 \in (k + 2) .. (k0 + 1) /\ (k0 + 1) - 1 = k0
      BY <2>5
    <3> QED
      BY <1>5, <2>4, <2>5, <2>6, <3>1
  <2>9. ASSUME NEW j \in 1 .. (k0 + 1) PROVE next'[r[j]] = IF j = k0 + 1 THEN 0 ELSE r[j + 1]
    <3>1. CASE j = k
      BY <1>4, <1>6, <2>3, <2>5, <2>6, <3>1
    <3>2. CASE j = k + 1
      <4>1. k + 2 \in (k + 2) .. (k0 + 1) /\ (k + 2) - 1 = k + 1 /\ j + 1 = k + 2 /\ j # k0 + 1
        BY <2>5, <3>2
      <4>2. r[j + 1] = q
        BY <2>5, <2>6, <4>1
      <4>3. next'[new] = q
        BY <1>1, <1>4, <1>6
      <4> QED
        BY <2>6, <3>2, <4>1, <4>2, <4>3
    <3>3. CASE j < k
      <4>1. j \in 1 .. k /\ j + 1 \in 1 .. k /\ j \in 1 .. k0 /\ j # k0 /\ j # k0 + 1 /\ j # k
        BY <2>5, <3>3
      <4>2. s[j] # p /\ s[j] \in 1 .. MaxNodes /\ s[j] # new
        BY <1>8, <2>3, <2>7, <4>1
      <4>3. next'[s[j]] = s[j + 1]
        BY <1>6, <2>4, <4>1, <4>2
      <4> QED
        BY <2>6, <4>1, <4>3
    <3>4. CASE j > k + 1
      <4>1. j \in (k + 2) .. (k0 + 1) /\ j - 1 \in 1 .. k0 /\ j - 1 # k /\ (j - 1) + 1 = j
            /\ (j = k0 + 1 <=> j - 1 = k0)
        BY <2>5, <3>4
      <4>2. r[j] = s[j - 1] /\ s[j - 1] # p /\ s[j - 1] \in 1 .. MaxNodes /\ s[j - 1] # new
        BY <1>8, <2>3, <2>6, <2>7, <4>1
      <4>3. next'[r[j]] = next[s[j - 1]]
        BY <1>6, <4>2
      <4>4. next[s[j - 1]] = IF j = k0 + 1 THEN 0 ELSE s[j]
        BY <2>4, <4>1
      <4>5. j # k0 + 1 => r[j + 1] = s[j]
        <5>1. j # k0 + 1 => j + 1 \in (k + 2) .. (k0 + 1) /\ (j + 1) - 1 = j
          BY <2>5, <4>1
        <5> QED
          BY <2>6, <5>1
      <4> QED
        BY <4>3, <4>4, <4>5
    <3>5. j = k \/ j = k + 1 \/ j < k \/ j > k + 1
      BY <2>5
    <3> QED
      BY <3>1, <3>2, <3>3, <3>4, <3>5
  <2>10. ASSUME NEW j \in 2 .. (k0 + 1) PROVE prev'[r[j]] = r[j - 1]
    <3>1. CASE j = k + 1
      <4>1. r[j] = new /\ j - 1 = k /\ k \in 1 .. k
        BY <2>5, <2>6, <3>1
      <4>2. r[k] = p
        BY <2>3, <2>6, <4>1
      <4> QED
        BY <1>1, <1>6, <4>1, <4>2
    <3>2. CASE j = k + 2
      <4>1. j \in (k + 2) .. (k0 + 1) /\ j - 1 = k + 1
        BY <2>5, <3>2
      <4>2. r[j] = q /\ r[j - 1] = new
        BY <2>5, <2>6, <4>1
      <4>3. q \in 1 .. MaxNodes /\ q # new
        BY <2>5, <2>7
      <4> QED
        BY <1>6, <4>2, <4>3
    <3>3. CASE j <= k
      <4>1. j \in 1 .. k /\ j - 1 \in 1 .. k /\ j \in 2 .. k0 /\ j \in 1 .. k0 /\ j # k + 1
        BY <2>5, <3>3
      <4>2. s[j] # q /\ s[j] \in 1 .. MaxNodes /\ s[j] # new
        BY <1>8, <2>5, <2>7, <4>1
      <4>3. prev'[s[j]] = s[j - 1]
        BY <1>6, <2>4, <4>1, <4>2
      <4> QED
        BY <2>6, <4>1, <4>3
    <3>4. CASE j > k + 2
      <4>1. /\ j \in (k + 2) .. (k0 + 1) /\ j - 1 \in (k + 2) .. (k0 + 1) /\ j - 1 \in 2 .. k0
            /\ j - 1 \in 1 .. k0 /\ j - 1 # k + 1
        BY <2>5, <3>4
      <4>2. s[j - 1] # q /\ s[j - 1] \in 1 .. MaxNodes /\ s[j - 1] # new
        BY <1>8, <2>5, <2>7, <4>1
      <4>3. prev'[s[j - 1]] = s[(j - 1) - 1]
        BY <1>6, <2>4, <4>1, <4>2
      <4> QED
        BY <2>6, <4>1, <4>3
    <3>5. j = k + 1 \/ j = k + 2 \/ j <= k \/ j > k + 2
      BY <2>5
    <3> QED
      BY <3>1, <3>2, <3>3, <3>4, <3>5
  <2>11. Len(r) = k0 + 1 /\ k0 + 1 # 0
    BY <2>5, <2>6
  <2> QED
    BY <2>8, <2>9, <2>10, <2>11 DEF Linked, r
<1>21. Asked(o[l], l)'
  <2>1. l \in alive' /\ dropped' = dropped
    BY <1>5
  <2> QED
    BY <1>11, <1>16, <1>20, <2>1 DEF Asked, r
<1>22. Apart(o)'
  <2>1. \A m \in Lists : Within(o[m], m)' /\ Asked(o[m], m)'
    BY <1>18, <1>19, <1>21
  <2> QED
    BY <1>5, <1>16, <1>17, <2>1 DEF Apart
<1> QED
  BY <1>5, <1>12, <1>13, <1>22 DEF Sound

\* DeteleAt(): the neighbours of the node are linked to each other.
LEMMA DeteleAtKeeps ==
  ASSUME LinksType, NEW own, Apart(own), NEW ord, Ascending(ord), NEW l \in alive,
         NEW p \in L!Named(l), L!DeteleAt(l, p)
  PROVE  Sound' /\ status' = status /\ joined' = joined
<1>0. MaxNodes \in Nat /\ used \in Nat /\ used \in 0 .. MaxNodes /\ l \in Lists
  BY ListAssumption DEF LinksType
<1>1. /\ p \in own[l] /\ p \in 1 .. used
      /\ ~ loose[l] => Linked(l) /\ \E k \in 1 .. Len(items[l]) : p = items[l][k]
  BY NamedNodes
<1>2. PICK q, b \in own[l] \cup {0} : q = next[p] /\ b = prev[p]
  BY <1>0, <1>1 DEF Apart, Within
<1>3. /\ p \notin freed /\ q \notin freed /\ b \notin freed /\ q \in 0 .. used /\ b \in 0 .. used
      /\ p \in 1 .. MaxNodes
  BY <1>0, <1>1, <1>2 DEF Apart, Within, LinksType
<1>4. /\ used' = used /\ freed' = freed /\ alive' = alive /\ status' = status
      /\ dropped' = dropped \cup {p} /\ joined' = joined
      /\ listTail' = listTail /\ listHead' = listHead
      /\ prev' = IF q = 0 THEN prev ELSE [prev EXCEPT ![q] = b]
      /\ next' = IF b = 0 THEN next ELSE [next EXCEPT ![b] = q]
      /\ items' = [items EXCEPT ![l] = L!RemoveFirst(items[l], p)]
      /\ loose' = [loose EXCEPT ![l] = loose[l] \/ p \in {listHead[l], listTail[l]}]
  BY <1>2, <1>3 DEF L!DeteleAt, L!Use, L!Nullptr, L!AfterDeteleAt
<1>5. /\ next \in [1 .. MaxNodes -> 0 .. used] /\ prev \in [1 .. MaxNodes -> 0 .. used]
      /\ items \in [Lists -> Seq(1 .. used)]
  BY DEF LinksType
<1>6. \A n \in 1 .. MaxNodes : /\ next'[n] = IF n = b THEN q ELSE next[n]
                               /\ prev'[n] = IF n = q THEN b ELSE prev[n]
  BY <1>0, <1>3, <1>4, <1>5
<1> DEFINE s == items[l]
           k0 == Len(items[l])
           r == items'[l]
<1>7. /\ k0 \in Nat /\ s \in Seq(1 .. used)
      /\ \A k \in 1 .. k0 : s[k] \in own[l] \ dropped /\ s[k] \in 1 .. MaxNodes
      /\ \A j, k \in 1 .. k0 : s[j] = s[k] => j = k
  <2>1. /\ k0 \in 0 .. MaxNodes /\ s \in Seq(1 .. used)
        /\ \A k \in 1 .. k0 : s[k] \in 1 .. MaxNodes /\ s[k] \in own[l] \ dropped
        /\ \A j, k \in 1 .. k0 : s[j] = s[k] => j = k
    BY <1>0, ItemsFit
  <2> HIDE DEF s, k0
  <2> QED
    BY <1>0, <2>1
<1>8. ASSUME NEW k \in 1 .. k0, s[k] = p
      PROVE  /\ r \in Seq(1 .. used) /\ Len(r) = k0 - 1
             /\ \A j \in 1 .. (k - 1) : r[j] = s[j]
             /\ \A j \in k .. (k0 - 1) : r[j] = s[j + 1]
  <2>1. r = RemoveAt(s, k)
    <3>1. L!SelectInSeq(s, LAMBDA n : n = p) = k
      <4>1. /\ {i \in 1 .. Len(s) : s[i] = p} # {}
            /\ L!Min({i \in 1 .. Len(s) : s[i] = p}) = k
        <5>1. /\ Len(s) \in Nat /\ k \in 1 .. Len(s)
              /\ \A i, j \in 1 .. Len(s) : s[i] = s[j] => i = j
          BY <1>7
        <5> HIDE DEF s
        <5>2. /\ {i \in 1 .. Len(s) : s[i] = s[k]} # {}
              /\ L!Min({i \in 1 .. Len(s) : s[i] = s[k]}) = k
          BY <5>1, FoundAt
        <5> QED
          BY <1>8, <5>2
      <4> QED
        BY <1>8, <4>1 DEF L!SelectInSeq
    <3>2. L!RemoveFirst(s, p) = L!RemoveAt(s, L!SelectInSeq(s, LAMBDA n : n = p))
      BY <1>8 DEF L!RemoveFirst
    <3>3. r = L!RemoveAt(s, k)
      BY <1>0, <1>4, <1>5, <3>1, <3>2
    <3> QED
      BY <3>3 DEF L!RemoveAt, RemoveAt
  <2>2. k \in 1 .. Len(s) /\ Len(s) = k0
    OBVIOUS
  <2> DEFINE U == 1 .. used
  <2>3. s \in Seq(U)
    BY <1>7
  <2> HIDE DEF s, r, k0, U
  <2>4. RemoveAt(s, k) \in Seq(U) /\ Shorter(RemoveAt(s, k), s, k)
    BY <2>2, <2>3, RemoveShortens
  <2>5. r \in Seq(U) /\ Shorter(r, s, k)
    BY <2>1, <2>4
  <2> QED
    BY <2>2, <2>5 DEF U, Shorter
<1>9. ASSUME \A k \in 1 .. k0 : s[k] # p PROVE r = s
  <2>1. L!RemoveFirst(s, p) = s
    BY <1>9 DEF L!RemoveFirst
  <2> QED
    BY <1>0, <1>4, <1>5, <2>1
<1>10. /\ r \in Seq(1 .. used)
       /\ \A j \in 1 .. Len(r) : r[j] \in own[l] \ dropped'
       /\ \A j, k \in 1 .. Len(r) : r[j] = r[k] => j = k
  <2>1. CASE \A k \in 1 .. k0 : s[k] # p
    <3>1. r = s
      BY <1>9, <2>1
    <3> QED
      BY <1>4, <1>7, <2>1, <3>1
  <2>2. ASSUME NEW k \in 1 .. k0, s[k] = p
        PROVE  /\ r \in Seq(1 .. used)
               /\ \A j \in 1 .. Len(r) : r[j] \in own[l] \ dropped'
               /\ \A i, j \in 1 .. Len(r) : r[i] = r[j] => i = j
    <3>1. /\ r \in Seq(1 .. used) /\ Len(r) = k0 - 1
          /\ \A j \in 1 .. (k - 1) : r[j] = s[j]
          /\ \A j \in k .. (k0 - 1) : r[j] = s[j + 1]
      BY <1>8, <2>2
    <3> HIDE DEF s, r, k0
    <3>2. ASSUME NEW j \in 1 .. (k0 - 1)
          PROVE  \/ j < k /\ j \in 1 .. k0 /\ r[j] = s[j]
                 \/ j >= k /\ j + 1 \in 1 .. k0 /\ r[j] = s[j + 1]
      <4>1. CASE j < k
        <5>1. j \in 1 .. (k - 1) /\ j \in 1 .. k0
          BY <1>7, <4>1
        <5> QED
          BY <3>1, <4>1, <5>1
      <4>2. CASE j >= k
        <5>1. j \in k .. (k0 - 1) /\ j + 1 \in 1 .. k0
          BY <1>7, <4>2
        <5> QED
          BY <3>1, <4>2, <5>1
      <4>3. j < k \/ j >= k
        BY <1>7
      <4> QED
        BY <4>1, <4>2, <4>3
    <3>3. ASSUME NEW j \in 1 .. (k0 - 1) PROVE r[j] \in own[l] \ dropped'
      <4>1. PICK i \in 1 .. k0 : r[j] = s[i] /\ i # k
        BY <1>7, <3>2
      <4>2. s[i] # p
        BY <1>7, <2>2, <4>1
      <4> QED
        BY <1>4, <1>7, <4>1, <4>2
    <3>4. ASSUME NEW i \in 1 .. (k0 - 1), NEW j \in 1 .. (k0 - 1), r[i] = r[j] PROVE i = j
      <4>1. CASE i < k /\ i \in 1 .. k0 /\ r[i] = s[i]
        <5>1. CASE j < k /\ j \in 1 .. k0 /\ r[j] = s[j]
          BY <1>7, <3>4, <4>1, <5>1
        <5>2. CASE j >= k /\ j + 1 \in 1 .. k0 /\ r[j] = s[j + 1]
          <6>1. i = j + 1
            BY <1>7, <3>4, <4>1, <5>2
          <6> QED
            BY <1>7, <4>1, <5>2, <6>1
        <5> QED
          BY <3>2, <5>1, <5>2
      <4>2. CASE i >= k /\ i + 1 \in 1 .. k0 /\ r[i] = s[i + 1]
        <5>1. CASE j < k /\ j \in 1 .. k0 /\ r[j] = s[j]
          <6>1. j = i + 1
            BY <1>7, <3>4, <4>2, <5>1
          <6> QED
            BY <1>7, <4>2, <5>1, <6>1
        <5>2. CASE j >= k /\ j + 1 \in 1 .. k0 /\ r[j] = s[j + 1]
          <6>1. i + 1 = j + 1
            BY <1>7, <3>4, <4>2, <5>2
          <6> QED
            BY <1>7, <6>1
        <5> QED
          BY <3>2, <5>1, <5>2
      <4> QED
        BY <3>2, <4>1, <4>2
    <3> QED
      BY <3>1, <3>3, <3>4
  <2> QED
    BY <2>1, <2>2
<1> HIDE DEF s, k0, r
<1>11. LinksType'
  <2>1. next' \in [1 .. MaxNodes -> 0 .. used] /\ prev' \in [1 .. MaxNodes -> 0 .. used]
    BY <1>3, <1>4, <1>5
  <2>2. \A n \in 1 .. MaxNodes : n > used => next'[n] = 0 /\ prev'[n] = 0
    <3> SUFFICES ASSUME NEW n \in 1 .. MaxNodes, n > used PROVE next'[n] = 0 /\ prev'[n] = 0
      OBVIOUS
    <3>1. n # q /\ n # b
      BY <1>0, <1>3
    <3> QED
      BY <1>6, <3>1 DEF LinksType
  <2>3. items' \in [Lists -> Seq(1 .. used)]
    <3>1. items' = [items EXCEPT ![l] = r]
      BY <1>0, <1>4, <1>5 DEF r
    <3> QED
      BY <1>5, <1>10, <3>1
  <2>4. dropped' \subseteq 1 .. used
    BY <1>1, <1>4 DEF LinksType
  <2>5. loose' \in [Lists -> BOOLEAN]
    <3>1. loose \in [Lists -> BOOLEAN] /\ (loose[l] \/ p \in {listHead[l], listTail[l]}) \in BOOLEAN
      BY <1>0, Zenon DEF LinksType
    <3> QED
      BY <1>4, <3>1
  <2> QED
    BY <1>4, <2>1, <2>2, <2>3, <2>4, <2>5 DEF LinksType
<1>12. Ascending(ord)'
  <2>1. \A n \in 1 .. MaxNodes : ord[n] \in Nat /\ next[n] \in 0 .. used /\ prev[n] \in 0 .. used
    BY <1>5 DEF Ascending
  <2>2. ASSUME q # 0, b # 0 PROVE ord[b] < ord[q]
    <3>1. ord[p] < ord[q] /\ ord[b] < ord[p]
      BY <1>2, <1>3, <2>2 DEF Ascending
    <3>2. b \in 1 .. MaxNodes /\ q \in 1 .. MaxNodes
      BY <1>0, <1>3, <2>2
    <3> QED
      BY <1>3, <2>1, <3>1, <3>2
  <2>3. ASSUME NEW n \in 1 .. MaxNodes, next'[n] # 0 PROVE ord[n] < ord[next'[n]]
    <3>1. CASE n = b
      BY <1>6, <2>2, <2>3, <3>1
    <3>2. CASE n # b
      BY <1>6, <2>3, <3>2 DEF Ascending
    <3> QED
      BY <3>1, <3>2
  <2>4. ASSUME NEW n \in 1 .. MaxNodes, prev'[n] # 0 PROVE ord[prev'[n]] < ord[n]
    <3>1. CASE n = q
      BY <1>6, <2>2, <2>4, <3>1
    <3>2. CASE n # q
      BY <1>6, <2>4, <3>2 DEF Ascending
    <3> QED
      BY <3>1, <3>2
  <2> QED
    BY <2>3, <2>4 DEF Ascending
<1>13. /\ own \in [Lists -> SUBSET (1 .. used)]
       /\ \A m \in Lists : own[m] \subseteq 1 .. used /\ own[m] \subseteq 1 .. MaxNodes
  <2>1. own \in [Lists -> SUBSET (1 .. used)]
    BY DEF Apart
  <2>2. 1 .. used \subseteq 1 .. MaxNodes
    BY <1>0
  <2> QED
    BY <2>1, <2>2
<1>14. ASSUME NEW m \in Lists, m # l PROVE Within(own[m], m)' /\ Asked(own[m], m)'
  <2>1. Within(own[m], m) /\ Asked(own[m], m) /\ own[m] \in SUBSET (1 .. used)
    BY <1>13 DEF Apart
  <2>2. \A n \in own[m] : n \in 1 .. MaxNodes /\ n # p /\ n # q /\ n # b
    <3>1. own[l] \cap own[m] = {} /\ 0 \notin own[m]
      BY <1>0, <1>13, <1>14 DEF Apart
    <3> QED
      BY <1>1, <1>2, <1>13, <3>1
  <2>3. \A n \in own[m] : next'[n] = next[n] /\ prev'[n] = prev[n]
    BY <1>6, <2>2
  <2>4. /\ listHead'[m] = listHead[m] /\ listTail'[m] = listTail[m] /\ items'[m] = items[m]
        /\ loose'[m] = loose[m]
    BY <1>4, <1>14 DEF LinksType
  <2>5. m \in alive => own[m] \cap freed' = {}
    BY <1>4, <2>1 DEF Within
  <2>6. \A n \in own[m] : n \in dropped' => n \in dropped
    BY <1>4, <2>2
  <2> QED
    BY <1>4, <2>1, <2>3, <2>4, <2>5, <2>6, OtherList
<1>15. Within(own[l], l)'
  <2>1. Within(own[l], l)
    BY <1>0 DEF Apart
  <2>2. \A n \in own[l] : next'[n] \in own[l] \cup {0} /\ prev'[n] \in own[l] \cup {0}
    BY <1>0, <1>2, <1>6, <1>13, <2>1 DEF Within
  <2> QED
    BY <1>4, <2>1, <2>2 DEF Within
<1>16. ASSUME ~ loose'[l] PROVE Linked(l)'
  <2>1. ~ loose[l] /\ p # listTail[l] /\ p # listHead[l]
    <3>1. loose'[l] = (loose[l] \/ p \in {listHead[l], listTail[l]})
      BY <1>0, <1>4 DEF LinksType
    <3> QED
      BY <1>16, <3>1
  <2>2. Linked(l)
    BY <1>1, <2>1
  <2>3. PICK k \in 1 .. k0 : s[k] = p
    BY <1>1, <2>1 DEF s, k0
  <2>4. /\ listHead[l] = IF k0 = 0 THEN 0 ELSE s[1]
        /\ listTail[l] = IF k0 = 0 THEN 0 ELSE s[k0]
        /\ \A j \in 1 .. k0 : next[s[j]] = IF j = k0 THEN 0 ELSE s[j + 1]
        /\ \A j \in 2 .. k0 : prev[s[j]] = s[j - 1]
    BY <2>2 DEF Linked, s, k0
  <2>5. /\ 1 < k /\ k < k0 /\ k0 \in Nat /\ k0 # 0 /\ k - 1 \in 1 .. k0 /\ k + 1 \in 1 .. k0
        /\ q = s[k + 1] /\ b = s[k - 1] /\ k - 1 \in 1 .. (k - 1) /\ k \in k .. (k0 - 1)
    <3>1. k # k0 /\ k0 # 0 /\ k # 1
      BY <1>7, <2>1, <2>3, <2>4
    <3>2. /\ 1 < k /\ k < k0 /\ k - 1 \in 1 .. k0 /\ k + 1 \in 1 .. k0 /\ k \in 2 .. k0
          /\ k - 1 \in 1 .. (k - 1) /\ k \in k .. (k0 - 1)
      BY <1>7, <3>1
    <3> QED
      BY <1>2, <1>7, <2>3, <2>4, <3>1, <3>2
  <2>6. /\ Len(r) = k0 - 1
        /\ \A j \in 1 .. (k - 1) : r[j] = s[j]
        /\ \A j \in k .. (k0 - 1) : r[j] = s[j + 1]
    BY <1>8, <2>3
  <2>7. listHead'[l] = r[1] /\ listTail'[l] = r[k0 - 1]
    <3>1. 1 \in 1 .. (k - 1) /\ k0 - 1 \in k .. (k0 - 1) /\ (k0 - 1) + 1 = k0
      BY <2>5
    <3> QED
      BY <1>4, <2>4, <2>5, <2>6, <3>1
  <2>8. ASSUME NEW j \in 1 .. (k0 - 1) PROVE next'[r[j]] = IF j = k0 - 1 THEN 0 ELSE r[j + 1]
    <3>1. CASE j = k - 1
      <4>1. j # k0 - 1 /\ j + 1 = k
        BY <2>5, <3>1
      <4>2. r[j] = b /\ r[j + 1] = q
        BY <2>5, <2>6, <3>1, <4>1
      <4>3. b \in 1 .. MaxNodes
        BY <1>7, <2>5
      <4> QED
        BY <1>6, <4>1, <4>2, <4>3
    <3>2. CASE j < k - 1
      <4>1. j \in 1 .. (k - 1) /\ j + 1 \in 1 .. (k - 1) /\ j \in 1 .. k0 /\ j # k0 /\ j # k0 - 1
            /\ j # k - 1
        BY <2>5, <3>2
      <4>2. s[j] # b /\ s[j] \in 1 .. MaxNodes
        BY <1>7, <2>5, <4>1
      <4>3. next'[s[j]] = s[j + 1]
        BY <1>6, <2>4, <4>1, <4>2
      <4> QED
        BY <2>6, <4>1, <4>3
    <3>3. CASE j >= k
      <4>1. j \in k .. (k0 - 1) /\ j + 1 \in 1 .. k0 /\ j + 1 # k - 1 /\ (j + 1 = k0 <=> j = k0 - 1)
        BY <2>5, <3>3
      <4>2. r[j] = s[j + 1] /\ s[j + 1] # b /\ s[j + 1] \in 1 .. MaxNodes
        BY <1>7, <2>5, <2>6, <4>1
      <4>3. next'[r[j]] = IF j = k0 - 1 THEN 0 ELSE s[(j + 1) + 1]
        BY <1>6, <2>4, <4>1, <4>2
      <4>4. j # k0 - 1 => r[j + 1] = s[(j + 1) + 1]
        <5>1. j # k0 - 1 => j + 1 \in k .. (k0 - 1)
          BY <2>5, <4>1
        <5> QED
          BY <2>6, <5>1
      <4> QED
        BY <4>3, <4>4
    <3>4. j = k - 1 \/ j < k - 1 \/ j >= k
      BY <2>5
    <3> QED
      BY <3>1, <3>2, <3>3, <3>4
  <2>9. ASSUME NEW j \in 2 .. (k0 - 1) PROVE prev'[r[j]] = r[j - 1]
    <3>1. CASE j = k
      <4>1. r[j] = q /\ r[j - 1] = b
        BY <2>5, <2>6, <3>1
      <4>2. q \in 1 .. MaxNodes
        BY <1>7, <2>5
      <4> QED
        BY <1>6, <4>1, <4>2
    <3>2. CASE j < k
      <4>1. j \in 1 .. (k - 1) /\ j - 1 \in 1 .. (k - 1) /\ j \in 1 .. k0 /\ j \in 2 .. k0 /\ j # k + 1
        BY <2>5, <3>2
      <4>2. s[j] # q /\ s[j] \in 1 .. MaxNodes
        BY <1>7, <2>5, <4>1
      <4>3. prev'[s[j]] = s[j - 1]
        BY <1>6, <2>4, <4>1, <4>2
      <4> QED
        BY <2>6, <4>1, <4>3
    <3>3. CASE j > k
      <4>1. /\ j \in k .. (k0 - 1) /\ j - 1 \in k .. (k0 - 1) /\ j + 1 \in 1 .. k0 /\ j + 1 \in 2 .. k0
            /\ j + 1 # k + 1 /\ (j + 1) - 1 = j /\ (j - 1) + 1 = j
        BY <2>5, <3>3
      <4>2. r[j] = s[j + 1] /\ s[j + 1] # q /\ s[j + 1] \in 1 .. MaxNodes
        BY <1>7, <2>5, <2>6, <4>1
      <4>3. prev'[r[j]] = s[j]
        BY <1>6, <2>4, <4>1, <4>2
      <4> QED
        BY <2>6, <4>1, <4>3
    <3>4. j = k \/ j < k \/ j > k
      BY <2>5
    <3> QED
      BY <3>1, <3>2, <3>3, <3>4
  <2>10. Len(r) = k0 - 1 /\ k0 - 1 # 0
    BY <2>5, <2>6
  <2> QED
    BY <2>7, <2>8, <2>9, <2>10 DEF Linked, r
<1>17. Asked(own[l], l)'
  <2>1. l \in alive'
    BY <1>4
  <2> QED
    BY <1>10, <1>16, <2>1 DEF Asked, r
<1>18. Apart(own)'
  <2>1. \A m \in Lists : Within(own[m], m)' /\ Asked(own[m], m)'
    BY <1>14, <1>15, <1>17
  <2>2. \A y, m \in Lists : y # m => own[y] \cap own[m] = {}
    BY DEF Apart
  <2> QED
    BY <1>4, <1>13, <2>1, <2>2 DEF Apart
<1> QED
  BY <1>4, <1>11, <1>12, <1>18 DEF Sound

\* ~LinkedList() frees nodes of the list only.
LEMMA DestroyKeeps ==
  ASSUME LinksType, NEW own, Apart(own), NEW ord, Ascending(ord), NEW l \in alive, L!Destroy(l)
  PROVE  Sound' /\ status' = status /\ joined' = joined
<1>0. l \in Lists /\ ~ L!Cyclic(l) /\ L!Reached(l) \subseteq own[l]
  BY WalkEnds, WalkOwned DEF LinksType
<1>1. L!Reached(l) \cap freed = {} /\ own[l] \subseteq 1 .. used
  BY <1>0 DEF Apart, Within
<1>2. /\ freed' = freed \cup L!Reached(l) /\ alive' = alive \ {l} /\ status' = status
      /\ next' = next /\ prev' = prev /\ listHead' = listHead /\ listTail' = listTail
      /\ used' = used /\ items' = items /\ loose' = loose /\ dropped' = dropped /\ joined' = joined
  BY <1>0, <1>1 DEF L!Destroy, L!fields, L!ghosts
<1>3. LinksType'
  BY <1>0, <1>1, <1>2 DEF LinksType
<1>4. Ascending(ord)'
  BY <1>2 DEF Ascending
<1>5. ASSUME NEW m \in Lists, m # l PROVE Within(own[m], m)' /\ Asked(own[m], m)'
  <2>1. Within(own[m], m) /\ Asked(own[m], m) /\ own[m] \in SUBSET (1 .. used)
    BY DEF Apart
  <2>2. own[l] \cap own[m] = {}
    BY <1>0, <1>5 DEF Apart
  <2>3. m \in alive => own[m] \cap freed' = {}
    BY <1>0, <1>2, <2>1, <2>2 DEF Within
  <2>4. (m \in alive' <=> m \in alive) /\ freed \subseteq freed'
    BY <1>2, <1>5
  <2> QED
    BY <1>2, <2>1, <2>3, <2>4, OtherList
<1>6. Within(own[l], l)'
  BY <1>0, <1>2 DEF Apart, Within
<1>7. Asked(own[l], l)'
  <2>1. Asked(own[l], l) /\ l \notin alive'
    BY <1>0, <1>2 DEF Apart
  <2>2. ASSUME ~ loose[l] PROVE \A k \in 1 .. Len(items[l]) : items[l][k] \in freed'
    <3>1. Linked(l)
      BY <2>1, <2>2 DEF Asked
    <3>2. L!Reached(l) = {items[l][k] : k \in 1 .. Len(items[l])}
      BY <1>0, <3>1, WalkLinked
    <3> QED
      BY <1>2, <3>2
  <2> QED
    BY <1>2, <2>1, <2>2 DEF Asked
<1>8. Apart(own)'
  <2>1. \A m \in Lists : Within(own[m], m)' /\ Asked(own[m], m)'
    BY <1>5, <1>6, <1>7
  <2> QED
    BY <1>2, <2>1 DEF Apart
<1> QED
  BY <1>2, <1>3, <1>4, <1>8 DEF Sound

\* Display() and Search() come to the end of the list and meet no freed node.
LEMMA FollowKeeps ==
  ASSUME LinksType, NEW own, Apart(own), NEW ord, Ascending(ord), NEW l \in alive, L!Follow(l)
  PROVE  Sound' /\ status' = status /\ joined' = joined
<1>0. l \in Lists /\ ~ L!Cyclic(l) /\ L!Reached(l) \subseteq own[l]
  BY WalkEnds, WalkOwned DEF LinksType
<1>1. L!Reached(l) \cap freed = {}
  BY <1>0 DEF Apart, Within
<1>2. /\ freed' = freed /\ alive' = alive /\ status' = status
      /\ next' = next /\ prev' = prev /\ listHead' = listHead /\ listTail' = listTail
      /\ used' = used /\ items' = items /\ loose' = loose /\ dropped' = dropped /\ joined' = joined
  BY <1>0, <1>1 DEF L!Follow, L!fields, L!ghosts
<1>3. LinksType' /\ Ascending(ord)'
  BY <1>2 DEF LinksType, Ascending
<1>4. Apart(own)'
  BY <1>2 DEF Apart, Within, Asked, Linked
<1> QED
  BY <1>2, <1>3, <1>4 DEF Sound

\* Every operation keeps the invariant; Union() sets joined, which stays set.
LEMMA ListStep ==
  ASSUME ListInv, L!Next
  PROVE  ListInv'
<1>1. PICK l \in alive :
        \/ L!PushBack(l)
        \/ \E n \in L!Named(l) : L!InsertAfter(l, n) \/ L!DeteleAt(l, n)
        \/ \E m \in alive \ {l} : L!Union(l, m)
        \/ L!Follow(l)
        \/ L!Destroy(l)
  BY DEF L!Next
<1>2. ASSUME NEW m, L!Union(l, m) PROVE joined'
  BY <1>2 DEF L!Union
<1>3. CASE joined
  <2>1. ASSUME L!PushBack(l) PROVE joined' = joined
    BY <2>1 DEF L!PushBack, L!Use, L!ghosts
  <2>2. ASSUME NEW n, L!InsertAfter(l, n) PROVE joined' = joined
    BY <2>2 DEF L!InsertAfter, L!Use, L!ghosts
  <2>3. ASSUME NEW n, L!DeteleAt(l, n) PROVE joined' = joined
    BY <2>3 DEF L!DeteleAt, L!Use, L!ghosts
  <2>4. ASSUME L!Follow(l) \/ L!Destroy(l) PROVE joined' = joined
    BY <2>4 DEF L!Follow, L!Destroy, L!ghosts
  <2>5. joined'
    BY <1>1, <1>2, <1>3, <2>1, <2>2, <2>3, <2>4
  <2> QED
    BY <2>5 DEF ListInv
<1>4. CASE ~ joined
  <2>1. PICK own, ord : Apart(own) /\ Ascending(ord)
    BY <1>4 DEF ListInv, Sound
  <2>2. LinksType /\ status = "ok"
    BY <1>4 DEF ListInv, Sound
  <2>3. CASE Sound' /\ status' = status /\ joined' = joined
    BY <2>2, <2>3 DEF ListInv
  <2>4. ASSUME L!PushBack(l) PROVE ListInv'
    BY <2>1, <2>2, <2>3, <2>4, PushBackKeeps
  <2>5. ASSUME NEW n \in L!Named(l), L!InsertAfter(l, n) PROVE ListInv'
    BY <2>1, <2>2, <2>3, <2>5, InsertAfterKeeps
  <2>6. ASSUME NEW n \in L!Named(l), L!DeteleAt(l, n) PROVE ListInv'
    BY <2>1, <2>2, <2>3, <2>6, DeteleAtKeeps
  <2>7. ASSUME L!Follow(l) PROVE ListInv'
    BY <2>1, <2>2, <2>3, <2>7, FollowKeeps
  <2>8. ASSUME L!Destroy(l) PROVE ListInv'
    BY <2>1, <2>2, <2>3, <2>8, DestroyKeeps
  <2>9. ASSUME NEW m, L!Union(l, m) PROVE ListInv'
    BY <1>2, <2>9 DEF ListInv
  <2> QED
    BY <1>1, <2>4, <2>5, <2>6, <2>7, <2>8, <2>9
<1> QED
  BY <1>3, <1>4

\* The invariant of the lists is one of the specification.
LEMMA ListsKeep == AllSpec => []ListInv
<1>1. AllInit => ListInv
  <2> SUFFICES ASSUME AllInit PROVE ListInv
    OBVIOUS
  <2>0. MaxNodes \in Nat
    BY ListAssumption
  <2>1. /\ next = [n \in 1 .. MaxNodes |-> 0] /\ prev = [n \in 1 .. MaxNodes |-> 0]
        /\ listHead = [l \in Lists |-> 0] /\ listTail = [l \in Lists |-> 0]
        /\ used = 0 /\ freed = {} /\ alive = Lists /\ status = "ok"
        /\ items = [l \in Lists |-> << >>] /\ loose = [l \in Lists |-> FALSE] /\ dropped = {}
    BY DEF AllInit, L!Init, L!Nodes, L!Nullptr
  <2>2. LinksType
    BY <2>0, <2>1 DEF LinksType
  <2>3. Ascending([n \in 1 .. MaxNodes |-> 0])
    BY <2>1 DEF Ascending
  <2>4. Apart([l \in Lists |-> {}])
    <3>1. ASSUME NEW l \in Lists PROVE Within({}, l) /\ Asked({}, l)
      <4>1. Len(items[l]) = 0 /\ listHead[l] = 0 /\ listTail[l] = 0
        BY <2>1
      <4>2. Linked(l)
        BY <4>1 DEF Linked
      <4> QED
        BY <2>1, <4>1, <4>2 DEF Within, Asked
    <3> DEFINE o == [l \in Lists |-> {}]
    <3>2. o \in [Lists -> SUBSET (1 .. used)] /\ \A l \in Lists : o[l] = {}
      OBVIOUS
    <3> HIDE DEF o
    <3>3. Apart(o)
      BY <3>1, <3>2 DEF Apart
    <3> QED
      BY <3>3 DEF o
  <2> QED
    BY <2>1, <2>2, <2>3, <2>4 DEF ListInv, Sound
<1>2. ListInv /\ [AllNext]_allVars => ListInv'
  <2> SUFFICES ASSUME ListInv, [AllNext]_allVars PROVE ListInv'
    OBVIOUS
  <2>1. L!Next \/ UNCHANGED listVars
    BY DEF AllNext, allVars
  <2>2. CASE UNCHANGED listVars
    <3>1. /\ freed' = freed /\ alive' = alive /\ status' = status /\ joined' = joined
          /\ next' = next /\ prev' = prev /\ listHead' = listHead /\ listTail' = listTail
          /\ used' = used /\ items' = items /\ loose' = loose /\ dropped' = dropped
      BY <2>2 DEF listVars
    <3>2. CASE joined
      BY <3>1, <3>2 DEF ListInv
    <3>3. CASE ~ joined
      <4>1. PICK own, ord : Apart(own) /\ Ascending(ord)
        BY <3>3 DEF ListInv, Sound
      <4>2. LinksType /\ status = "ok"
        BY <3>3 DEF ListInv, Sound
      <4>3. LinksType' /\ Ascending(ord)'
        BY <3>1, <4>1, <4>2 DEF LinksType, Ascending
      <4>4. Apart(own)'
        BY <3>1, <4>1 DEF Apart, Within, Asked, Linked
      <4> QED
        BY <3>1, <4>2, <4>3, <4>4 DEF ListInv, Sound
    <3> QED
      BY <3>2, <3>3
  <2> QED
    BY <2>1, <2>2, ListStep
<1> QED
  BY <1>1, <1>2, PTL DEF AllSpec

\* For any number of lists and nodes, and although ends go stale, no call uses
\* a null or freed node or follows a cycle before Union() was called.
THEOREM OnlyUnionIsUnsafe == AllSpec => []ListOnlyUnionBreaks
<1>1. ListInv => ListOnlyUnionBreaks
  BY DEF ListInv, ListOnlyUnionBreaks, L!OnlyUnionBreaks
<1> QED
  BY <1>1, ListsKeep, PTL

\* For any number of lists and nodes, a list whose ends were left alone is
\* linked both ways, holds exactly what its callers asked for and frees all of
\* it, whatever happens to the other lists.
THEOREM ListsHold == AllSpec => []ListWellLinked
<1>1. ListInv => ListWellLinked
  <2> SUFFICES ASSUME ListInv, NEW l \in Lists, ~ joined, ~ loose[l]
               PROVE  IF l \notin alive
                      THEN L!ToSet(items[l]) \subseteq freed \ dropped
                      ELSE /\ \A k \in 1 .. (MaxNodes + 1) :
                                L!Walk(l)[k] = IF k <= Len(items[l]) THEN items[l][k] ELSE 0
                           /\ listTail[l] = IF items[l] = << >> THEN 0 ELSE L!Last(items[l])
                           /\ \A k \in 2 .. Len(items[l]) : prev[items[l][k]] = items[l][k - 1]
    BY DEF ListWellLinked, L!WellLinked, L!Nullptr
  <2>1. PICK own : Apart(own)
    BY DEF ListInv, Sound
  <2>2. LinksType /\ Asked(own[l], l)
    BY <2>1 DEF ListInv, Sound, Apart
  <2>3. items[l] \in Seq(1 .. used)
    BY <2>2 DEF LinksType
  <2>4. CASE l \in alive
    <3>1. Linked(l)
      BY <2>2, <2>4 DEF Asked
    <3>2. listTail[l] = IF items[l] = << >> THEN 0 ELSE L!Last(items[l])
      <4>1. items[l] = << >> <=> Len(items[l]) = 0
        BY <2>3, EmptySeq
      <4> QED
        BY <3>1, <4>1 DEF Linked, L!Last
    <3>3. \A k \in 1 .. (MaxNodes + 1) :
            L!Walk(l)[k] = IF k <= Len(items[l]) THEN items[l][k] ELSE 0
      BY <2>1, <2>2, <3>1, WalkLinked
    <3> QED
      BY <2>4, <3>1, <3>2, <3>3 DEF Linked
  <2>5. CASE l \notin alive
    <3>1. DOMAIN items[l] = 1 .. Len(items[l])
      BY <2>3
    <3>2. \A k \in 1 .. Len(items[l]) : items[l][k] \in freed \ dropped
      BY <2>2, <2>5 DEF Asked
    <3> QED
      BY <2>5, <3>1, <3>2 DEF L!ToSet
  <2> QED
    BY <2>4, <2>5
<1> QED
  BY <1>1, ListsKeep, PTL

=============================================================================
