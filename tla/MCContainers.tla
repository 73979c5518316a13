---------------------------- MODULE MCContainers ----------------------------
(***************************************************************************)
(* Instances, for TLC, of the containers and algorithms that stand beside  *)
(* the servers.  They do not interact: a behaviour runs the one that       *)
(* `subject' names and the others keep their initial state, so that every  *)
(* property can be stated as in its own module.                            *)
(***************************************************************************)
EXTENDS RingQueue

CONSTANTS
  stack_size_, SizeMod, Overflow, Underflow, Junk,
  BufferSizes, MaxLen, Throws,
  Lists, MaxNodes,
  Sizes, Keys, CacheItems, MaxInserts,
  Objects, Blocks, Null,
  Callers, NoThread,
  MaxLength, SortVals

\* The size of the stack is a size_t.
ASSUME StackAssumption == stack_size_ \in Nat /\ SizeMod \in Nat /\ stack_size_ < SizeMod
\* The arguments of the array's constructor are unsigned.
ASSUME ArrayAssumption == BufferSizes \subseteq Nat
\* The heap compares numbers, and a size_t counts them.
ASSUME HeapAssumption == Vals \subseteq Int /\ MaxLen \in Nat /\ MaxLen < SizeMod
ASSUME ListAssumption == MaxNodes \in Nat
\* The arguments of the constructors of the caches are unsigned.
ASSUME CacheAssumption == Sizes \subseteq Nat
ASSUME OwnershipAssumption == Null \notin Blocks
ASSUME SingletonAssumption == NoThread \notin Callers
ASSUME SortAssumption == MaxLength \in Nat /\ SortVals \subseteq Int

VARIABLES
  subject,
  stackUp, stackBuffer, top_, stackOut,
  arrayBuffer, buf_size_, actual_size_, wild, ordered, arrayOut,
  next, prev, listHead, listTail, used, freed, alive, status, items, loose, dropped, joined,
  max_size_, stamped, generation_, lru_, cache_, calls, badOut, goodOut,
  kind, ptr, allocated, lost, misfreed,
  atomic_instance_, initialization_mutex_, made, at, instance,
  my_array, length, sortH, sortI, loop, given, passed

S == INSTANCE Stack WITH up <- stackUp, buffer_ <- stackBuffer, out <- stackOut
A == INSTANCE DArray WITH buffer_ <- arrayBuffer, out <- arrayOut
L == INSTANCE LinkedList WITH head_ <- listHead, tail_ <- listTail
C == INSTANCE LruCaches WITH Items <- CacheItems
O == INSTANCE Ownership
G == INSTANCE Singleton
H == INSTANCE ShellSort WITH h <- sortH, i <- sortI, Vals <- SortVals

stackVars == <<stackUp, stackBuffer, top_, stackOut>>
arrayVars == <<arrayBuffer, buf_size_, actual_size_, wild, ordered, arrayOut>>
listVars == <<next, prev, listHead, listTail, used, freed, alive, status, items, loose, dropped, joined>>
cacheVars == <<max_size_, stamped, generation_, lru_, cache_, calls, badOut, goodOut>>
ownerVars == <<kind, ptr, allocated, lost, misfreed>>
singletonVars == <<atomic_instance_, initialization_mutex_, made, at, instance>>
sortVars == <<my_array, length, sortH, sortI, loop, given, passed>>

allVars ==
  <<subject, vars, stackVars, arrayVars, listVars, cacheVars, ownerVars, singletonVars, sortVars>>

AllInit ==
  /\ subject \in {"queue", "stack", "array", "list", "caches", "ownership", "singleton", "sort"}
  /\ Init /\ S!Init /\ L!Init /\ O!Init /\ G!Init
  /\ A!Init /\ (subject # "array" => buf_size_ = 0)
  /\ C!Init /\ (subject # "caches" => max_size_ = 0)
  /\ H!Init /\ (subject # "sort" => length = 0)

AllNext ==
  /\ \/ subject = "queue" /\ Next
     \/ subject = "stack" /\ S!Next
     \/ subject = "array" /\ A!Next
     \/ subject = "list" /\ L!Next
     \/ subject = "caches" /\ C!Next
     \/ subject = "ownership" /\ O!Next
     \/ subject = "singleton" /\ G!Next
     \/ subject = "sort" /\ H!Next
  /\ IF subject = "queue" THEN TRUE ELSE UNCHANGED vars
  /\ IF subject = "stack" THEN TRUE ELSE UNCHANGED stackVars
  /\ IF subject = "array" THEN TRUE ELSE UNCHANGED arrayVars
  /\ IF subject = "list" THEN TRUE ELSE UNCHANGED listVars
  /\ IF subject = "caches" THEN TRUE ELSE UNCHANGED cacheVars
  /\ IF subject = "ownership" THEN TRUE ELSE UNCHANGED ownerVars
  /\ IF subject = "singleton" THEN TRUE ELSE UNCHANGED singletonVars
  /\ IF subject = "sort" THEN TRUE ELSE UNCHANGED sortVars
  /\ UNCHANGED subject

AllSpec == AllInit /\ [][AllNext]_allVars

(***************************************************************************)
(* The properties of each module under a name of their own.                *)
(***************************************************************************)
\* The stack is last-in first-out (Stack!IsLifo).
StackIsLifo == S!IsLifo
\* The array is only written inside its buffer (DArray!WrittenInside).
ArrayWrittenInside == A!WrittenInside
\* The heap is a priority queue (DArray!IsPriorityQueue).
HeapIsPriorityQueue == A!IsPriorityQueue
\* Lists that kept their ends hold what they were asked to (LinkedList!WellLinked).
ListWellLinked == L!WellLinked
\* Without Union() no call on the lists is undefined (LinkedList!OnlyUnionBreaks).
ListOnlyUnionBreaks == L!OnlyUnionBreaks
\* The list and the map of the good cache agree (LruCaches!IteratorsValid).
CacheIteratorsValid == C!IteratorsValid
\* Blocks have one owner (Ownership!OneOwner).
BlocksHaveOneOwner == O!OneOwner
\* Double-checked locking makes one object (Singleton!OneInstance).
SingletonIsOne == G!OneInstance
\* Sorting loses no value, passes are not undone and the array ends up sorted
\* (ShellSort!KeepsValues, ShellSort!StaysOrdered).
ArraySorted == H!KeepsValues /\ H!StaysOrdered
\* The good cache is a least recently used cache, and the bad one is one that
\* never replaces an item (LruCaches!GoodIsLru, LruCaches!BadIsLru).
CachesAreLru == C!GoodIsLru /\ C!BadIsLru

=============================================================================
