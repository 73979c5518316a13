----------------------------- MODULE LruCaches -----------------------------
(***************************************************************************)
(* The two caches of examples/, driven by the same calls:                  *)
(* 038_bad_lru_cache.cpp stamps entries with a generation and searches for *)
(* the oldest, 039_good_lru_cache.cpp keeps a list of keys and in each     *)
(* entry an iterator into it.                                              *)
(***************************************************************************)
EXTENDS Integers, SequencesExt, FiniteSetsExt

CONSTANTS
  Sizes,        \* arguments of the constructors
  Keys, Items,
  MaxInserts    \* bound: insert() calls

VARIABLES
  max_size_,
  stamped, generation_,   \* the bad cache: key -> [data, gen]
  lru_, cache_,           \* the good one: list of [key, id], key -> [data, lru_it]
  calls,                  \* insert() calls so far; names the list nodes
  badOut, goodOut         \* the last call and what find() returned

vars == <<max_size_, stamped, generation_, lru_, cache_, calls, badOut, goodOut>>

Init ==
  /\ max_size_ \in Sizes
  /\ stamped = << >> /\ generation_ = 0
  /\ lru_ = << >> /\ cache_ = << >>
  /\ calls = 0 /\ badOut = << >> /\ goodOut = << >>

With(f, key, x) == [k \in DOMAIN f \cup {key} |-> IF k = key THEN x ELSE f[k]]

Without(f, key) == [k \in DOMAIN f \ {key} |-> f[k]]

\* Mutant: the youngest entry is dropped.
VictimYoungest(c) == CHOOSE k \in DOMAIN c : \A j \in DOMAIN c : c[j].gen <= c[k].gen

\* The entry of the least generation.
Victim(c) == CHOOSE k \in DOMAIN c : \A j \in DOMAIN c : c[k].gen <= c[j].gen

\* insert() keeps the old data of a known key and only stamps it anew.
BadInsert(key, item) ==
  IF key \in DOMAIN stamped
  THEN /\ generation_' = generation_ + 2
       /\ stamped' = [stamped EXCEPT ![key].gen = generation_ + 2]
  ELSE LET c == With(stamped, key, [data |-> item, gen |-> generation_ + 1]) IN
       /\ generation_' = generation_ + 1
       /\ stamped' = IF Cardinality(DOMAIN c) > max_size_ THEN Without(c, Victim(c)) ELSE c

\* Mutant: the node of a known key stays in the list.
ErasedNot(list, id) == list

\* The list without the node an iterator points at.
Erased(list, id) == RemoveAt(list, CHOOSE n \in DOMAIN list : list[n].id = id)

GoodInsert(key, item) ==
  LET list == <<[key |-> key, id |-> calls + 1]>> \o lru_
      c    == With(cache_, key, [data |-> item, lru_it |-> calls + 1])
  IN IF key \in DOMAIN cache_
     THEN lru_' = Erased(list, cache_[key].lru_it) /\ cache_' = c
     ELSE IF Cardinality(DOMAIN c) > max_size_
     THEN lru_' = Front(list) /\ cache_' = Without(c, Last(list).key)
     ELSE lru_' = list /\ cache_' = c

Insert(key, item) ==
  /\ calls < MaxInserts
  /\ calls' = calls + 1
  /\ IF max_size_ # 0 THEN BadInsert(key, item) /\ GoodInsert(key, item)
     ELSE UNCHANGED <<stamped, generation_, lru_, cache_>>
  /\ badOut' = <<"insert", key, item>> /\ goodOut' = badOut'
  /\ UNCHANGED max_size_

BadFound(key) == IF key \in DOMAIN stamped THEN <<stamped[key].data>> ELSE << >>

GoodFound(key) == IF key \in DOMAIN cache_ THEN <<cache_[key].data>> ELSE << >>

\* find() moves nothing in either cache.
Find(key) ==
  /\ badOut' = <<"find", key>> \o BadFound(key)
  /\ goodOut' = <<"find", key>> \o GoodFound(key)
  /\ UNCHANGED <<max_size_, stamped, generation_, lru_, cache_, calls>>

\* The generation goes on counting.
Clear ==
  /\ stamped' = << >> /\ lru_' = << >> /\ cache_' = << >>
  /\ badOut' = <<"clear">> /\ goodOut' = badOut'
  /\ UNCHANGED <<max_size_, generation_, calls>>

Next == (\E k \in Keys : Find(k) \/ \E i \in Items : Insert(k, i)) \/ Clear

Spec == Init /\ [][Next]_vars

(***************************************************************************)
(* Properties.                                                             *)
(***************************************************************************)
\* The list and the map of the good cache name the same keys, once each, and
\* every iterator points at its key's own node, so that erase() is never given
\* a dead one (039_good_lru_cache.cpp:41-57).
IteratorsValid ==
  /\ Len(lru_) = Cardinality(DOMAIN cache_)
  /\ \A k \in DOMAIN cache_ : \E i \in DOMAIN lru_ : lru_[i] = [key |-> k, id |-> cache_[k].lru_it]

Good == INSTANCE LeastRecentlyUsed WITH
  Overwrites <- TRUE, cap <- max_size_, out <- goodOut,
  entries <- [i \in DOMAIN lru_ |-> <<lru_[i].key,
                IF lru_[i].key \in DOMAIN cache_ THEN cache_[lru_[i].key].data ELSE lru_[i].key>>]

\* The good cache is a least recently used cache.
GoodIsLru == Good!Spec

\* The keys of the bad cache, the latest first.
ByAge ==
  CHOOSE s \in [1 .. Cardinality(DOMAIN stamped) -> DOMAIN stamped] :
    \A i, j \in DOMAIN s : i < j => stamped[s[i]].gen > stamped[s[j]].gen

Bad == INSTANCE LeastRecentlyUsed WITH
  Overwrites <- FALSE, cap <- max_size_, out <- badOut,
  entries <- [i \in DOMAIN ByAge |-> <<ByAge[i], stamped[ByAge[i]].data>>]

\* The bad cache keeps and drops the same keys, but goes on answering with the
\* item a key had when it entered (038_bad_lru_cache.cpp:55).
BadIsLru == Bad!Spec

=============================================================================
