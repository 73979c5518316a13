----------------------------- MODULE Singleton -----------------------------
(***************************************************************************)
(* The double-checked locking of examples/007_private_constructor.cpp:     *)
(* GetInstance() of the template Singleton, called by several threads.     *)
(***************************************************************************)
EXTENDS Integers, FiniteSets

CONSTANTS
  Callers,   \* threads
  NoThread   \* the mutex is free

Nullptr == 0

VARIABLES
  atomic_instance_,        \* the published object, Nullptr at first
  initialization_mutex_,   \* its holder
  made,                    \* objects constructed, numbered
  at,                      \* per thread: where it is in GetInstance()
  instance                 \* per thread: its local pointer

vars == <<atomic_instance_, initialization_mutex_, made, at, instance>>

Init ==
  /\ atomic_instance_ = Nullptr /\ initialization_mutex_ = NoThread /\ made = 0
  /\ at = [t \in Callers |-> "load"]
  /\ instance = [t \in Callers |-> Nullptr]

\* The first load, without the lock.
Load(t) ==
  /\ at[t] = "load"
  /\ instance' = [instance EXCEPT ![t] = atomic_instance_]
  /\ at' = [at EXCEPT ![t] = IF atomic_instance_ = Nullptr THEN "lock" ELSE "returned"]
  /\ UNCHANGED <<atomic_instance_, initialization_mutex_, made>>

Lock(t) ==
  /\ at[t] = "lock" /\ initialization_mutex_ = NoThread
  /\ initialization_mutex_' = t
  /\ at' = [at EXCEPT ![t] = "reload"]
  /\ UNCHANGED <<atomic_instance_, made, instance>>

\* Mutant: the pointer is not loaded again under the lock.
ReloadSkipped(t) ==
  /\ at[t] = "reload"
  /\ at' = [at EXCEPT ![t] = "new"]
  /\ UNCHANGED <<atomic_instance_, initialization_mutex_, made, instance>>

Reload(t) ==
  /\ at[t] = "reload"
  /\ instance' = [instance EXCEPT ![t] = atomic_instance_]
  /\ at' = [at EXCEPT ![t] = IF atomic_instance_ = Nullptr THEN "new" ELSE "unlock"]
  /\ UNCHANGED <<atomic_instance_, initialization_mutex_, made>>

New(t) ==
  /\ at[t] = "new"
  /\ made' = made + 1
  /\ instance' = [instance EXCEPT ![t] = made + 1]
  /\ at' = [at EXCEPT ![t] = "store"]
  /\ UNCHANGED <<atomic_instance_, initialization_mutex_>>

Store(t) ==
  /\ at[t] = "store"
  /\ atomic_instance_' = instance[t]
  /\ at' = [at EXCEPT ![t] = "unlock"]
  /\ UNCHANGED <<initialization_mutex_, made, instance>>

Unlock(t) ==
  /\ at[t] = "unlock"
  /\ initialization_mutex_' = NoThread
  /\ at' = [at EXCEPT ![t] = "returned"]
  /\ UNCHANGED <<atomic_instance_, made, instance>>

Step(t) == Load(t) \/ Lock(t) \/ Reload(t) \/ New(t) \/ Store(t) \/ Unlock(t)

Next == \E t \in Callers : Step(t)

Spec == Init /\ [][Next]_vars

(***************************************************************************)
(* Properties.                                                             *)
(***************************************************************************)
\* However the threads interleave, one object is constructed and every caller
\* gets it (007_private_constructor.cpp:112-124).
OneInstance ==
  /\ made <= 1
  /\ \A t \in Callers : at[t] = "returned" => instance[t] = 1

=============================================================================
