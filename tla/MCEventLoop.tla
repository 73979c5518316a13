---------------------------- MODULE MCEventLoop ----------------------------
(***************************************************************************)
(* Instances of EventLoop for TLC.                                         *)
(***************************************************************************)
EXTENDS EventLoop, TLC

\* Clients, and workers, are interchangeable.
Symmetric == Permutations(Conns) \cup Permutations(Workers)
=============================================================================
