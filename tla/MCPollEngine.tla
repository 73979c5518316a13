---------------------------- MODULE MCPollEngine ----------------------------
(***************************************************************************)
(* Instances of PollEngine for TLC.                                        *)
(***************************************************************************)
EXTENDS PollEngine, TLC

\* The clients are interchangeable.
Symmetric == Permutations(Conns)
=============================================================================
