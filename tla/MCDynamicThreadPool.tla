------------------------ MODULE MCDynamicThreadPool ------------------------
(* Small pools for TLC. *)
EXTENDS DynamicThreadPool, TLC

Symmetry == Permutations(Threads)
=============================================================================
