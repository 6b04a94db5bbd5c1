----------------------- MODULE MCAsioServerTransport -----------------------
(* Small transports for TLC. *)
EXTENDS AsioServerTransport, TLC

Symmetry == Permutations(Sessions)
=============================================================================
