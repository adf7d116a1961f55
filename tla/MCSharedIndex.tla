--------------------------- MODULE MCSharedIndex ---------------------------
(* Values of the constants for TLC. Clients are interchangeable. *)
EXTENDS SharedIndex, TLC

Symmetry == Permutations(Clients)
=============================================================================
