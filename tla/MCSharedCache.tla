--------------------------- MODULE MCSharedCache ---------------------------
(* A small instance of SharedCache: interchangeable runs. *)
EXTENDS SharedCache, TLC

Symmetry == Permutations(Runs)
=============================================================================
