-------------------------- MODULE MCArtifactStore --------------------------
(* A small instance of ArtifactStore: interchangeable readers. *)
EXTENDS ArtifactStore, TLC

Symmetry == Permutations(Readers)
=============================================================================
