---------------------------- MODULE MCArtifactHub ----------------------------
(* The Hub on a small instance. *)
EXTENDS ArtifactHub, TLC

Symmetry == Permutations(Users) \cup Permutations(Contents) \cup Permutations(Threads)

=============================================================================
