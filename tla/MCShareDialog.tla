---------------------------- MODULE MCShareDialog ----------------------------
(* The share dialog on a small instance. *)
EXTENDS ShareDialog, TLC

Symmetry == Permutations(Dates)

=============================================================================
