---------------------------- MODULE MCShareCenter ----------------------------
(* The share center and its sidebar row on a small instance. *)
EXTENDS ShareCenter

=============================================================================
