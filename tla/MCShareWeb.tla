----------------------------- MODULE MCShareWeb ------------------------------
(* The page of a share on a small instance. *)
EXTENDS ShareWeb

=============================================================================
