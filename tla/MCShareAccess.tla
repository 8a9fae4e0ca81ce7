---------------------------- MODULE MCShareAccess ----------------------------
(* Reading shares on a small instance. *)
EXTENDS ShareAccess, TLC

=============================================================================
