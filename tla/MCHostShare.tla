----------------------------- MODULE MCHostShare -----------------------------
(* The plugin host on a small instance. *)
EXTENDS HostShare

=============================================================================
