---------------------------- MODULE MCFilePicker -----------------------------
(* The file picker on a small instance. *)
EXTENDS FilePicker

=============================================================================
