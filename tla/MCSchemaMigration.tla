-------------------------- MODULE MCSchemaMigration --------------------------
(* The migration on a small instance. *)
EXTENDS SchemaMigration

=============================================================================
