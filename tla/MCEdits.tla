------------------------------ MODULE MCEdits ------------------------------
(* Edits alone, for TLC. *)
EXTENDS Edits, EditJobs
=============================================================================
