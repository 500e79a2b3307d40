--------------------------- MODULE MCGitWorkflow ---------------------------
(* GitWorkflow alone, for TLC. *)
EXTENDS GitWorkflow, GitJobs
=============================================================================
