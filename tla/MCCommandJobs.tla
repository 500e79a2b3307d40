--------------------------- MODULE MCCommandJobs ---------------------------
(* Instances of CommandJobs for TLC; the constants are in the cfg files. *)
EXTENDS CommandJobs, TLC

\* Two starts with one key are interchangeable in the safety properties.
JobSymmetry == Permutations(Jobs)
=============================================================================
