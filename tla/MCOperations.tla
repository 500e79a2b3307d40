---------------------------- MODULE MCOperations ----------------------------
(* Small instances of Operations for TLC.  The parent of every child and of  *)
(* every detached operation is the request named first.                      *)
EXTENDS Operations

CONSTANTS Owner

MCParent == [o \in Children \cup Detached |-> Owner]
=============================================================================
