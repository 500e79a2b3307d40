---------------------------- MODULE MCResources ----------------------------
(***************************************************************************)
(* What bounds a heavy call, for TLC: the leases of resource_profile.py    *)
(* and the artifacts of output_store.py.  They share no state, so one run  *)
(* explores each of them with the other at rest.                           *)
(***************************************************************************)
EXTENDS HeavyLimiter, OutputStore

CONSTANTS c1, c2, k1, k2

VARIABLE part

TwoStreams == <<"stdout", "stderr">>

\* Calls and clients are interchangeable.
Interchangeable == Permutations({c1, c2}) \union Permutations({k1, k2})

ASSUME ResourcesAssumption == Pool!PoolAssumption

allVars == <<part, vars, storeVars>>

ResourcesInit ==
    /\ part \in {"leases", "store"}
    /\ Init /\ (part # "leases" => kind = [c \in Calls |-> "bounded"] /\ mayCancel = [c \in Calls |-> FALSE])
    /\ StoreInit

ResourcesNext ==
    /\ UNCHANGED part
    /\ \/ part = "leases" /\ Next /\ UNCHANGED storeVars
       \/ part = "store" /\ StoreNext /\ UNCHANGED vars

ResourcesSpec == ResourcesInit /\ [][ResourcesNext]_allVars
=============================================================================
