------------------------------ MODULE LeasePool ------------------------------
(***************************************************************************)
(* What the heavy operation limiter of resource_profile.py promises: at    *)
(* most Capacity calls hold a lease at once, a lease is taken and given    *)
(* back one at a time, and only by the call it belongs to.                 *)
(***************************************************************************)
EXTENDS Naturals, FiniteSets

CONSTANTS Calls, Capacity

\* What the constants must be.
PoolAssumption == Capacity \in Nat \ {0} /\ IsFiniteSet(Calls)

VARIABLE holders

Init == holders = {}

Take(c) ==
    /\ c \in Calls \ holders
    /\ Cardinality(holders) < Capacity
    /\ holders' = holders \union {c}

Give(c) ==
    /\ c \in holders
    /\ holders' = holders \ {c}

Next == \E c \in Calls : Take(c) \/ Give(c)

Spec == Init /\ [][Next]_holders

-----------------------------------------------------------------------------
\* No more leases are out than the server is configured for
\* (max_heavy_operations).
WithinCapacity ==
    /\ holders \subseteq Calls
    /\ Cardinality(holders) <= Capacity
=============================================================================
