---------------------------- MODULE HeavyLimiter ----------------------------
(***************************************************************************)
(* The limiter of heavy operations (resource_profile.py) and the calls     *)
(* that take a lease from it: run_command, search_text, the git and gh     *)
(* calls that go through run_bounded, and terminal sessions.               *)
(*                                                                         *)
(* A lease is a permit of a semaphore and an entry in a table; the two     *)
(* change in separate steps.  The entry carries the callback that kills    *)
(* the call's process, and the operation the call belongs to carries it    *)
(* again: cancel_heavy_operation tries the registry first and the          *)
(* limiter second.  One step is one locked section or one call that may    *)
(* block; calls and clients interleave at every step.                      *)
(***************************************************************************)
EXTENDS Naturals, FiniteSets

CONSTANTS Calls,        \* the heavy calls; each runs once
          Clients,      \* callers of the two cancel tools, one request each
          Capacity,     \* max_heavy_operations
          Kinds,        \* the kinds of call to consider
          NoCall

\* What the constants must be.
ASSUME LimiterAssumption ==
    /\ Capacity \in Nat \ {0}
    /\ IsFiniteSet(Calls)
    /\ NoCall \notin Calls
    /\ Kinds \subseteq {"command", "search", "bounded", "terminal"}

VARIABLES
    kind,       \* kind[c]: which code runs the call
    mayCancel,  \* mayCancel[c]: the operation of the call is cancellable
    pc,         \* pc[c]: where the thread of the call is
    how,        \* how[c]: how its body ended
    recorded,   \* the calls whose finish record is in the audit log
    alive,      \* alive[c]: its process runs
    kills,      \* kills[c]: callback threads the registry has started
    event,      \* event[c]: the cancel event of its operation
    callback,   \* callback[c]: its operation knows the kill callback
    permits,    \* what the semaphore has left
    table,      \* the calls that have an entry
    cancel,     \* cancel[c]: the callback of the entry
    requested,  \* requested[c]: cancel_requested of the entry
    at,         \* at[k]: where the client k is
    target,     \* target[k]: the call it wants to cancel
    answer      \* answer[k]: what it was told

callVars == <<pc, how, recorded, alive, callback>>
fixed    == <<kind, mayCancel>>
body     == <<how, recorded>>
entries  == <<table, cancel, requested>>
clients  == <<at, target, answer>>
vars == <<kind, mayCancel, pc, how, recorded, alive, kills, event, callback, permits,
          table, cancel, requested, at, target, answer>>

PCs == {"idle", "refused", "taken", "held", "checked", "launched", "half",
        "running", "clearing", "forgetting", "cleanup", "popped", "freed",
        "returned"}

Init ==
    /\ kind \in [Calls -> Kinds]
    /\ mayCancel \in [Calls -> BOOLEAN]
    /\ \A c \in Calls : kind[c] = "terminal" => mayCancel[c]
    /\ pc = [c \in Calls |-> "idle"]
    /\ how = [c \in Calls |-> "none"]
    /\ recorded = {}
    /\ alive = [c \in Calls |-> FALSE]
    /\ kills = [c \in Calls |-> 0]
    /\ event = [c \in Calls |-> FALSE]
    /\ callback = [c \in Calls |-> FALSE]
    /\ permits = Capacity
    /\ table = {}
    /\ cancel = [c \in Calls |-> "none"]
    /\ requested = [c \in Calls |-> FALSE]
    /\ at = [k \in Clients |-> "idle"]
    /\ target = [k \in Clients |-> NoCall]
    /\ answer = [k \in Clients |-> "none"]

Goto(c, from, to) == pc[c] = from /\ pc' = [pc EXCEPT ![c] = to]

-----------------------------------------------------------------------------
(* A call takes its lease and starts its process.                          *)

\* Mutant of Acquire: a permit more than there are.
AcquireOffByOne(c) ==
    /\ permits + 1 > 0
    /\ permits' = permits - 1
    /\ Goto(c, "idle", "taken")
    /\ UNCHANGED <<fixed, body, alive, kills, event, callback, entries, clients>>

\* acquire_heavy_operation takes a permit without waiting.
Acquire(c) ==
    /\ permits > 0
    /\ permits' = permits - 1
    /\ Goto(c, "idle", "taken")
    /\ UNCHANGED <<fixed, body, alive, kills, event, callback, entries, clients>>

Refuse(c) ==
    /\ permits = 0
    /\ Goto(c, "idle", "refused")
    /\ UNCHANGED <<fixed, body, alive, kills, event, callback, permits, entries, clients>>

Enter(c) ==
    /\ Goto(c, "taken", "held")
    /\ table' = table \union {c}
    /\ UNCHANGED <<fixed, body, alive, kills, event, callback, permits, cancel,
                   requested, clients>>

\* Mutant of Keeps: search_text without its finally.
KeepsSearch(c, end) ==
    /\ end = "uncaught"
    /\ kind[c] \in {"command", "search"} \/ (kind[c] = "terminal" /\ pc[c] # "running")

\* How a body ends: with an exception its caller does not catch, or not.
\* run_command releases after a result, after OperationCancelled and after
\* OSError and ArtifactQuotaError; start_terminal_session releases after
\* OperationCancelled and OSError, and leaves the rest to the reader.  Any
\* other exception passes and the lease stays.  The other callers release in
\* a finally.
Keeps(c, end) ==
    /\ end = "uncaught"
    /\ kind[c] = "command" \/ (kind[c] = "terminal" /\ pc[c] # "running")

\* The finish record of the audit log comes with a result or with an error
\* the caller catches; OperationCancelled is raised past it.
EndBody(c, end, next) ==
    /\ how' = [how EXCEPT ![c] = end]
    /\ recorded' = IF end = "done" THEN recorded \union {c} ELSE recorded
    /\ pc' = [pc EXCEPT ![c] = IF Keeps(c, end) THEN "returned" ELSE next]

\* The checkpoint before Popen reads the event of the request; a terminal is
\* an operation of its own by then.
Check(c) ==
    /\ event[c] => kind[c] = "terminal"
    /\ Goto(c, "held", "checked")
    /\ UNCHANGED <<fixed, body, alive, kills, event, callback, permits, entries, clients>>

\* The checkpoint raises, or something fails on the way to the process.
GiveUp(c) ==
    /\ pc[c] \in {"held", "checked"}
    /\ \E end \in {"done", "uncaught"} \union (IF event[c] THEN {"cancelled"} ELSE {}) :
          EndBody(c, end, "cleanup")
    /\ UNCHANGED <<fixed, alive, kills, event, callback, permits, entries, clients>>

Launch(c) ==
    /\ Goto(c, "checked", "launched")
    /\ alive' = [alive EXCEPT ![c] = TRUE]
    /\ UNCHANGED <<fixed, body, kills, event, callback, permits, entries, clients>>

\* HeavyOperationLease.set_cancel, first half.  A detached lease and the
\* calls that run through run_bounded leave the entry without a callback.
SetEntryCancel(c) ==
    /\ Goto(c, "launched", "half")
    /\ cancel' = IF kind[c] \in {"command", "search"} /\ c \in table
                 THEN [cancel EXCEPT ![c] = "kill"] ELSE cancel
    /\ alive' = [alive EXCEPT ![c] = @ /\ ~ (cancel'[c] = "kill" /\ requested[c])]
    /\ UNCHANGED <<fixed, body, kills, event, callback, permits, table, requested,
                   clients>>

\* Mutant of AddCancel: a cancellation that came first is not looked at.
AddCancelOnly(c) ==
    /\ Goto(c, "half", "running")
    /\ callback' = [callback EXCEPT ![c] = TRUE]
    /\ UNCHANGED <<fixed, body, alive, kills, event, permits, entries, clients>>

\* Second half: the operation learns the callback; a cancellation that came
\* first makes the call run it itself.
AddCancel(c) ==
    /\ Goto(c, "half", "running")
    /\ callback' = [callback EXCEPT ![c] = TRUE]
    /\ alive' = [alive EXCEPT ![c] = @ /\ ~ event[c]]
    /\ UNCHANGED <<fixed, body, kills, event, permits, entries, clients>>

-----------------------------------------------------------------------------
(* The process ends, and the call gives its lease back.                    *)

\* By itself, or by the timeout of its call.
ProcessExit(c) ==
    /\ alive[c]
    /\ alive' = [alive EXCEPT ![c] = FALSE]
    /\ UNCHANGED <<fixed, pc, body, kills, event, callback, permits, entries, clients>>

\* A callback thread of the registry: poll, then kill the process group.
CallbackRuns(c) ==
    /\ kills[c] > 0
    /\ kills' = [kills EXCEPT ![c] = @ - 1]
    /\ alive' = [alive EXCEPT ![c] = FALSE]
    /\ UNCHANGED <<fixed, pc, body, event, callback, permits, entries, clients>>

\* The body sees the end of its process; anything may fail between here and
\* its result, and search_text passes one more checkpoint.
Reap(c) ==
    /\ pc[c] = "running" /\ ~ alive[c]
    /\ \E end \in {"done", "uncaught"}
                  \union (IF event[c] /\ kind[c] = "search" THEN {"cancelled"} ELSE {}) :
          EndBody(c, end, CASE kind[c] = "search"  -> "clearing"
                            [] kind[c] = "bounded" -> "forgetting"
                            [] OTHER               -> "cleanup")
    /\ UNCHANGED <<fixed, alive, kills, event, callback, permits, entries, clients>>

\* clear_cancel: the entry gets a callback that does nothing ...
ClearEntryCancel(c) ==
    /\ Goto(c, "clearing", "forgetting")
    /\ cancel' = IF c \in table THEN [cancel EXCEPT ![c] = "nothing"] ELSE cancel
    /\ UNCHANGED <<fixed, body, alive, kills, event, callback, permits, table,
                   requested, clients>>

\* ... and the operation forgets its own.
RemoveCancel(c) ==
    /\ Goto(c, "forgetting", "cleanup")
    /\ callback' = [callback EXCEPT ![c] = FALSE]
    /\ UNCHANGED <<fixed, body, alive, kills, event, permits, entries, clients>>

\* release: the entry goes first, the permit comes back second.
Pop(c) ==
    /\ Goto(c, "cleanup", "popped")
    /\ table' = table \ {c}
    /\ UNCHANGED <<fixed, body, alive, kills, event, callback, permits, cancel,
                   requested, clients>>

FreePermit(c) ==
    /\ Goto(c, "popped", "freed")
    /\ permits' = permits + 1
    /\ UNCHANGED <<fixed, body, alive, kills, event, callback, entries, clients>>

\* Mutant of Return: the second release is not guarded.
ReturnReleasing(c) ==
    /\ Goto(c, "freed", "returned")
    /\ callback' = [callback EXCEPT ![c] = FALSE]
    /\ permits' = permits + 1
    /\ UNCHANGED <<fixed, body, alive, kills, event, entries, clients>>

\* The reader of a terminal releases, and the thread around it releases
\* again: the second release finds _released set and does nothing.
Return(c) ==
    /\ Goto(c, "freed", "returned")
    /\ callback' = [callback EXCEPT ![c] = FALSE]
    /\ UNCHANGED <<fixed, body, alive, kills, event, permits, entries, clients>>

-----------------------------------------------------------------------------
(* cancel_heavy_operation, and Registry.cancel as far as it matters here.  *)

Tell(k, what) ==
    /\ at' = [at EXCEPT ![k] = "told"]
    /\ answer' = [answer EXCEPT ![k] = what]

Ask(k, c) ==
    /\ at[k] = "idle"
    /\ target' = [target EXCEPT ![k] = c]
    /\ \/ /\ c \in table /\ requested[c]
          /\ Tell(k, "requested")
       \/ /\ c \in table /\ ~ requested[c] /\ cancel[c] # "none"
          /\ at' = [at EXCEPT ![k] = "registry"]
          /\ UNCHANGED answer
       \/ /\ c \notin table \/ (~ requested[c] /\ cancel[c] = "none")
          /\ at' = [at EXCEPT ![k] = "limiter"]
          /\ UNCHANGED answer
    /\ UNCHANGED <<fixed, callVars, kills, event, permits, entries>>

\* Registry.cancel: an operation that is not finished and cancellable gets
\* its event, and the callback it knows is started once.
RegistryCancel(c) ==
    /\ pc[c] # "returned" /\ mayCancel[c]
    /\ event' = [event EXCEPT ![c] = TRUE]
    /\ kills' = [kills EXCEPT ![c] = IF callback[c] /\ ~ event[c] THEN @ + 1 ELSE @]

AskRegistry(k) ==
    LET c == target[k] IN
    /\ at[k] = "registry"
    /\ \/ /\ RegistryCancel(c)
          /\ at' = [at EXCEPT ![k] = "mark"]
       \/ /\ pc[c] # "returned" /\ ~ mayCancel[c]
          /\ at' = [at EXCEPT ![k] = "limiter"]
          /\ UNCHANGED <<event, kills>>
       \/ /\ pc[c] = "returned"
          /\ at' = [at EXCEPT ![k] = "mark"]
          /\ UNCHANGED <<event, kills>>
    /\ UNCHANGED <<fixed, callVars, permits, entries, target, answer>>

\* cancel_operation comes straight to the registry.
CancelOperation(k, c) ==
    /\ at[k] = "idle"
    /\ kind[c] = "terminal" => c \in table
    /\ RegistryCancel(c)
    /\ target' = [target EXCEPT ![k] = c]
    /\ Tell(k, "requested")
    /\ UNCHANGED <<fixed, callVars, permits, entries>>

Mark(k) ==
    /\ at[k] = "mark"
    /\ requested' = IF target[k] \in table
                    THEN [requested EXCEPT ![target[k]] = TRUE] ELSE requested
    /\ Tell(k, "requested")
    /\ UNCHANGED <<fixed, callVars, kills, event, permits, table, cancel, target>>

\* _HeavyLimiter.cancel: the decision under the lock ...
AskLimiter(k) ==
    LET c == target[k] IN
    /\ at[k] = "limiter"
    /\ \/ /\ c \notin table
          /\ Tell(k, "other")
          /\ UNCHANGED requested
       \/ /\ c \in table /\ requested[c]
          /\ Tell(k, "requested")
          /\ UNCHANGED requested
       \/ /\ c \in table /\ ~ requested[c] /\ cancel[c] = "none"
          /\ Tell(k, "other")
          /\ UNCHANGED requested
       \/ /\ c \in table /\ ~ requested[c] /\ cancel[c] # "none"
          /\ requested' = [requested EXCEPT ![c] = TRUE]
          /\ at' = [at EXCEPT ![k] = cancel[c]]
          /\ UNCHANGED answer
    /\ UNCHANGED <<fixed, callVars, kills, event, permits, table, cancel, target>>

\* ... and the callback it captured, run by the client itself.
RunCaptured(k) ==
    /\ at[k] \in {"kill", "nothing"}
    /\ alive' = IF at[k] = "kill" THEN [alive EXCEPT ![target[k]] = FALSE] ELSE alive
    /\ Tell(k, "requested")
    /\ UNCHANGED <<fixed, pc, body, callback, kills, event, permits, entries, target>>

CallStep(c) ==
    \/ Acquire(c) \/ Refuse(c) \/ Enter(c) \/ Check(c) \/ GiveUp(c)
    \/ Launch(c) \/ SetEntryCancel(c) \/ AddCancel(c) \/ Reap(c) \/ ClearEntryCancel(c)
    \/ RemoveCancel(c) \/ Pop(c) \/ FreePermit(c) \/ Return(c)

ClientStep(k) ==
    \/ \E c \in Calls : Ask(k, c) \/ CancelOperation(k, c)
    \/ AskRegistry(k) \/ Mark(k) \/ AskLimiter(k) \/ RunCaptured(k)

Next ==
    \/ \E c \in Calls : CallStep(c) \/ ProcessExit(c) \/ CallbackRuns(c)
    \/ \E k \in Clients : ClientStep(k)

Spec == Init /\ [][Next]_vars

-----------------------------------------------------------------------------
\* The calls between the step that takes a permit and the step that gives
\* it back.
Holders == {c \in Calls : \/ pc[c] \in PCs \ {"idle", "refused", "freed", "returned"}
                          \/ pc[c] = "returned" /\ c \in table}

Pool == INSTANCE LeasePool WITH holders <- Holders

TypeOK ==
    /\ kind \in [Calls -> Kinds]
    /\ mayCancel \in [Calls -> BOOLEAN]
    /\ pc \in [Calls -> PCs]
    /\ how \in [Calls -> {"none", "done", "cancelled", "uncaught"}]
    /\ recorded \subseteq Calls
    /\ alive \in [Calls -> BOOLEAN]
    /\ kills \in [Calls -> Nat]
    /\ event \in [Calls -> BOOLEAN]
    /\ callback \in [Calls -> BOOLEAN]
    /\ permits \in 0..Capacity
    /\ table \subseteq Calls
    /\ cancel \in [Calls -> {"none", "kill", "nothing"}]
    /\ requested \in [Calls -> BOOLEAN]
    /\ at \in [Clients -> {"idle", "registry", "limiter", "mark", "kill", "nothing", "told"}]
    /\ target \in [Clients -> Calls \union {NoCall}]
    /\ answer \in [Clients -> {"none", "requested", "other"}]

\* The permits and the leases that are out always add up to the capacity,
\* whatever way a call ends and however often it releases.
PermitsAddUp == permits + Cardinality(Holders) = Capacity

\* The detailed limiter implements the lease pool.
ImplementsPool == Pool!Spec

\* The table that list_heavy_operations shows never has more entries than
\* the capacity, although entry and permit change in separate steps.
ListedWithinCapacity == Cardinality(table) <= Capacity

\* A client that was told its cancellation is requested was not lied to: a
\* process that still runs has a kill on its way, in a callback thread, in
\* the call's own add_cancel, or in another client.
AcceptedCancelReaches ==
    \A k \in Clients : LET c == target[k] IN
        answer[k] = "requested" /\ alive[c] =>
            \/ kills[c] > 0
            \/ event[c] /\ pc[c] \in {"launched", "half"}
            \/ \E j \in Clients : target[j] = c /\ at[j] = "kill"

\* A call that has returned keeps its lease only when it ended with an
\* exception that run_command or start_terminal_session does not catch.
LeaseOutlivesOnlyUncaught ==
    \A c \in Calls : pc[c] = "returned" /\ c \in Holders =>
        kind[c] \in {"command", "terminal"} /\ how[c] = "uncaught"

\* What the limiter keeps up however its calls end and whoever cancels them.
LeasesSafe ==
    PermitsAddUp /\ ListedWithinCapacity /\ LeaseOutlivesOnlyUncaught /\ AcceptedCancelReaches

\* "Heavy operations write a redacted start record before execution and a
\* finish record" (docs/BOUNDED_OUTPUT.md): a synchronous command or search
\* that was admitted and has given its lease back left a finish record.
FinishRecorded ==
    \A c \in Calls :
        kind[c] \in {"command", "search"} /\ pc[c] = "returned" /\ c \notin Holders
            => c \in recorded
=============================================================================
