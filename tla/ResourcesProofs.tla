-------------------------- MODULE ResourcesProofs ---------------------------
(***************************************************************************)
(* Theorems about what calls share: the leases of the heavy limiter, for   *)
(* every set of calls and clients and every capacity, and the artifact     *)
(* store, for any number of captures, artifacts, chunks and faults and any *)
(* quota.                                                                  *)
(*                                                                         *)
(* LimiterInv and ReachInv follow a call and its cancellation.  StoreInv   *)
(* says, capture by capture, what its phase promises of its streams,       *)
(* files, manifest and owners, and what the holder of _aux_lock is about   *)
(* to write.  A step touches one capture; of the others it may only take   *)
(* what nobody owns (Spared).  AccountInv counts: what is on disk is a set *)
(* of units (an artifact, a file, a place in it), what is charged and on   *)
(* its way are units too, and while one capture runs there are at most as  *)
(* many of these as streams (Room), by which the total falls short.        *)
(***************************************************************************)
EXTENDS HeavyLimiter, OutputStore, FiniteSetTheorems, TLAPS

-----------------------------------------------------------------------------
(* HeavyLimiter: permits and entries add up, and cancellations reach.       *)

\* Where a call that has its entry in the table is.
Entered == {"held", "checked", "launched", "half", "running", "clearing", "forgetting", "cleanup"}

\* The entry of a call is there from Enter to Pop, and for ever when an exception that its code
\* does not catch skips the release.
EntriesOK ==
    \A c \in Calls :
        /\ pc[c] \in Entered => c \in table
        /\ c \in table => pc[c] \in Entered \union {"returned"}
        /\ pc[c] = "returned" /\ c \in table =>
              kind[c] \in {"command", "terminal"} /\ how[c] = "uncaught"

\* A client that is about to run a callback has the name of a call.
TargetsOK == \A k \in Clients : at[k] # "idle" => target[k] \in Calls

LimiterInv == TypeOK /\ EntriesOK /\ TargetsOK /\ PermitsAddUp

-----------------------------------------------------------------------------
(* What each kind of step does to the holders.                               *)

\* The holders are finitely many, so they can be counted.
LEMMA HoldersFinite ==
    Holders \subseteq Calls /\ IsFiniteSet(Holders) /\ Cardinality(Holders) \in Nat
<1>1. Holders \subseteq Calls
  BY DEF Holders
<1>2. IsFiniteSet(Holders)
  BY <1>1, FS_Subset, LimiterAssumption DEF LimiterAssumption
<1>. QED
  BY <1>1, <1>2, FS_CardinalityType

\* Taking a permit adds the call to the holders.
LEMMA AcquireTakes ==
    ASSUME LimiterInv, NEW c \in Calls, Acquire(c)
    PROVE  c \notin Holders /\ Holders' = Holders \union {c}
<1>1. pc[c] = "idle" /\ pc' = [pc EXCEPT ![c] = "taken"] /\ table' = table
  BY DEF Acquire, Goto, entries
<1>2. c \notin Holders
  BY <1>1 DEF Holders, PCs
<1>3. \A d \in Calls : d \in Holders' <=> d \in Holders \/ d = c
  BY <1>1 DEF Holders, PCs, LimiterInv, TypeOK
<1>. QED
  BY <1>2, <1>3 DEF Holders

\* Giving the permit back takes the call out of the holders.
LEMMA FreeGives ==
    ASSUME LimiterInv, NEW c \in Calls, FreePermit(c)
    PROVE  c \in Holders /\ Holders' = Holders \ {c}
<1>1. pc[c] = "popped" /\ pc' = [pc EXCEPT ![c] = "freed"] /\ table' = table
  BY DEF FreePermit, Goto, entries
<1>2. c \in Holders
  BY <1>1 DEF Holders, PCs
<1>3. \A d \in Calls : d \in Holders' <=> d \in Holders /\ d # c
  BY <1>1 DEF Holders, PCs, LimiterInv, TypeOK
<1>. QED
  BY <1>2, <1>3 DEF Holders

\* No other step of a call changes the permits or the holders.
LEMMA OtherStepsKeep ==
    ASSUME LimiterInv, NEW c \in Calls, CallStep(c), ~ Acquire(c), ~ FreePermit(c)
    PROVE  permits' = permits /\ Holders' = Holders
<1>. USE DEF LimiterInv, TypeOK, EntriesOK, Entered, Holders, PCs, Goto, entries
<1>1. CASE Refuse(c)
  BY <1>1 DEF Refuse
<1>2. CASE Enter(c)
  BY <1>2 DEF Enter
<1>3. CASE Check(c)
  BY <1>3 DEF Check
<1>4. CASE GiveUp(c)
  BY <1>4 DEF GiveUp, EndBody, Keeps
<1>5. CASE Launch(c)
  BY <1>5 DEF Launch
<1>6. CASE SetEntryCancel(c)
  BY <1>6 DEF SetEntryCancel
<1>7. CASE AddCancel(c)
  BY <1>7 DEF AddCancel
<1>8. CASE Reap(c)
  BY <1>8 DEF Reap, EndBody, Keeps
<1>9. CASE ClearEntryCancel(c)
  BY <1>9 DEF ClearEntryCancel
<1>10. CASE RemoveCancel(c)
  BY <1>10 DEF RemoveCancel
<1>11. CASE Pop(c)
  BY <1>11 DEF Pop
<1>12. CASE Return(c)
  BY <1>12 DEF Return
<1>. QED
  BY <1>1, <1>2, <1>3, <1>4, <1>5, <1>6, <1>7, <1>8, <1>9, <1>10, <1>11, <1>12 DEF CallStep

\* Processes, callbacks and clients change neither.
LEMMA OutsidersKeep ==
    ASSUME \/ \E c \in Calls : ProcessExit(c) \/ CallbackRuns(c)
           \/ \E k \in Clients : ClientStep(k)
           \/ UNCHANGED vars
    PROVE  permits' = permits /\ pc' = pc /\ table' = table /\ kind' = kind /\ how' = how
           /\ Holders' = Holders
<1>1. permits' = permits /\ pc' = pc /\ table' = table /\ kind' = kind /\ how' = how
  BY DEF ProcessExit, CallbackRuns, ClientStep, Ask, CancelOperation, AskRegistry, Mark,
         AskLimiter, RunCaptured, fixed, body, entries, callVars, vars
<1>. QED
  BY <1>1 DEF Holders

-----------------------------------------------------------------------------
(* The invariant.                                                            *)

\* It holds at the start: nobody has a permit.
LEMMA InitInv == ASSUME Init PROVE LimiterInv
<1>1. Holders = {}
  BY DEF Init, Holders
<1>2. TypeOK
  BY LimiterAssumption DEF Init, TypeOK, PCs, LimiterAssumption
<1>3. EntriesOK /\ TargetsOK
  BY DEF Init, EntriesOK, TargetsOK, Entered
<1>4. PermitsAddUp
  BY <1>1, FS_EmptySet, LimiterAssumption DEF Init, PermitsAddUp, LimiterAssumption
<1>. QED
  BY <1>2, <1>3, <1>4 DEF LimiterInv

\* Permits and holders go on adding up, so a permit more or less is never possible.
LEMMA CountStep ==
    ASSUME LimiterInv, [Next]_vars
    PROVE  PermitsAddUp' /\ permits' \in 0..Capacity
<1>. USE HoldersFinite
<1>0. permits + Cardinality(Holders) = Capacity /\ permits \in 0..Capacity /\ Capacity \in Nat
  BY LimiterAssumption DEF LimiterInv, PermitsAddUp, TypeOK, LimiterAssumption
<1>1. CASE \E c \in Calls : Acquire(c)
  <2>. PICK c \in Calls : Acquire(c)
    BY <1>1
  <2>1. Cardinality(Holders') = Cardinality(Holders) + 1
    BY AcquireTakes, FS_AddElement
  <2>2. permits > 0 /\ permits' = permits - 1
    BY DEF Acquire
  <2>. QED
    BY <1>0, <2>1, <2>2 DEF PermitsAddUp
<1>2. CASE \E c \in Calls : FreePermit(c)
  <2>. PICK c \in Calls : FreePermit(c)
    BY <1>2
  <2>1. Cardinality(Holders') = Cardinality(Holders) - 1
    BY FreeGives, FS_RemoveElement
  <2>2. Cardinality(Holders) > 0
    BY FreeGives, FS_EmptySet
  <2>3. permits' = permits + 1
    BY DEF FreePermit
  <2>. QED
    BY <1>0, <2>1, <2>2, <2>3 DEF PermitsAddUp
<1>3. CASE ~ (\E c \in Calls : Acquire(c) \/ FreePermit(c))
  <2>1. permits' = permits /\ Holders' = Holders
    BY <1>3, OtherStepsKeep, OutsidersKeep DEF Next
  <2>. QED
    BY <1>0, <2>1 DEF PermitsAddUp
<1>. QED
  BY <1>1, <1>2, <1>3

\* Every variable but the permits keeps its type in a step of a call.
LEMMA CallTypes ==
    ASSUME LimiterInv, permits' \in 0..Capacity, NEW c \in Calls, CallStep(c)
    PROVE  TypeOK'
<1>. USE DEF LimiterInv, TypeOK, PCs, Goto, fixed, body, entries, clients
<1>1. CASE Acquire(c)
  BY <1>1 DEF Acquire
<1>2. CASE Refuse(c)
  BY <1>2 DEF Refuse
<1>3. CASE Enter(c)
  BY <1>3 DEF Enter
<1>4. CASE Check(c)
  BY <1>4 DEF Check
<1>5. CASE GiveUp(c)
  BY <1>5 DEF GiveUp, EndBody
<1>6. CASE Launch(c)
  BY <1>6 DEF Launch
<1>7. CASE SetEntryCancel(c)
  BY <1>7 DEF SetEntryCancel
<1>8. CASE AddCancel(c)
  BY <1>8 DEF AddCancel
<1>9. CASE Reap(c)
  BY <1>9 DEF Reap, EndBody
<1>10. CASE ClearEntryCancel(c)
  BY <1>10 DEF ClearEntryCancel
<1>11. CASE RemoveCancel(c)
  BY <1>11 DEF RemoveCancel
<1>12. CASE Pop(c)
  BY <1>12 DEF Pop
<1>13. CASE FreePermit(c)
  BY <1>13 DEF FreePermit
<1>14. CASE Return(c)
  BY <1>14 DEF Return
<1>. QED
  BY <1>1, <1>2, <1>3, <1>4, <1>5, <1>6, <1>7, <1>8, <1>9, <1>10, <1>11, <1>12, <1>13, <1>14
     DEF CallStep

\* The same in the steps of processes and clients.
LEMMA OutsiderTypes ==
    ASSUME LimiterInv,
           \/ \E c \in Calls : ProcessExit(c) \/ CallbackRuns(c)
           \/ \E k \in Clients : ClientStep(k)
    PROVE  TypeOK' /\ TargetsOK'
<1>. USE DEF LimiterInv, TypeOK, TargetsOK, fixed, body, entries, clients, callVars, Tell
<1>1. ASSUME NEW c \in Calls, ProcessExit(c) \/ CallbackRuns(c) PROVE TypeOK' /\ TargetsOK'
  <2>1. CASE ProcessExit(c)
    BY <2>1 DEF ProcessExit
  <2>2. CASE CallbackRuns(c)
    <3>1. kills' \in [Calls -> Nat]
      BY <2>2 DEF CallbackRuns
    <3>. QED
      BY <2>2, <3>1 DEF CallbackRuns
  <2>. QED
    BY <1>1, <2>1, <2>2
<1>2. ASSUME NEW k \in Clients, NEW c \in Calls, Ask(k, c) PROVE TypeOK' /\ TargetsOK'
  BY <1>2 DEF Ask
<1>3. ASSUME NEW k \in Clients, NEW c \in Calls, CancelOperation(k, c) PROVE TypeOK' /\ TargetsOK'
  BY <1>3 DEF CancelOperation, RegistryCancel
<1>4. ASSUME NEW k \in Clients, AskRegistry(k) PROVE TypeOK' /\ TargetsOK'
  <2>1. target[k] \in Calls
    BY <1>4 DEF AskRegistry
  <2>2. event' \in [Calls -> BOOLEAN]
    BY <1>4, <2>1 DEF AskRegistry, RegistryCancel
  <2>3. kills' \in [Calls -> Nat]
    BY <1>4, <2>1 DEF AskRegistry, RegistryCancel
  <2>4. at' \in [Clients -> {"idle", "registry", "limiter", "mark", "kill", "nothing", "told"}]
        /\ TargetsOK'
    BY <1>4 DEF AskRegistry
  <2>. QED
    BY <1>4, <2>2, <2>3, <2>4 DEF AskRegistry
<1>5. ASSUME NEW k \in Clients, Mark(k) PROVE TypeOK' /\ TargetsOK'
  BY <1>5 DEF Mark
<1>6. ASSUME NEW k \in Clients, AskLimiter(k) PROVE TypeOK' /\ TargetsOK'
  <2>1. target[k] \in Calls
    BY <1>6 DEF AskLimiter
  <2>2. requested' \in [Calls -> BOOLEAN]
    BY <1>6, <2>1 DEF AskLimiter
  <2>3. at' \in [Clients -> {"idle", "registry", "limiter", "mark", "kill", "nothing", "told"}]
        /\ TargetsOK'
    BY <1>6, <2>1 DEF AskLimiter
  <2>4. answer' \in [Clients -> {"none", "requested", "other"}]
    BY <1>6 DEF AskLimiter
  <2>. QED
    BY <1>6, <2>2, <2>3, <2>4 DEF AskLimiter
<1>7. ASSUME NEW k \in Clients, RunCaptured(k) PROVE TypeOK' /\ TargetsOK'
  BY <1>7 DEF RunCaptured
<1>. QED
  BY <1>1, <1>2, <1>3, <1>4, <1>5, <1>6, <1>7 DEF ClientStep

\* Entries come and go only where the life of their call says so.
LEMMA EntriesStep ==
    ASSUME LimiterInv, NEW c \in Calls, CallStep(c)
    PROVE  EntriesOK' /\ TargetsOK'
<1>. USE DEF LimiterInv, TypeOK, EntriesOK, Entered, PCs, Goto, fixed, body, entries
<1>0. TargetsOK'
  BY DEF CallStep, Acquire, Refuse, Enter, Check, GiveUp, Launch, SetEntryCancel, AddCancel, Reap,
         ClearEntryCancel, RemoveCancel, Pop, FreePermit, Return, TargetsOK, clients
<1>1. CASE Acquire(c)
  BY <1>1, <1>0 DEF Acquire
<1>2. CASE Refuse(c)
  BY <1>2, <1>0 DEF Refuse
<1>3. CASE Enter(c)
  BY <1>3, <1>0 DEF Enter
<1>4. CASE Check(c)
  BY <1>4, <1>0 DEF Check
<1>5. CASE GiveUp(c)
  BY <1>5, <1>0 DEF GiveUp, EndBody, Keeps
<1>6. CASE Launch(c)
  BY <1>6, <1>0 DEF Launch
<1>7. CASE SetEntryCancel(c)
  BY <1>7, <1>0 DEF SetEntryCancel
<1>8. CASE AddCancel(c)
  BY <1>8, <1>0 DEF AddCancel
<1>9. CASE Reap(c)
  BY <1>9, <1>0 DEF Reap, EndBody, Keeps
<1>10. CASE ClearEntryCancel(c)
  BY <1>10, <1>0 DEF ClearEntryCancel
<1>11. CASE RemoveCancel(c)
  BY <1>11, <1>0 DEF RemoveCancel
<1>12. CASE Pop(c)
  BY <1>12, <1>0 DEF Pop
<1>13. CASE FreePermit(c)
  BY <1>13, <1>0 DEF FreePermit
<1>14. CASE Return(c)
  BY <1>14, <1>0 DEF Return
<1>. QED
  BY <1>1, <1>2, <1>3, <1>4, <1>5, <1>6, <1>7, <1>8, <1>9, <1>10, <1>11, <1>12, <1>13, <1>14
     DEF CallStep

\* The invariant is inductive.
LEMMA StepInv == ASSUME LimiterInv, [Next]_vars PROVE LimiterInv'
<1>1. PermitsAddUp' /\ permits' \in 0..Capacity
  BY CountStep
<1>2. CASE \E c \in Calls : CallStep(c)
  BY <1>1, <1>2, CallTypes, EntriesStep DEF LimiterInv
<1>3. CASE \/ \E c \in Calls : ProcessExit(c) \/ CallbackRuns(c)
           \/ \E k \in Clients : ClientStep(k)
  <2>1. EntriesOK'
    BY <1>3, OutsidersKeep DEF EntriesOK, LimiterInv
  <2>. QED
    BY <1>1, <1>3, <2>1, OutsiderTypes DEF LimiterInv
<1>4. CASE UNCHANGED vars
  BY <1>1, <1>4 DEF LimiterInv, TypeOK, EntriesOK, TargetsOK, vars
<1>. QED
  BY <1>2, <1>3, <1>4 DEF Next

\* So it holds in every state.
LEMMA InvHolds == Spec => []LimiterInv
  BY InitInv, StepInv, PTL DEF Spec

-----------------------------------------------------------------------------
(* The theorems.                                                             *)

\* Every variable of the limiter keeps its type: no permit is taken that is not there, and none
\* is given back twice, which a BoundedSemaphore would answer with an error.
THEOREM TypeCorrect == Spec => []TypeOK
<1>1. LimiterInv => TypeOK
  BY DEF LimiterInv
<1>. QED
  BY <1>1, InvHolds, PTL

\* Permits and leases add up to the capacity, whatever way each call ends.
THEOREM PermitsAreKept == Spec => []PermitsAddUp
<1>1. LimiterInv => PermitsAddUp
  BY DEF LimiterInv
<1>. QED
  BY <1>1, InvHolds, PTL

\* A call that has returned keeps its lease only after an exception that its code does not catch.
THEOREM LeasesEndWithCalls == Spec => []LeaseOutlivesOnlyUncaught
<1>1. LimiterInv => LeaseOutlivesOnlyUncaught
  BY DEF LimiterInv, EntriesOK, LeaseOutlivesOnlyUncaught, Holders
<1>. QED
  BY <1>1, InvHolds, PTL

\* The listing of heavy operations never has more entries than the capacity.
THEOREM ListingIsWithinCapacity == Spec => []ListedWithinCapacity
<1>1. ASSUME LimiterInv PROVE ListedWithinCapacity
  <2>1. table \subseteq Holders
    BY <1>1 DEF LimiterInv, EntriesOK, Entered, Holders, TypeOK, PCs
  <2>2. Cardinality(table) <= Cardinality(Holders) /\ Cardinality(table) \in Nat
    BY <2>1, HoldersFinite, FS_Subset, FS_CardinalityType
  <2>. QED
    BY <1>1, <2>2, HoldersFinite, LimiterAssumption
       DEF LimiterInv, TypeOK, PermitsAddUp, ListedWithinCapacity, LimiterAssumption
<1>. QED
  BY <1>1, InvHolds, PTL

\* Every step of the limiter is a step of the pool, or none: Acquire takes a lease, FreePermit
\* gives one back, and no other step is seen.
LEMMA StepImplements ==
    ASSUME LimiterInv, [Next]_vars
    PROVE  [Pool!Next]_Holders
<1>1. CASE \E c \in Calls : Acquire(c)
  <2>. PICK c \in Calls : Acquire(c)
    BY <1>1
  <2>1. Cardinality(Holders) < Capacity
    BY HoldersFinite, LimiterAssumption DEF LimiterInv, PermitsAddUp, TypeOK, LimiterAssumption, Acquire
  <2>2. c \in Calls \ Holders /\ Holders' = Holders \union {c}
    BY AcquireTakes
  <2>3. Pool!Cardinality(Holders) = Cardinality(Holders)
    BY DEF Pool!Cardinality, Cardinality
  <2>4. Pool!Take(c)
    BY <2>1, <2>2, <2>3 DEF Pool!Take
  <2>. QED
    BY <2>4 DEF Pool!Next
<1>2. CASE \E c \in Calls : FreePermit(c)
  <2>. PICK c \in Calls : FreePermit(c)
    BY <1>2
  <2>1. Pool!Give(c)
    BY FreeGives DEF Pool!Give
  <2>. QED
    BY <2>1 DEF Pool!Next
<1>3. CASE ~ (\E c \in Calls : Acquire(c) \/ FreePermit(c))
  BY <1>3, OtherStepsKeep, OutsidersKeep DEF Next
<1>. QED
  BY <1>1, <1>2, <1>3

\* The limiter, with its semaphore, its table, its callbacks and the failure paths of its callers,
\* implements the abstract pool of leases.
THEOREM LimiterImplementsPool == Spec => ImplementsPool
<1>1. Init => Pool!Init
  BY DEF Init, Pool!Init, Holders
<1>2. LimiterInv /\ [Next]_vars => [Pool!Next]_Holders
  BY StepImplements
<1>. QED
  BY <1>1, <1>2, InvHolds, PTL DEF Spec, ImplementsPool, Pool!Spec

-----------------------------------------------------------------------------
(* A cancellation that was accepted reaches the process.                     *)

\* Where a call is once the entry may carry its callback, and once that callback does nothing.
Begun == {"half", "running", "clearing", "forgetting", "cleanup", "popped", "freed", "returned"}
Leaving == {"forgetting", "cleanup", "popped", "freed", "returned"}

\* A client is about to run the callback that kills the process of c.
Killer(c) == \E j \in Clients : target[j] = c /\ at[j] = "kill"

\* The cancellation of c is known to its operation, or its process is dead or about to be killed
\* and no other will be started.
Settled(c) == event[c] \/ (pc[c] \in Begun /\ (alive[c] => Killer(c)))

\* A process runs only in the middle of its call; the registry has seen the callback of a call
\* that waits for it, and so has started it when the event came; the entry has its callback, and
\* is marked as requested, only after the start.
CallOK(c) ==
    /\ alive[c] => pc[c] \in {"launched", "half", "running"}
    /\ pc[c] = "running" => callback[c]
    /\ event[c] /\ alive[c] => kills[c] > 0 \/ pc[c] \in {"launched", "half"}
    /\ cancel[c] # "none" => pc[c] \in Begun
    /\ cancel[c] = "nothing" => pc[c] \in Leaving
    /\ requested[c] => pc[c] \in Begun /\ Settled(c)

\* What a client has found out about its call stays true until it answers, and its answer after.
ClientOK(k) ==
    /\ at[k] \in {"registry", "mark", "kill", "nothing"} => pc[target[k]] \in Begun
    /\ at[k] = "mark" => event[target[k]] \/ ~ alive[target[k]]
    /\ at[k] = "nothing" => pc[target[k]] \in Leaving
    /\ answer[k] # "none" => at[k] = "told"
    /\ answer[k] = "requested" => Settled(target[k])

ReachInv == (\A c \in Calls : CallOK(c)) /\ (\A k \in Clients : ClientOK(k))

\* A step of a call leaves clients and cancellations alone, and no call that has begun starts a
\* process.
LEMMA CallKeepsClients ==
    ASSUME LimiterInv, NEW c \in Calls, CallStep(c)
    PROVE  /\ UNCHANGED <<kills, event, requested, at, target, answer>>
           /\ \A d \in Calls : pc[d] \in Begun => pc'[d] \in Begun /\ (alive'[d] => alive[d])
           /\ \A d \in Calls : pc[d] \in Leaving => pc'[d] \in Leaving
           /\ \A d \in Calls \ {c} : pc'[d] = pc[d] /\ alive'[d] = alive[d]
                                     /\ callback'[d] = callback[d] /\ cancel'[d] = cancel[d]
<1>. USE DEF LimiterInv, TypeOK, Begun, Leaving, Goto, fixed, body, entries, clients
<1>1. CASE Acquire(c)
  BY <1>1 DEF Acquire
<1>2. CASE Refuse(c)
  BY <1>2 DEF Refuse
<1>3. CASE Enter(c)
  BY <1>3 DEF Enter
<1>4. CASE Check(c)
  BY <1>4 DEF Check
<1>5. CASE GiveUp(c)
  BY <1>5 DEF GiveUp, EndBody
<1>6. CASE Launch(c)
  BY <1>6 DEF Launch
<1>7. CASE SetEntryCancel(c)
  BY <1>7 DEF SetEntryCancel
<1>8. CASE AddCancel(c)
  BY <1>8 DEF AddCancel
<1>9. CASE Reap(c)
  BY <1>9 DEF Reap, EndBody
<1>10. CASE ClearEntryCancel(c)
  BY <1>10 DEF ClearEntryCancel
<1>11. CASE RemoveCancel(c)
  BY <1>11 DEF RemoveCancel
<1>12. CASE Pop(c)
  BY <1>12 DEF Pop
<1>13. CASE FreePermit(c)
  BY <1>13 DEF FreePermit
<1>14. CASE Return(c)
  BY <1>14 DEF Return
<1>. QED
  BY <1>1, <1>2, <1>3, <1>4, <1>5, <1>6, <1>7, <1>8, <1>9, <1>10, <1>11, <1>12, <1>13, <1>14
     DEF CallStep

\* What is settled for a call stays so in a step of a call.
LEMMA CallKeepsSettled ==
    ASSUME LimiterInv, NEW c \in Calls, CallStep(c), NEW d \in Calls, Settled(d)
    PROVE  Settled(d)'
<1>1. Killer(d)' <=> Killer(d)
  BY CallKeepsClients DEF Killer
<1>. QED
  BY <1>1, CallKeepsClients DEF Settled

\* The step of a call keeps what is known of the call itself.
LEMMA OwnCallOK ==
    ASSUME LimiterInv, ReachInv, NEW c \in Calls, CallStep(c)
    PROVE  CallOK(c)'
<1>1. requested'[c] => pc'[c] \in Begun /\ Settled(c)'
  BY CallKeepsClients, CallKeepsSettled DEF ReachInv, CallOK
<1>2. kills' = kills /\ event' = event
  BY CallKeepsClients
<1>3. CallOK(c)
  BY DEF ReachInv
<1>4. /\ alive'[c] => pc'[c] \in {"launched", "half", "running"}
      /\ pc'[c] = "running" => callback'[c]
      /\ event'[c] /\ alive'[c] => kills'[c] > 0 \/ pc'[c] \in {"launched", "half"}
      /\ cancel'[c] # "none" => pc'[c] \in Begun
      /\ cancel'[c] = "nothing" => pc'[c] \in Leaving
  <2>. USE <1>2, <1>3 DEF LimiterInv, TypeOK, CallOK, Begun, Leaving, Goto, fixed, body, entries, clients
  <2>1. CASE Acquire(c)
    BY <2>1 DEF Acquire
  <2>2. CASE Refuse(c)
    BY <2>2 DEF Refuse
  <2>3. CASE Enter(c)
    BY <2>3 DEF Enter
  <2>4. CASE Check(c)
    BY <2>4 DEF Check
  <2>5. CASE GiveUp(c)
    BY <2>5 DEF GiveUp, EndBody
  <2>6. CASE Launch(c)
    BY <2>6 DEF Launch
  <2>7. CASE SetEntryCancel(c)
    BY <2>7 DEF SetEntryCancel
  <2>8. CASE AddCancel(c)
    BY <2>8 DEF AddCancel
  <2>9. CASE Reap(c)
    BY <2>9 DEF Reap, EndBody
  <2>10. CASE ClearEntryCancel(c)
    BY <2>10 DEF ClearEntryCancel
  <2>11. CASE RemoveCancel(c)
    BY <2>11 DEF RemoveCancel
  <2>12. CASE Pop(c)
    BY <2>12 DEF Pop
  <2>13. CASE FreePermit(c)
    BY <2>13 DEF FreePermit
  <2>14. CASE Return(c)
    BY <2>14 DEF Return
  <2>. QED
    BY <2>1, <2>2, <2>3, <2>4, <2>5, <2>6, <2>7, <2>8, <2>9, <2>10, <2>11, <2>12, <2>13, <2>14
       DEF CallStep
<1>. QED
  BY <1>1, <1>4 DEF CallOK

\* A step of a call keeps the invariant.
LEMMA CallReach ==
    ASSUME LimiterInv, ReachInv, NEW c \in Calls, CallStep(c)
    PROVE  ReachInv'
<1>1. ASSUME NEW d \in Calls \ {c} PROVE CallOK(d)'
  <2>1. Settled(d) => Settled(d)'
    BY CallKeepsSettled
  <2>. QED
    BY <2>1, CallKeepsClients DEF ReachInv, CallOK
<1>2. ASSUME NEW k \in Clients PROVE ClientOK(k)'
  <2>1. ClientOK(k) /\ (at[k] # "idle" => target[k] \in Calls)
    BY DEF ReachInv, LimiterInv, TargetsOK
  <2>2. answer'[k] = "requested" => Settled(target[k])'
    <3>1. ASSUME answer[k] = "requested" PROVE target[k] \in Calls /\ Settled(target[k])
      BY <2>1, <3>1 DEF ClientOK
    <3>. QED
      BY <3>1, CallKeepsSettled, CallKeepsClients
  <2>. QED
    BY <2>1, <2>2, CallKeepsClients DEF ClientOK
<1>. QED
  BY <1>1, <1>2, OwnCallOK DEF ReachInv

\* A step of a process or of a client starts no process, takes no kill back but by doing it, and
\* leaves every call where it is.
LEMMA OutsidersKeepSettled ==
    ASSUME LimiterInv,
           \/ \E c \in Calls : ProcessExit(c) \/ CallbackRuns(c)
           \/ \E k \in Clients : ClientStep(k)
    PROVE  /\ UNCHANGED <<pc, callback, cancel>>
           /\ \A d \in Calls : (event[d] => event'[d]) /\ (alive'[d] => alive[d])
           /\ \A d \in Calls : Settled(d) => Settled(d)'
<1>. USE DEF LimiterInv, TypeOK, fixed, body, entries, clients, callVars, Tell
<1>1. UNCHANGED <<pc, callback, cancel>>
  BY DEF ProcessExit, CallbackRuns, ClientStep, Ask, CancelOperation, AskRegistry, Mark,
         AskLimiter, RunCaptured
<1>2. ASSUME NEW c \in Calls, ProcessExit(c) \/ CallbackRuns(c), NEW d \in Calls
      PROVE  (event[d] => event'[d]) /\ (alive'[d] => alive[d]) /\ (Killer(d) => Killer(d)')
  BY <1>2 DEF ProcessExit, CallbackRuns, Killer
<1>3. ASSUME NEW k \in Clients, ClientStep(k), NEW d \in Calls
      PROVE  (event[d] => event'[d]) /\ (alive'[d] => alive[d])
             /\ (Killer(d) => Killer(d)' \/ ~ alive'[d])
  <2>1. event[d] => event'[d]
    BY <1>3 DEF ClientStep, Ask, CancelOperation, AskRegistry, RegistryCancel, Mark, AskLimiter,
                RunCaptured
  <2>2. alive'[d] => alive[d]
    BY <1>3 DEF ClientStep, Ask, CancelOperation, AskRegistry, Mark, AskLimiter, RunCaptured
  <2>3. \A j \in Clients \ {k} : at'[j] = at[j] /\ target'[j] = target[j]
    BY <1>3 DEF ClientStep, Ask, CancelOperation, AskRegistry, Mark, AskLimiter, RunCaptured
  <2>4. at[k] = "kill" /\ target[k] = d => ~ alive'[d]
    BY <1>3 DEF ClientStep, Ask, CancelOperation, AskRegistry, Mark, AskLimiter, RunCaptured
  <2>. QED
    BY <2>1, <2>2, <2>3, <2>4 DEF Killer
<1>4. \A d \in Calls : (event[d] => event'[d]) /\ (alive'[d] => alive[d])
                       /\ (Killer(d) => Killer(d)' \/ ~ alive'[d])
  BY <1>2, <1>3
<1>. QED
  BY <1>1, <1>4 DEF Settled

\* The registry has started the callback of a running call when it sets the event.
LEMMA RegistryReaches ==
    ASSUME LimiterInv, ReachInv, NEW c \in Calls, NEW d \in Calls, RegistryCancel(c),
           UNCHANGED <<pc, alive, callback>>
    PROVE  event'[d] /\ alive'[d] => kills'[d] > 0 \/ pc'[d] \in {"launched", "half"}
<1>1. CallOK(d) /\ kills \in [Calls -> Nat] /\ event \in [Calls -> BOOLEAN]
  BY DEF ReachInv, LimiterInv, TypeOK
<1>. QED
  BY <1>1 DEF RegistryCancel, CallOK

\* A step of a process or a client keeps what is known of calls.
LEMMA OutsiderCallOK ==
    ASSUME LimiterInv, ReachInv, NEW d \in Calls,
           \/ \E c \in Calls : ProcessExit(c) \/ CallbackRuns(c)
           \/ \E k \in Clients : ClientStep(k)
    PROVE  CallOK(d)'
<1>. USE DEF LimiterInv, TypeOK, fixed, body, entries, clients, callVars, Tell
<1>0. CallOK(d) /\ (event[d] => event'[d]) /\ (alive'[d] => alive[d]) /\ UNCHANGED <<pc, callback, cancel>>
      /\ (Settled(d) => Settled(d)')
  BY OutsidersKeepSettled DEF ReachInv
<1>1. event'[d] /\ alive'[d] => kills'[d] > 0 \/ pc'[d] \in {"launched", "half"}
  <2>1. ASSUME NEW c \in Calls, ProcessExit(c) \/ CallbackRuns(c)
        PROVE  event'[d] /\ alive'[d] => kills'[d] > 0 \/ pc'[d] \in {"launched", "half"}
    <3>1. CASE ProcessExit(c)
      BY <1>0, <3>1 DEF ProcessExit, CallOK
    <3>2. CASE CallbackRuns(c)
      BY <1>0, <3>2 DEF CallbackRuns, CallOK
    <3>. QED
      BY <2>1, <3>1, <3>2
  <2>2. ASSUME NEW k \in Clients, ClientStep(k)
        PROVE  event'[d] /\ alive'[d] => kills'[d] > 0 \/ pc'[d] \in {"launched", "half"}
    <3>1. CASE UNCHANGED <<event, kills>>
      BY <1>0, <3>1 DEF CallOK
    <3>2. CASE \E c \in Calls : RegistryCancel(c) /\ UNCHANGED <<pc, alive, callback>>
      BY <3>2, RegistryReaches
    <3>3. AskRegistry(k) => target[k] \in Calls
      BY DEF AskRegistry, TargetsOK
    <3>4. \/ UNCHANGED <<event, kills>>
          \/ \E c \in Calls : RegistryCancel(c) /\ UNCHANGED <<pc, alive, callback>>
      BY <2>2, <3>3 DEF ClientStep, Ask, CancelOperation, AskRegistry, Mark, AskLimiter, RunCaptured
    <3>. QED
      BY <3>1, <3>2, <3>4
  <2>. QED
    BY <2>1, <2>2
<1>2. requested'[d] => pc'[d] \in Begun /\ Settled(d)'
  <2>1. CASE requested'[d] = requested[d]
    BY <1>0, <2>1 DEF CallOK
  <2>2. CASE \E k \in Clients : Mark(k) /\ target[k] = d
    <3>. PICK k \in Clients : Mark(k) /\ target[k] = d
      BY <2>2
    <3>1. pc[d] \in Begun /\ (event[d] \/ ~ alive[d])
      BY DEF Mark, ReachInv, ClientOK
    <3>. QED
      BY <1>0, <3>1 DEF Settled
  <2>3. CASE \E k \in Clients : AskLimiter(k) /\ target[k] = d /\ requested' # requested
    <3>. PICK k \in Clients : AskLimiter(k) /\ target[k] = d /\ requested' # requested
      BY <2>3
    <3>1. cancel[d] # "none" /\ at'[k] = cancel[d] /\ target'[k] = d /\ cancel[d] \in {"kill", "nothing"}
      BY DEF AskLimiter
    <3>2. pc[d] \in Begun
      BY <1>0, <3>1 DEF CallOK
    <3>3. CASE cancel[d] = "kill"
      <4>1. Killer(d)'
        BY <3>1, <3>3 DEF Killer
      <4>. QED
        BY <1>0, <3>2, <4>1 DEF Settled
    <3>4. CASE cancel[d] = "nothing"
      <4>1. ~ alive[d]
        BY <1>0, <3>4 DEF CallOK, Leaving
      <4>. QED
        BY <1>0, <3>2, <4>1 DEF Settled
    <3>. QED
      BY <3>1, <3>3, <3>4
  <2>4. \/ requested'[d] = requested[d]
        \/ \E k \in Clients : target[k] = d /\ (Mark(k) \/ (AskLimiter(k) /\ requested' # requested))
    BY DEF ClientStep, ProcessExit, CallbackRuns, Ask, CancelOperation, AskRegistry, Mark,
           AskLimiter, RunCaptured
  <2>. QED
    BY <2>1, <2>2, <2>3, <2>4
<1>. QED
  BY <1>0, <1>1, <1>2 DEF CallOK

\* A client that took no step knows what it knew.
LEMMA OtherClientOK ==
    ASSUME LimiterInv, ReachInv, NEW k \in Clients, at'[k] = at[k], target'[k] = target[k],
           answer'[k] = answer[k],
           \/ \E c \in Calls : ProcessExit(c) \/ CallbackRuns(c)
           \/ \E j \in Clients : ClientStep(j)
    PROVE  ClientOK(k)'
<1>1. ClientOK(k) /\ (at[k] # "idle" => target[k] \in Calls)
  BY DEF ReachInv, LimiterInv, TargetsOK
<1>2. /\ at'[k] \in {"registry", "mark", "kill", "nothing"} => pc'[target'[k]] \in Begun
      /\ at'[k] = "nothing" => pc'[target'[k]] \in Leaving
      /\ answer'[k] # "none" => at'[k] = "told"
  BY <1>1, OutsidersKeepSettled DEF ClientOK
<1>3. at'[k] = "mark" => event'[target'[k]] \/ ~ alive'[target'[k]]
  BY <1>1, OutsidersKeepSettled DEF ClientOK
<1>4. answer'[k] = "requested" => Settled(target[k])'
  <2>1. answer[k] = "requested" => target[k] \in Calls /\ Settled(target[k])
    BY <1>1 DEF ClientOK
  <2>. QED
    BY <2>1, OutsidersKeepSettled
<1>. QED
  BY <1>2, <1>3, <1>4 DEF ClientOK

\* A client that took a step may say what it says.
LEMMA OwnClientOK ==
    ASSUME LimiterInv, ReachInv, NEW k \in Clients, ClientStep(k)
    PROVE  ClientOK(k)'
<1>. USE DEF LimiterInv, TypeOK, fixed, body, entries, clients, callVars, Tell
<1>0. ClientOK(k) /\ (at[k] # "idle" => target[k] \in Calls) /\ UNCHANGED pc
      /\ \A d \in Calls : CallOK(d) /\ (Settled(d) => Settled(d)')
                          /\ (event[d] => event'[d]) /\ (alive'[d] => alive[d])
  BY OutsidersKeepSettled DEF ReachInv, TargetsOK
<1>1. ASSUME NEW c \in Calls, Ask(k, c) PROVE ClientOK(k)'
  <2>1. target'[k] = c /\ (answer'[k] = "requested" => requested[c])
    BY <1>0, <1>1 DEF Ask, ClientOK
  <2>2. at'[k] = "registry" => cancel[c] # "none"
    BY <1>1 DEF Ask
  <2>3. at'[k] \in {"registry", "limiter", "told"} /\ (answer'[k] # "none" => at'[k] = "told")
    BY <1>0, <1>1 DEF Ask, ClientOK
  <2>. QED
    BY <1>0, <2>1, <2>2, <2>3 DEF ClientOK, CallOK
<1>2. ASSUME NEW c \in Calls, CancelOperation(k, c) PROVE ClientOK(k)'
  <2>1. target'[k] = c /\ event'[c] /\ at'[k] = "told"
    BY <1>2 DEF CancelOperation, RegistryCancel
  <2>. QED
    BY <2>1 DEF ClientOK, Settled
<1>3. CASE AskRegistry(k)
  <2>1. target'[k] = target[k] /\ target[k] \in Calls /\ at'[k] \in {"mark", "limiter"} /\ answer'[k] = "none"
    BY <1>0, <1>3 DEF AskRegistry, ClientOK
  <2>2. at'[k] = "mark" => event'[target[k]] \/ ~ alive'[target[k]]
    BY <1>0, <1>3, <2>1 DEF AskRegistry, RegistryCancel, CallOK
  <2>3. pc[target[k]] \in Begun
    BY <1>0, <1>3 DEF AskRegistry, ClientOK
  <2>. QED
    BY <1>0, <2>1, <2>2, <2>3 DEF ClientOK
<1>4. CASE Mark(k)
  <2>1. target'[k] = target[k] /\ target[k] \in Calls /\ at'[k] = "told"
    BY <1>0, <1>4 DEF Mark
  <2>2. Settled(target[k])
    BY <1>0, <1>4 DEF Mark, ClientOK, Settled
  <2>. QED
    BY <1>0, <2>1, <2>2 DEF ClientOK
<1>5. CASE AskLimiter(k)
  <2>1. target'[k] = target[k] /\ target[k] \in Calls
    BY <1>0, <1>5 DEF AskLimiter
  <2>2. \/ at'[k] = "told" /\ (answer'[k] = "requested" => requested[target[k]])
        \/ answer'[k] = "none" /\ at'[k] = cancel[target[k]] /\ cancel[target[k]] \in {"kill", "nothing"}
    BY <1>0, <1>5, <2>1 DEF AskLimiter, ClientOK
  <2>. QED
    BY <1>0, <2>1, <2>2 DEF ClientOK, CallOK
<1>6. CASE RunCaptured(k)
  <2>1. target'[k] = target[k] /\ target[k] \in Calls /\ at'[k] = "told"
    BY <1>0, <1>6 DEF RunCaptured
  <2>2. pc[target[k]] \in Begun /\ ~ alive'[target[k]]
    BY <1>0, <1>6, <2>1 DEF RunCaptured, ClientOK, CallOK, Leaving
  <2>. QED
    BY <1>0, <2>1, <2>2 DEF ClientOK, Settled
<1>. QED
  BY <1>1, <1>2, <1>3, <1>4, <1>5, <1>6 DEF ClientStep

\* Clients take their steps one at a time, and processes do not take them for them.
LEMMA OneClientMoves ==
    ASSUME LimiterInv, NEW k \in Clients,
           \/ \E c \in Calls : ProcessExit(c) \/ CallbackRuns(c)
           \/ \E j \in Clients \ {k} : ClientStep(j)
    PROVE  at'[k] = at[k] /\ target'[k] = target[k] /\ answer'[k] = answer[k]
  BY DEF LimiterInv, TypeOK, ProcessExit, CallbackRuns, ClientStep, Ask, CancelOperation,
         AskRegistry, Mark, AskLimiter, RunCaptured, Tell, clients

\* Every step keeps the invariant.
LEMMA ReachStep == ASSUME LimiterInv, ReachInv, [Next]_vars PROVE ReachInv'
<1>1. CASE \E c \in Calls : CallStep(c)
  BY <1>1, CallReach
<1>2. CASE \/ \E c \in Calls : ProcessExit(c) \/ CallbackRuns(c)
           \/ \E k \in Clients : ClientStep(k)
  <2>1. \A d \in Calls : CallOK(d)'
    BY <1>2, OutsiderCallOK
  <2>2. ASSUME NEW k \in Clients PROVE ClientOK(k)'
    BY <1>2, OwnClientOK, OneClientMoves, OtherClientOK
  <2>. QED
    BY <2>1, <2>2 DEF ReachInv
<1>3. CASE UNCHANGED vars
  <2>1. \A d : Settled(d)' <=> Settled(d)
    BY <1>3 DEF Settled, Killer, vars
  <2>. QED
    BY <1>3, <2>1 DEF ReachInv, CallOK, ClientOK, vars
<1>. QED
  BY <1>1, <1>2, <1>3 DEF Next

\* A client that was told its cancellation is requested was not lied to: a process that still runs
\* has a kill on its way, however the registry, the limiter and the call interleave.
THEOREM AcceptedCancelsReach == Spec => []AcceptedCancelReaches
<1>1. Init => ReachInv
  BY DEF Init, ReachInv, CallOK, ClientOK
<1>2. LimiterInv /\ ReachInv => AcceptedCancelReaches
  <2>. SUFFICES ASSUME LimiterInv, ReachInv, NEW k \in Clients,
                       answer[k] = "requested", alive[target[k]]
                PROVE  \/ kills[target[k]] > 0
                       \/ event[target[k]] /\ pc[target[k]] \in {"launched", "half"}
                       \/ Killer(target[k])
    BY DEF AcceptedCancelReaches, Killer
  <2>1. target[k] \in Calls /\ Settled(target[k]) /\ CallOK(target[k])
    BY DEF ReachInv, ClientOK, LimiterInv, TargetsOK
  <2>. QED
    BY <2>1 DEF Settled, CallOK
<1>. QED
  BY <1>1, <1>2, ReachStep, InvHolds, PTL DEF Spec

\* All of it together: what the limiter keeps up however its calls end and whoever cancels them.
THEOREM LeasesAreSafe == Spec => []LeasesSafe
<1>1. PermitsAddUp /\ ListedWithinCapacity /\ LeaseOutlivesOnlyUncaught /\ AcceptedCancelReaches
      => LeasesSafe
  BY DEF LeasesSafe
<1>. QED
  BY <1>1, PermitsAreKept, ListingIsWithinCapacity, LeasesEndWithCalls, AcceptedCancelsReach, PTL

-----------------------------------------------------------------------------
(* OutputStore: the invariant.                                              *)


\* Where a capture has not begun, and where it has ended.
Early == {"idle", "reconcile", "judge", "mark", "scanned", "enter", "register"}
Done == {"succeeded", "failed", "lost"}

\* What a stream counts for in active, and where its file and its sidecar are there.
Counted == {"open", "flush", "sidecar", "unlist"}
Listed == {"unlist", "digest", "writing", "closed"}
Summed == {"digest", "writing", "closed"}

\* What a metadata write may be for.
Purposes == StreamSet \union Sidecars \union Statuses

\* The types of the variables that the proofs need.
AuxTypes ==
    /\ aux \in [by : Captures \union {NoId}, for : Purposes, id : Ids \union {NoId},
                old : Nat, done : BOOLEAN]
DataTypes ==
    /\ files \in [Ids -> SUBSET Names]
    /\ manifest \in [Ids -> Statuses]
    /\ logical \in [Ids -> Nat]
    /\ dropped \subseteq Captures
OwnerTypes ==
    /\ active \in [Ids -> Nat] /\ leased \subseteq Jobs
    /\ \A i \in Old : active[i] = 0
ThreadTypes ==
    /\ phase \in [Captures -> Phases]
    /\ todo \in [Captures -> SUBSET Ids]
    /\ look \in [Captures -> Ids \union {NoId}]
StreamTypes ==
    /\ stream \in [Captures -> [StreamSet -> Stages]]
    /\ granted \in [Captures -> SUBSET StreamSet]
    /\ errors \subseteq Captures

\* The open streams of a capture.
Counts(c) == {s \in StreamSet : stream[c][s] \in Counted}

\* A job owns its artifact from its start to its release, and active counts the
\* open streams of a capture without an error.
OwnersOK(c) ==
    /\ c \in leased <=> c \in Jobs /\ phase[c] \notin {"idle"} \union Done
    /\ c \notin errors => active[c] = Cardinality(Counts(c))

\* What the phase of a capture says of its streams.
StagesOK(c) ==
    /\ phase[c] \in Early \union {"registering"} =>
        c \notin errors /\ \A s \in StreamSet : stream[c][s] \in {"none", "open"}
    /\ phase[c] \in {"register", "registering", "capture", "close"} =>
        \A s \in StreamSet : stream[c][s] # "none"
    /\ phase[c] = "unwind" => \A s \in StreamSet : stream[c][s] \in {"open", "closed", "failed"}
    /\ phase[c] \notin Early \union {"registering", "capture", "close", "unwind"} =>
        \A s \in StreamSet : stream[c][s] \in {"none", "closed", "failed", "stuck"}
    /\ c \notin errors => \A s \in StreamSet : stream[c][s] \notin {"stuck", "failed"}

\* A chunk is only in the hands of a stream that writes.
GrantsOK(c) ==
    \A s \in granted[c] : phase[c] \in {"capture", "close"} /\ stream[c][s] \in {"open", "flush"}

\* Which phases are those of a command, and of a job.
KindsOK(c) ==
    /\ phase[c] \in {"close", "saving"} => c \in Commands
    /\ phase[c] \in {"register", "registering", "publish", "publishing", "release",
                    "unpublished", "lost"} => c \in Jobs

\* What the phase of a capture says of its manifest.
StatusOK(c) ==
    /\ phase[c] \in Early \union {"unwind"} => manifest[c] = "none"
    /\ phase[c] \in {"registering", "capture", "publish", "unpublished"} =>
        manifest[c] \in {"none", "running"}
    /\ c \in Commands => /\ manifest[c] \in {"none", "completed"}
                         /\ phase[c] \in {"capture", "close"} => manifest[c] = "none"
    /\ phase[c] = "release" /\ c \in errors => manifest[c] \in {"none", "failed"}
    /\ phase[c] = "failed" => manifest[c] \in {"none", "failed"}
    /\ phase[c] = "lost" /\ active[c] > 0 => manifest[c] \in {"none", "running"}
    /\ phase[c] = "succeeded" /\ c \in Commands /\ c \notin dropped => manifest[c] = "completed"

\* A manifest in progress is not that of a capture that only begins, and one that
\* is being marked has no owner.
LookOK(c) ==
    /\ phase[c] \in {"judge", "mark"} =>
        look[c] \in Old \/ (look[c] \in Jobs /\ phase[look[c]] \notin Early)
    /\ phase[c] = "mark" => ~Owned(look[c])

\* Who holds _aux_lock, for what, and what is there before and after its write.
HoldsOK(c) ==
    /\ aux.by = c => \/ phase[c] \in {"mark", "registering", "saving", "publishing"}
                     \/ \E s \in StreamSet : stream[c][s] \in {"sidecar", "writing"}
    /\ phase[c] = "mark" => aux.by = c /\ aux.for = "failed" /\ aux.id = look[c]
    /\ phase[c] = "registering" => /\ aux.by = c /\ aux.for = "running" /\ aux.id = c
                                   /\ ~aux.done => manifest[c] = "none"
    /\ phase[c] = "saving" => /\ aux.by = c /\ aux.for = "completed" /\ aux.id = c
                              /\ ~aux.done => manifest[c] = "none"
                              /\ aux.done /\ c \notin dropped => manifest[c] = "completed"
    /\ phase[c] = "publishing" => /\ aux.by = c /\ aux.id = c
                                  /\ aux.for = IF c \in errors THEN "failed" ELSE "completed"
                                  /\ ~aux.done => manifest[c] \in {"none", "running"}
                                  /\ aux.done /\ c \in errors => manifest[c] \in {"none", "failed"}
    /\ \A s \in StreamSet : stream[c][s] = "sidecar" => aux.by = c /\ aux.for = s /\ aux.id = c
    /\ \A s \in StreamSet : stream[c][s] = "writing" =>
          aux.by = c /\ aux.for = Sidecar[s] /\ aux.id = c

\* The files of a capture without an error that lost nothing.
FilesOK(c) ==
    c \notin errors /\ c \notin dropped =>
        /\ \A s \in StreamSet : stream[c][s] # "none" => s \in files[c]
        /\ \A s \in StreamSet : stream[c][s] \in Listed => Sidecar[s] \in files[c]
        /\ \A s \in StreamSet : stream[c][s] = "sidecar" /\ aux.done => Sidecar[s] \in files[c]
        /\ \A s \in StreamSet : stream[c][s] = "writing" /\ aux.done => "digest" \in files[c]
        /\ (\A s \in StreamSet : stream[c][s] \in Summed) =>
              "digest" \in files[c] \/ \E s \in StreamSet : stream[c][s] \in {"digest", "writing"}

\* Nothing of it is left.
Vacant(c) == files[c] = {} /\ logical[c] = 0 /\ active[c] = 0

\* What has not begun, or has failed, has nothing; what succeeds is closed.
EndsOK(c) ==
    /\ (\A s \in StreamSet : stream[c][s] = "none") => Vacant(c)
    /\ phase[c] \in {"publish", "publishing", "release"} /\ c \in errors => Vacant(c)
    /\ phase[c] = "failed" => Vacant(c)
    /\ \/ phase[c] \in {"saving", "succeeded"}
       \/ phase[c] \in {"publish", "publishing", "release"} /\ c \notin errors
       => c \notin errors /\ \A s \in StreamSet : stream[c][s] = "closed"

\* All of it, for one capture.
CaptureOK(c) ==
    /\ OwnersOK(c) /\ StagesOK(c) /\ GrantsOK(c) /\ KindsOK(c) /\ StatusOK(c)
    /\ LookOK(c) /\ HoldsOK(c) /\ FilesOK(c) /\ EndsOK(c)

\* The inductive invariant.
StoreInv ==
    /\ AuxTypes /\ DataTypes /\ OwnerTypes /\ ThreadTypes /\ StreamTypes
    /\ \A c \in Captures : CaptureOK(c)

-----------------------------------------------------------------------------
(* Facts about names and sets.                                              *)

\* There are at most three streams.
LEMMA StreamFacts ==
    /\ StreamSet \subseteq {"stdout", "stderr", "combined"}
    /\ IsFiniteSet(StreamSet) /\ StreamSet # {}
  <1>1. StreamSet \subseteq {"stdout", "stderr", "combined"} /\ StreamSet # {}
    BY StoreAssumption DEF Sidecar
  <1>2. IsFiniteSet({"stdout", "stderr", "combined"})
    <2>1. IsFiniteSet({"stdout"})
      BY FS_Singleton
    <2>2. IsFiniteSet({"stdout"} \union {"stderr"})
      BY <2>1, FS_AddElement
    <2>3. IsFiniteSet(({"stdout"} \union {"stderr"}) \union {"combined"})
      BY <2>2, FS_AddElement
    <2>4. ({"stdout"} \union {"stderr"}) \union {"combined"} = {"stdout", "stderr", "combined"}
      OBVIOUS
    <2> QED BY <2>3, <2>4
  <1> QED BY <1>1, <1>2, FS_Subset

\* The names of streams, sidecars and statuses do not meet.
LEMMA SidecarFacts ==
    ASSUME NEW s \in StreamSet
    PROVE  /\ Sidecar[s] \in Sidecars /\ Sidecar[s] \notin StreamSet /\ s \notin Sidecars
           /\ Sidecar[s] # "digest" /\ Sidecar[s] \in Names /\ s \in Names /\ "digest" \in Names
           /\ Sidecar[s] \in Purposes /\ s \in Purposes
           /\ s \notin Statuses /\ Sidecar[s] \notin Statuses
           /\ \A r \in StreamSet : Sidecar[r] = Sidecar[s] => r = s
           /\ \A r \in StreamSet : Sidecar[r] # s
  <1>1. StreamSet \subseteq {"stdout", "stderr", "combined"}
    BY StreamFacts
  <1> QED BY <1>1 DEF Sidecars, Sidecar, Names, Purposes, Statuses

\* An eviction takes only what nobody owns, and never what it makes room for.
LEMMA GoneFacts ==
    ASSUME NEW need, NEW id
    PROVE  Gone(need, id) \subseteq {i \in Ids : i # id /\ ~Owned(i)}
  BY DEF Gone, Victims, Evictable

-----------------------------------------------------------------------------
(* What a step does to the artifacts it is not about.                       *)

\* Nothing of it changes.
Kept(i) ==
    /\ files'[i] = files[i] /\ manifest'[i] = manifest[i] /\ logical'[i] = logical[i]
    /\ i \in dropped' <=> i \in dropped

\* All of it goes, and nobody owned it.
Evicted(i) ==
    /\ ~Owned(i) /\ files'[i] = {} /\ manifest'[i] = "none" /\ logical'[i] \in {0, logical[i]}
    /\ i \in Captures => i \in dropped'

Spared(i) == Kept(i) \/ Evicted(i)

\* A deletion spares what it does not name and what is owned.
LEMMA DeleteSpares ==
    ASSUME DataTypes, NEW gone \in SUBSET Ids, NEW of \in SUBSET Ids, NEW keep,
           \A i \in gone : ~Owned(i), Delete(gone, of, keep), logical' \in [Ids -> Nat],
           \A i \in Ids \ of : IF i \in gone THEN logical'[i] \in {0, logical[i]}
                               ELSE logical'[i] = logical[i]
    PROVE  DataTypes' /\ \A i \in Ids \ of : Spared(i)
  <1>1. /\ files' \in [Ids -> SUBSET Names] /\ manifest' \in [Ids -> Statuses]
        /\ dropped' \subseteq Captures
    BY DEF Delete, DataTypes, Statuses
  <1>2. ASSUME NEW i \in Ids \ of PROVE Spared(i)
    BY <1>2 DEF Delete, Spared, Kept, Evicted, DataTypes
  <1> QED BY <1>1, <1>2 DEF DataTypes

\* So does an eviction,
LEMMA EvictSpares ==
    ASSUME DataTypes, NEW gone \in SUBSET Ids, \A i \in gone : ~Owned(i), Evict(gone), logical' \in [Ids -> Nat],
           \A i \in Ids : IF i \in gone THEN logical'[i] \in {0, logical[i]}
                          ELSE logical'[i] = logical[i]
    PROVE  DataTypes' /\ \A i \in Ids : Spared(i)
  BY DeleteSpares DEF Evict

\* a charge,
LEMMA ChargeSpares ==
    ASSUME DataTypes, NEW id \in Ids, NEW need, NEW extra \in Nat, Charge(need, id, extra)
    PROVE  /\ DataTypes' /\ \A i \in Ids \ {id} : Spared(i)
           /\ files'[id] = files[id] /\ manifest'[id] = manifest[id]
           /\ id \in dropped' <=> id \in dropped
           /\ logical'[id] = logical[id] + extra
  <1> DEFINE gone == Gone(need, id)
  <1>1. gone \subseteq Ids /\ id \notin gone /\ \A i \in gone : ~Owned(i)
    BY GoneFacts
  <1>2. /\ files' = [i \in Ids |-> IF i \in gone THEN {} ELSE files[i]]
        /\ manifest' = [i \in Ids |-> IF i \in gone THEN "none" ELSE manifest[i]]
        /\ dropped' = dropped \union (gone \intersect Captures)
        /\ logical' = [i \in Ids |-> IF i \in gone THEN 0 ELSE IF i = id THEN logical[i] + extra
               ELSE logical[i]]
    BY DEF Charge, Evict, Delete
  <1> HIDE DEF gone
  <1>3. DataTypes'
    BY <1>1, <1>2 DEF DataTypes, Statuses
  <1>4. ASSUME NEW i \in Ids \ {id} PROVE Spared(i)
    BY <1>1, <1>2, <1>4 DEF DataTypes, Spared, Kept, Evicted
  <1> QED BY <1>1, <1>2, <1>3, <1>4 DEF DataTypes

\* a charge that is refused,
LEMMA DenySpares ==
    ASSUME DataTypes, NEW id, NEW need, Deny(need, id)
    PROVE  DataTypes' /\ \A i \in Ids : Spared(i)
  <1>1. Gone(need, id) \in SUBSET Ids /\ \A i \in Gone(need, id) : ~Owned(i)
    BY GoneFacts
  <1>2. /\ logical' \in [Ids -> Nat]
        /\ \A i \in Ids : IF i \in Gone(need, id) THEN logical'[i] \in {0, logical[i]}
                          ELSE logical'[i] = logical[i]
    BY DEF Deny, DataTypes
  <1> QED BY <1>1, <1>2, EvictSpares DEF Deny

\* and the abort of a capture, which leaves nothing of that one.
LEMMA AbortSpares ==
    ASSUME DataTypes, active \in [Ids -> Nat], NEW c \in Captures, NEW keep, NEW gone \in SUBSET Ids,
           \A i \in gone : i # c /\ ~Owned(i), Abort(c, keep, gone)
    PROVE  /\ DataTypes' /\ \A i \in Ids \ {c} : Spared(i) /\ active'[i] = active[i]
           /\ active' \in [Ids -> Nat]
           /\ Vacant(c)'
           /\ dropped' \intersect {c} = dropped \intersect {c}
           /\ manifest'[c] = IF c \in keep THEN manifest[c] ELSE "none"
  <1>0. c \in Ids /\ {c} \in SUBSET Ids
    BY DEF Ids
  <1>1. logical' \in [Ids -> Nat]
    BY DEF Abort, DataTypes
  <1>2. \A i \in Ids \ {c} : IF i \in gone THEN logical'[i] \in {0, logical[i]}
                             ELSE logical'[i] = logical[i]
    BY DEF Abort, DataTypes
  <1>3. DataTypes' /\ \A i \in Ids \ {c} : Spared(i)
    BY <1>0, <1>1, <1>2, DeleteSpares DEF Abort
  <1>4. active' \in [Ids -> Nat] /\ \A i \in Ids \ {c} : active'[i] = active[i]
    BY <1>0 DEF Abort
  <1>5. Vacant(c)' /\ dropped' \intersect {c} = dropped \intersect {c}
    BY <1>0 DEF Abort, Delete, Vacant
  <1>6. manifest'[c] = IF c \in keep THEN manifest[c] ELSE "none"
    BY <1>0 DEF Abort, Delete
  <1> QED BY <1>3, <1>4, <1>5, <1>6

\* The free lock has its type.
LEMMA FreeFits == Free \in [by : Captures \union {NoId}, for : Purposes, id : Ids \union {NoId},
                            old : Nat, done : BOOLEAN]
  BY DEF Free, Purposes, Statuses

-----------------------------------------------------------------------------
(* What a step does to the other captures.                                  *)

\* A step is not about d.
Untouched(d) ==
    /\ phase'[d] = phase[d] /\ todo'[d] = todo[d] /\ look'[d] = look[d]
    /\ stream'[d] = stream[d] /\ granted'[d] = granted[d]
    /\ d \in errors' <=> d \in errors
    /\ active'[d] = active[d] /\ (d \in leased' <=> d \in leased)
    /\ Spared(d)
    /\ aux'.by = d <=> aux.by = d
    /\ aux.by = d => aux' = aux

\* Who has begun does not begin again, and owns nothing new.
Forward ==
    /\ \A c \in Captures : phase[c] \notin Early =>
          phase'[c] \notin Early /\ (~Owned(c) => ~Owned(c)')
    /\ \A i \in Old : ~Owned(i)'

\* A capture that a step is not about keeps its part of the invariant.
LEMMA OthersKeep ==
    ASSUME StoreInv, NEW d \in Captures, Untouched(d), Forward
    PROVE  CaptureOK(d)'
  <1>0. CaptureOK(d) /\ d \in Ids
    BY DEF StoreInv, Ids
  <1>1. OwnersOK(d)'
    BY <1>0 DEF CaptureOK, OwnersOK, Counts, Untouched
  <1>2. StagesOK(d)'
    BY <1>0 DEF CaptureOK, StagesOK, Untouched
  <1>3. GrantsOK(d)'
    BY <1>0 DEF CaptureOK, GrantsOK, Untouched
  <1>4. KindsOK(d)'
    BY <1>0 DEF CaptureOK, KindsOK, Untouched
  <1>5. StatusOK(d)'
    BY <1>0 DEF CaptureOK, StatusOK, Untouched, Spared, Kept, Evicted
  <1>6. LookOK(d)'
    BY <1>0 DEF CaptureOK, LookOK, Untouched, Forward, Captures
  <1>7. HoldsOK(d)'
    BY <1>0 DEF CaptureOK, HoldsOK, Untouched, Spared, Kept, Evicted
  <1>8. FilesOK(d)'
    BY <1>0 DEF CaptureOK, FilesOK, HoldsOK, Untouched, Spared, Kept, Evicted
  <1>9. EndsOK(d)'
    BY <1>0 DEF CaptureOK, EndsOK, Vacant, Untouched, Spared, Kept, Evicted
  <1> QED BY <1>1, <1>2, <1>3, <1>4, <1>5, <1>6, <1>7, <1>8, <1>9 DEF CaptureOK

\* What OwnedKept asks of a step.
OwnedStep == \A c \in Captures : Owned(c) /\ Still(c) => Held(c) \subseteq Held(c)'

\* A step of c is sound when it is so for c.
LEMMA Compose ==
    ASSUME StoreInv, NEW c \in Captures,
           AuxTypes', DataTypes', OwnerTypes', ThreadTypes', StreamTypes',
           \A d \in Captures \ {c} : Untouched(d),
           phase[c] \notin Early => phase'[c] \notin Early /\ (~Owned(c) => ~Owned(c)'),
           CaptureOK(c)',
           Still(c) /\ Owned(c) => Held(c) \subseteq Held(c)'
    PROVE  StoreInv' /\ OwnedStep
  <1>1. \A i \in Old : ~Owned(i)'
    BY StoreAssumption DEF Owned, OwnerTypes, Captures
  <1>2. ASSUME NEW d \in Captures \ {c}
        PROVE  phase[d] \notin Early => phase'[d] \notin Early /\ (~Owned(d) => ~Owned(d)')
    BY <1>2 DEF Untouched, Owned
  <1>3. Forward
    BY <1>1, <1>2 DEF Forward
  <1>4. ASSUME NEW d \in Captures PROVE CaptureOK(d)'
    BY <1>3, OthersKeep
  <1>5. ASSUME NEW d \in Captures, Owned(d), Still(d) PROVE Held(d) \subseteq Held(d)'
    BY <1>5 DEF Untouched, Spared, Kept, Evicted, Held
  <1> QED BY <1>4, <1>5 DEF StoreInv, OwnedStep

\* What expires is not owned: the manifest of a capture in progress says so, or
\* is not there yet.
LEMMA DeletableUnowned ==
    ASSUME StoreInv
    PROVE  Deletable \subseteq Ids /\ \A i \in Deletable : ~Owned(i)
  <1> SUFFICES ASSUME NEW i \in Deletable, Owned(i) PROVE FALSE
    BY DEF Deletable
  <1>1. i \in Ids /\ manifest[i] \in {"completed", "failed"}
    BY DEF Deletable, StoreInv, DataTypes, Statuses
  <1>2. i \in Captures
    BY <1>1, StoreAssumption DEF StoreInv, OwnerTypes, Owned, Ids, Captures
  <1>3. phase[i] \notin {"close", "saving", "publishing", "release"} /\ phase[i] \in Phases
    BY <1>2 DEF Deletable, StoreInv, ThreadTypes
  <1>4. OwnersOK(i) /\ StatusOK(i) /\ EndsOK(i) /\ active[i] \in Nat
    BY <1>1, <1>2 DEF StoreInv, CaptureOK, OwnerTypes
  <1>5. phase[i] \in {"succeeded", "failed", "lost"}
    BY <1>1, <1>2, <1>3, <1>4 DEF StatusOK, Phases, Early, Captures
  <1>6. active[i] > 0
    BY <1>4, <1>5 DEF OwnersOK, Owned, Done
  <1>7. phase[i] = "succeeded"
    BY <1>1, <1>4, <1>5, <1>6 DEF StatusOK, EndsOK, Vacant
  <1>8. i \notin errors /\ Counts(i) = {}
    BY <1>4, <1>7 DEF EndsOK, Counts, Counted
  <1> QED BY <1>4, <1>6, <1>8, FS_EmptySet DEF OwnersOK

\* The charge of a metadata file takes nothing of what is owned.
LEMMA AuxChargeSpares ==
    ASSUME DataTypes, NEW by \in Captures, NEW for \in Purposes, NEW id \in Ids, NEW name,
           AuxCharge(by, for, id, name)
    PROVE  /\ DataTypes' /\ \A i \in Ids : Spared(i)
           /\ files'[id] = files[id] /\ manifest'[id] = manifest[id]
           /\ id \in dropped' <=> id \in dropped
           /\ logical'[id] = logical[id]
           /\ AuxTypes' /\ aux.by = NoId
           /\ aux'.by = by /\ aux'.for = for /\ aux'.id = id /\ ~aux'.done
  <1>1. Charge(1, id, 0)
    BY DEF AuxCharge
  <1>2. /\ DataTypes' /\ \A i \in Ids \ {id} : Spared(i)
        /\ files'[id] = files[id] /\ manifest'[id] = manifest[id]
        /\ id \in dropped' <=> id \in dropped
        /\ logical'[id] = logical[id] + 0
    BY <1>1, ChargeSpares
  <1>3. logical'[id] = logical[id]
    BY <1>2 DEF DataTypes
  <1>4. Spared(id)
    BY <1>2, <1>3 DEF Spared, Kept
  <1> QED BY <1>2, <1>3, <1>4 DEF AuxCharge, AuxTypes

\* A stream at work belongs to a capture at work.
LEMMA RunningStream ==
    ASSUME StoreInv, NEW c \in Captures, NEW s \in StreamSet,
           \/ stream[c][s] \in {"flush", "sidecar", "unlist", "digest", "writing"}
           \/ s \in granted[c]
    PROVE  phase[c] \in {"capture", "close"}
  BY DEF StoreInv, CaptureOK, StagesOK, GrantsOK

\* One stream of a capture holds _aux_lock.
LEMMA OneWriter ==
    ASSUME StoreInv, NEW c \in Captures, NEW s \in StreamSet, NEW r \in StreamSet,
           stream[c][s] \in {"sidecar", "writing"}, stream[c][r] \in {"sidecar", "writing"}
    PROVE  r = s
  <1>1. HoldsOK(c)
    BY DEF StoreInv, CaptureOK
  <1> QED BY <1>1, SidecarFacts DEF HoldsOK

\* What a capture writes into its own manifest is a status.
LEMMA OwnStatus ==
    ASSUME StoreInv, NEW c \in Captures, phase[c] \in {"registering", "saving", "publishing"}
    PROVE  aux.for \in Statuses
  BY DEF StoreInv, CaptureOK, HoldsOK, Statuses

-----------------------------------------------------------------------------
(* Before the first stream opens.                                           *)

\* A capture begins.
LEMMA StartKeeps ==
    ASSUME StoreInv, NEW c \in Captures, Start(c)
    PROVE  StoreInv' /\ OwnedStep
  <1>1. /\ CaptureOK(c) /\ c \in Ids /\ c # NoId /\ AuxTypes /\ DataTypes /\ OwnerTypes
        /\ ThreadTypes /\ StreamTypes
    BY StoreAssumption DEF StoreInv, Captures, Ids
  <1>2. /\ phase[c] = "idle" /\ phase' = [phase EXCEPT ![c] = "reconcile"]
        /\ leased' = IF c \in Jobs THEN leased \union {c} ELSE leased
        /\ todo' = [todo EXCEPT ![c] = {i \in Ids : manifest[i] # "none"}]
        /\ UNCHANGED <<files, manifest, dropped, logical, active, aux, look, stream, granted,
                       errors>>
    BY DEF Start, Advance, SetPhase, disk, group, accounts, owners, prepare, capture
  <1>3. AuxTypes' /\ DataTypes' /\ OwnerTypes' /\ StreamTypes'
    BY <1>1, <1>2 DEF AuxTypes, DataTypes, OwnerTypes, StreamTypes
  <1>4. ThreadTypes'
    BY <1>1, <1>2 DEF ThreadTypes, Phases
  <1>5. ASSUME NEW d \in Captures \ {c} PROVE Untouched(d)
    BY <1>1, <1>2, <1>5 DEF Untouched, Spared, Kept, Ids, Captures, ThreadTypes, StreamTypes
  <1>6. phase[c] \notin Early => phase'[c] \notin Early /\ (~Owned(c) => ~Owned(c)')
    BY <1>1, <1>2 DEF Early, Owned, OwnerTypes, ThreadTypes
  <1>7. Still(c) /\ Owned(c) => Held(c) \subseteq Held(c)'
    BY <1>1, <1>2 DEF Still, Spared, Kept, Evicted, Held
  <1>8. CaptureOK(c)'
    <2>1. OwnersOK(c)' /\ StagesOK(c)' /\ GrantsOK(c)'
      BY <1>1, <1>2 DEF CaptureOK, ThreadTypes, StreamTypes, OwnersOK, Counts, Early, Done,
         StagesOK, GrantsOK
    <2>2. KindsOK(c)' /\ StatusOK(c)' /\ LookOK(c)'
      BY <1>1, <1>2 DEF CaptureOK, ThreadTypes, StreamTypes, KindsOK, Early, StatusOK, Spared,
         Kept, Evicted, LookOK
    <2>3. HoldsOK(c)' /\ FilesOK(c)' /\ EndsOK(c)'
      BY <1>1, <1>2 DEF CaptureOK, ThreadTypes, StreamTypes, HoldsOK, Spared, Kept, Evicted,
         FilesOK, Listed, Summed, EndsOK, Vacant
    <2> QED BY <2>1, <2>2, <2>3 DEF CaptureOK
  <1> QED BY <1>3, <1>4, <1>5, <1>6, <1>7, <1>8, Compose

\* A manifest in progress whose artifact is owned stays.
LEMMA SpareKeeps ==
    ASSUME StoreInv, NEW c \in Captures, Spare(c)
    PROVE  StoreInv' /\ OwnedStep
  <1>1. /\ CaptureOK(c) /\ c \in Ids /\ c # NoId /\ AuxTypes /\ DataTypes /\ OwnerTypes
        /\ ThreadTypes /\ StreamTypes
    BY StoreAssumption DEF StoreInv, Captures, Ids
  <1>2. /\ phase[c] = "judge" /\ phase' = [phase EXCEPT ![c] = "reconcile"]
        /\ look' = [look EXCEPT ![c] = NoId]
        /\ UNCHANGED <<files, manifest, dropped, logical, active, leased, aux, todo, stream,
                       granted, errors>>
    BY DEF Spare, Advance, SetPhase, disk, group, accounts, owners, prepare, capture
  <1>3. AuxTypes' /\ DataTypes' /\ OwnerTypes' /\ StreamTypes'
    BY <1>1, <1>2 DEF AuxTypes, DataTypes, OwnerTypes, StreamTypes
  <1>4. ThreadTypes'
    BY <1>1, <1>2 DEF ThreadTypes, Phases
  <1>5. ASSUME NEW d \in Captures \ {c} PROVE Untouched(d)
    BY <1>1, <1>2, <1>5 DEF Untouched, Spared, Kept, Ids, Captures, ThreadTypes, StreamTypes
  <1>6. phase[c] \notin Early => phase'[c] \notin Early /\ (~Owned(c) => ~Owned(c)')
    BY <1>1, <1>2 DEF Early, Owned, OwnerTypes, ThreadTypes
  <1>7. Still(c) /\ Owned(c) => Held(c) \subseteq Held(c)'
    BY <1>1, <1>2 DEF Still, Spared, Kept, Evicted, Held
  <1>8. CaptureOK(c)'
    <2>1. OwnersOK(c)' /\ StagesOK(c)' /\ GrantsOK(c)'
      BY <1>1, <1>2 DEF CaptureOK, ThreadTypes, StreamTypes, OwnersOK, Counts, Early, Done,
         StagesOK, GrantsOK
    <2>2. KindsOK(c)' /\ StatusOK(c)' /\ LookOK(c)'
      BY <1>1, <1>2 DEF CaptureOK, ThreadTypes, StreamTypes, KindsOK, Early, StatusOK, Spared,
         Kept, Evicted, LookOK
    <2>3. HoldsOK(c)' /\ FilesOK(c)' /\ EndsOK(c)'
      BY <1>1, <1>2 DEF CaptureOK, ThreadTypes, StreamTypes, HoldsOK, Spared, Kept, Evicted,
         FilesOK, Listed, Summed, EndsOK, Vacant
    <2> QED BY <2>1, <2>2, <2>3 DEF CaptureOK
  <1> QED BY <1>3, <1>4, <1>5, <1>6, <1>7, <1>8, Compose

\* The mark of a manifest is charged.
LEMMA MarkStaleKeeps ==
    ASSUME StoreInv, NEW c \in Captures, MarkStale(c)
    PROVE  StoreInv' /\ OwnedStep
  <1>1. /\ CaptureOK(c) /\ c \in Ids /\ c # NoId /\ AuxTypes /\ DataTypes /\ OwnerTypes
        /\ ThreadTypes /\ StreamTypes
    BY StoreAssumption DEF StoreInv, Captures, Ids
  <1>2. /\ phase[c] = "judge" /\ phase' = [phase EXCEPT ![c] = "mark"] /\ look[c] \in Ids
        /\ ~Owned(look[c])
        /\ aux.by = NoId /\ AuxTypes' /\ DataTypes' /\ \A i \in Ids : Spared(i)
        /\ aux'.by = c /\ aux'.for = "failed" /\ aux'.id = look[c]
        /\ UNCHANGED <<active, leased, todo, look, stream, granted, errors>>
    <2>1. /\ phase[c] = "judge" /\ phase' = [phase EXCEPT ![c] = "mark"] /\ ~Owned(look[c])
          /\ AuxCharge(c, "failed", look[c], "manifest")
          /\ UNCHANGED <<active, leased, todo, look, stream, granted, errors>>
      BY DEF MarkStale, Advance, SetPhase, disk, group, accounts, owners, prepare, capture
    <2>2. look[c] \in Ids
      BY <1>1, <2>1 DEF CaptureOK, LookOK, Ids, Captures
    <2>3. "failed" \in Purposes
      BY DEF Purposes, Statuses
    <2>4. /\ AuxTypes' /\ DataTypes' /\ (\A i \in Ids : Spared(i)) /\ aux.by = NoId /\ aux'.by = c
          /\ aux'.for = "failed" /\ aux'.id = look[c]
      BY <1>1, <2>1, <2>2, <2>3, AuxChargeSpares
    <2> QED BY <1>1, <2>1, <2>2, <2>3, <2>4
  <1>3. AuxTypes' /\ DataTypes' /\ OwnerTypes' /\ StreamTypes'
    BY <1>1, <1>2 DEF AuxTypes, DataTypes, OwnerTypes, StreamTypes
  <1>4. ThreadTypes'
    BY <1>1, <1>2 DEF ThreadTypes, Phases
  <1>5. ASSUME NEW d \in Captures \ {c} PROVE Untouched(d)
    BY <1>1, <1>2, <1>5, StoreAssumption DEF Untouched, Spared, Kept, Ids, Captures,
       ThreadTypes, StreamTypes
  <1>6. phase[c] \notin Early => phase'[c] \notin Early /\ (~Owned(c) => ~Owned(c)')
    BY <1>1, <1>2 DEF Early, Owned, OwnerTypes, ThreadTypes
  <1>7. Still(c) /\ Owned(c) => Held(c) \subseteq Held(c)'
    BY <1>1, <1>2 DEF Still, Spared, Kept, Evicted, Held
  <1>8. CaptureOK(c)'
    <2>1. OwnersOK(c)' /\ StagesOK(c)' /\ GrantsOK(c)'
      BY <1>1, <1>2 DEF CaptureOK, ThreadTypes, StreamTypes, OwnersOK, Counts, Early, Done,
         StagesOK, GrantsOK
    <2>2. KindsOK(c)' /\ StatusOK(c)' /\ HoldsOK(c)'
      BY <1>1, <1>2 DEF CaptureOK, ThreadTypes, StreamTypes, KindsOK, Early, StatusOK, Spared,
         Kept, Evicted, HoldsOK
    <2>3. EndsOK(c)'
      BY <1>1, <1>2 DEF CaptureOK, ThreadTypes, StreamTypes, EndsOK, Vacant, Spared, Kept,
         Evicted
    <2>4. LookOK(c)'
      BY <1>1, <1>2 DEF CaptureOK, ThreadTypes, StreamTypes, LookOK, Early, Owned
    <2>5. FilesOK(c)'
      BY <1>1, <1>2 DEF CaptureOK, ThreadTypes, StreamTypes, FilesOK, Listed, Summed, Spared,
         Kept, Evicted, StagesOK, Early
    <2> QED BY <2>1, <2>2, <2>3, <2>4, <2>5 DEF CaptureOK
  <1> QED BY <1>3, <1>4, <1>5, <1>6, <1>7, <1>8, Compose

\* The mark is there.
LEMMA MarkedKeeps ==
    ASSUME StoreInv, NEW c \in Captures, Marked(c)
    PROVE  StoreInv' /\ OwnedStep
  <1>1. /\ CaptureOK(c) /\ c \in Ids /\ c # NoId /\ AuxTypes /\ DataTypes /\ OwnerTypes
        /\ ThreadTypes /\ StreamTypes
    BY StoreAssumption DEF StoreInv, Captures, Ids
  <1>2. /\ phase[c] = "mark" /\ phase' = [phase EXCEPT ![c] = "reconcile"]
        /\ look' = [look EXCEPT ![c] = NoId]
        /\ aux.by = c /\ aux' = Free
        /\ UNCHANGED <<files, manifest, dropped, logical, active, leased, todo, stream, granted,
                       errors>>
    BY DEF Marked, AuxSettle, Advance, SetPhase, disk, group, accounts, owners, prepare,
       capture
  <1>3. DataTypes' /\ OwnerTypes' /\ StreamTypes'
    BY <1>1, <1>2 DEF DataTypes, OwnerTypes, StreamTypes
  <1>4. AuxTypes'
    BY <1>1, <1>2 DEF AuxTypes, Free, Purposes, Statuses
  <1>5. ThreadTypes'
    BY <1>1, <1>2 DEF ThreadTypes, Phases
  <1>6. ASSUME NEW d \in Captures \ {c} PROVE Untouched(d)
    BY <1>1, <1>2, <1>6, StoreAssumption DEF Untouched, Spared, Kept, Ids, Captures,
       ThreadTypes, StreamTypes, Free
  <1>7. phase[c] \notin Early => phase'[c] \notin Early /\ (~Owned(c) => ~Owned(c)')
    BY <1>1, <1>2 DEF Early, Owned, OwnerTypes, ThreadTypes
  <1>8. Still(c) /\ Owned(c) => Held(c) \subseteq Held(c)'
    BY <1>1, <1>2 DEF Still, Spared, Kept, Evicted, Held
  <1>9. CaptureOK(c)'
    <2>1. OwnersOK(c)' /\ StagesOK(c)' /\ GrantsOK(c)'
      BY <1>1, <1>2 DEF CaptureOK, ThreadTypes, StreamTypes, OwnersOK, Counts, Early, Done,
         StagesOK, GrantsOK
    <2>2. KindsOK(c)' /\ StatusOK(c)' /\ LookOK(c)'
      BY <1>1, <1>2 DEF CaptureOK, ThreadTypes, StreamTypes, KindsOK, Early, StatusOK, Spared,
         Kept, Evicted, LookOK
    <2>3. EndsOK(c)'
      BY <1>1, <1>2 DEF CaptureOK, ThreadTypes, StreamTypes, EndsOK, Vacant, Spared, Kept,
         Evicted
    <2>4. HoldsOK(c)'
      BY <1>1, <1>2 DEF CaptureOK, ThreadTypes, StreamTypes, HoldsOK, Spared, Kept, Evicted,
         StagesOK, Early, Free
    <2>5. FilesOK(c)'
      BY <1>1, <1>2 DEF CaptureOK, ThreadTypes, StreamTypes, FilesOK, Listed, Summed, Spared,
         Kept, Evicted, StagesOK, Early
    <2> QED BY <2>1, <2>2, <2>3, <2>4, <2>5 DEF CaptureOK
  <1> QED BY <1>3, <1>4, <1>5, <1>6, <1>7, <1>8, <1>9, Compose

\* A manifest is read.
LEMMA ReadManifestKeeps ==
    ASSUME StoreInv, NEW c \in Captures, ReadManifest(c)
    PROVE  StoreInv' /\ OwnedStep
  <1>1. /\ CaptureOK(c) /\ c \in Ids /\ c # NoId /\ AuxTypes /\ DataTypes /\ OwnerTypes
        /\ ThreadTypes /\ StreamTypes
    BY StoreAssumption DEF StoreInv, Captures, Ids
  <1>2. /\ phase[c] = "reconcile" /\ todo' \in [Captures -> SUBSET Ids]
        /\ \A d \in Captures \ {c} : todo'[d] = todo[d]
        /\ \/ UNCHANGED <<look, phase>>
           \/ /\ phase' = [phase EXCEPT ![c] = "judge"]
              /\ \E i \in Ids : manifest[i] = "running" /\ look' = [look EXCEPT ![c] = i]
        /\ UNCHANGED <<files, manifest, dropped, logical, active, leased, aux, stream, granted,
                       errors>>
    <2>1. /\ phase[c] = "reconcile"
          /\ UNCHANGED <<files, manifest, dropped, logical, active, leased, aux, stream, granted,
                         errors>>
      BY DEF ReadManifest, Advance, SetPhase, disk, group, accounts, owners, prepare, capture
    <2>2. PICK i \in todo[c] :
            /\ todo' = [todo EXCEPT ![c] = @ \ {i}]
            /\ IF manifest[i] = "running"
               THEN look' = [look EXCEPT ![c] = i] /\ phase' = [phase EXCEPT ![c] = "judge"]
               ELSE UNCHANGED <<look, phase>>
      BY DEF ReadManifest, Advance, SetPhase, disk, group, accounts, owners, prepare, capture
    <2>3. /\ i \in Ids /\ todo' \in [Captures -> SUBSET Ids]
          /\ \A d \in Captures \ {c} : todo'[d] = todo[d]
      BY <1>1, <2>2 DEF ThreadTypes
    <2> QED BY <1>1, <2>1, <2>2, <2>3
  <1>3. AuxTypes' /\ DataTypes' /\ OwnerTypes' /\ StreamTypes'
    BY <1>1, <1>2 DEF AuxTypes, DataTypes, OwnerTypes, StreamTypes
  <1>4. ThreadTypes'
    BY <1>1, <1>2 DEF ThreadTypes, Phases
  <1>5. ASSUME NEW d \in Captures \ {c} PROVE Untouched(d)
    BY <1>1, <1>2, <1>5 DEF Untouched, Spared, Kept, Ids, Captures, ThreadTypes, StreamTypes
  <1>6. phase[c] \notin Early => phase'[c] \notin Early /\ (~Owned(c) => ~Owned(c)')
    BY <1>1, <1>2 DEF Early, Owned, OwnerTypes, ThreadTypes
  <1>7. Still(c) /\ Owned(c) => Held(c) \subseteq Held(c)'
    BY <1>1, <1>2 DEF Still, Spared, Kept, Evicted, Held
  <1>8. CaptureOK(c)'
    <2>1. OwnersOK(c)' /\ StagesOK(c)' /\ GrantsOK(c)'
      BY <1>1, <1>2 DEF CaptureOK, ThreadTypes, StreamTypes, OwnersOK, Counts, Early, Done,
         StagesOK, GrantsOK
    <2>2. KindsOK(c)' /\ StatusOK(c)' /\ HoldsOK(c)'
      BY <1>1, <1>2 DEF CaptureOK, ThreadTypes, StreamTypes, KindsOK, Early, StatusOK, Spared,
         Kept, Evicted, HoldsOK
    <2>3. FilesOK(c)' /\ EndsOK(c)'
      BY <1>1, <1>2 DEF CaptureOK, ThreadTypes, StreamTypes, FilesOK, Listed, Summed, Spared,
         Kept, Evicted, EndsOK, Vacant
    <2>4. LookOK(c)'
      BY <1>1, <1>2 DEF CaptureOK, ThreadTypes, StreamTypes, LookOK, Early, StoreInv,
         StatusOK, Ids, Captures
    <2> QED BY <2>1, <2>2, <2>3, <2>4 DEF CaptureOK
  <1> QED BY <1>3, <1>4, <1>5, <1>6, <1>7, <1>8, Compose

\* What has expired is deleted.
LEMMA CleanupKeeps ==
    ASSUME StoreInv, NEW c \in Captures, Cleanup(c)
    PROVE  StoreInv' /\ OwnedStep
  <1>1. /\ CaptureOK(c) /\ c \in Ids /\ c # NoId /\ AuxTypes /\ DataTypes /\ OwnerTypes
        /\ ThreadTypes /\ StreamTypes
    BY StoreAssumption DEF StoreInv, Captures, Ids
  <1>2. /\ phase[c] = "reconcile" /\ phase' = [phase EXCEPT ![c] = "scanned"]
        /\ DataTypes' /\ \A i \in Ids : Spared(i)
        /\ UNCHANGED <<active, leased, aux, todo, look, stream, granted, errors>>
    <2>1. /\ phase[c] = "reconcile" /\ phase' = [phase EXCEPT ![c] = "scanned"]
          /\ UNCHANGED <<logical, active, leased, aux, todo, look, stream, granted, errors>>
      BY DEF Cleanup, Advance, SetPhase, disk, group, accounts, owners, prepare, capture
    <2>2. PICK expired \in SUBSET Deletable : Evict(expired)
      BY DEF Cleanup
    <2>3. /\ logical' \in [Ids -> Nat]
          /\ \A i \in Ids : IF i \in expired THEN logical'[i] \in {0,
               logical[i]} ELSE logical'[i] = logical[i]
      BY <1>1, <2>1 DEF DataTypes
    <2>4. DataTypes' /\ \A i \in Ids : Spared(i)
      BY <1>1, <2>2, <2>3, DeletableUnowned, EvictSpares
    <2> QED BY <1>1, <2>1, <2>2, <2>3, <2>4
  <1>3. AuxTypes' /\ DataTypes' /\ OwnerTypes' /\ StreamTypes'
    BY <1>1, <1>2 DEF AuxTypes, DataTypes, OwnerTypes, StreamTypes
  <1>4. ThreadTypes'
    BY <1>1, <1>2 DEF ThreadTypes, Phases
  <1>5. ASSUME NEW d \in Captures \ {c} PROVE Untouched(d)
    BY <1>1, <1>2, <1>5 DEF Untouched, Spared, Kept, Ids, Captures, ThreadTypes, StreamTypes
  <1>6. phase[c] \notin Early => phase'[c] \notin Early /\ (~Owned(c) => ~Owned(c)')
    BY <1>1, <1>2 DEF Early, Owned, OwnerTypes, ThreadTypes
  <1>7. Still(c) /\ Owned(c) => Held(c) \subseteq Held(c)'
    BY <1>1, <1>2 DEF Still, Spared, Kept, Evicted, Held
  <1>8. CaptureOK(c)'
    <2>1. OwnersOK(c)' /\ StagesOK(c)' /\ GrantsOK(c)'
      BY <1>1, <1>2 DEF CaptureOK, ThreadTypes, StreamTypes, OwnersOK, Counts, Early, Done,
         StagesOK, GrantsOK
    <2>2. KindsOK(c)' /\ StatusOK(c)' /\ LookOK(c)'
      BY <1>1, <1>2 DEF CaptureOK, ThreadTypes, StreamTypes, KindsOK, Early, StatusOK, Spared,
         Kept, Evicted, LookOK
    <2>3. HoldsOK(c)' /\ FilesOK(c)' /\ EndsOK(c)'
      BY <1>1, <1>2 DEF CaptureOK, ThreadTypes, StreamTypes, HoldsOK, Spared, Kept, Evicted,
         FilesOK, Listed, Summed, EndsOK, Vacant
    <2> QED BY <2>1, <2>2, <2>3 DEF CaptureOK
  <1> QED BY <1>3, <1>4, <1>5, <1>6, <1>7, <1>8, Compose

\* There is room for another stream.
LEMMA AdmitKeeps ==
    ASSUME StoreInv, NEW c \in Captures, Admit(c)
    PROVE  StoreInv' /\ OwnedStep
  <1>1. /\ CaptureOK(c) /\ c \in Ids /\ c # NoId /\ AuxTypes /\ DataTypes /\ OwnerTypes
        /\ ThreadTypes /\ StreamTypes
    BY StoreAssumption DEF StoreInv, Captures, Ids
  <1>2. /\ phase[c] = "scanned" /\ phase' = [phase EXCEPT ![c] = "enter"]
        /\ DataTypes' /\ \A i \in Ids : Spared(i)
        /\ UNCHANGED <<active, leased, aux, todo, look, stream, granted, errors>>
    <2>1. /\ phase[c] = "scanned" /\ phase' = [phase EXCEPT ![c] = "enter"]
          /\ UNCHANGED <<active, leased, aux, todo, look, stream, granted, errors>>
      BY DEF Admit, Advance, SetPhase, disk, group, accounts, owners, prepare, capture
    <2>2. PICK gone \in SUBSET Ids :
            /\ \A i \in gone : ~Owned(i)
            /\ Evict(gone)
            /\ logical' = [i \in Ids |-> IF i \in gone THEN 0 ELSE logical[i]]
      BY DEF Admit, Victims, Evictable
    <2>3. /\ logical' \in [Ids -> Nat]
          /\ \A i \in Ids : IF i \in gone THEN logical'[i] \in {0,
               logical[i]} ELSE logical'[i] = logical[i]
      BY <1>1, <2>2 DEF DataTypes
    <2>4. DataTypes' /\ \A i \in Ids : Spared(i)
      BY <1>1, <2>2, <2>3, EvictSpares
    <2> QED BY <1>1, <2>1, <2>2, <2>3, <2>4
  <1>3. AuxTypes' /\ DataTypes' /\ OwnerTypes' /\ StreamTypes'
    BY <1>1, <1>2 DEF AuxTypes, DataTypes, OwnerTypes, StreamTypes
  <1>4. ThreadTypes'
    BY <1>1, <1>2 DEF ThreadTypes, Phases
  <1>5. ASSUME NEW d \in Captures \ {c} PROVE Untouched(d)
    BY <1>1, <1>2, <1>5 DEF Untouched, Spared, Kept, Ids, Captures, ThreadTypes, StreamTypes
  <1>6. phase[c] \notin Early => phase'[c] \notin Early /\ (~Owned(c) => ~Owned(c)')
    BY <1>1, <1>2 DEF Early, Owned, OwnerTypes, ThreadTypes
  <1>7. Still(c) /\ Owned(c) => Held(c) \subseteq Held(c)'
    BY <1>1, <1>2 DEF Still, Spared, Kept, Evicted, Held
  <1>8. CaptureOK(c)'
    <2>1. OwnersOK(c)' /\ StagesOK(c)' /\ GrantsOK(c)'
      BY <1>1, <1>2 DEF CaptureOK, ThreadTypes, StreamTypes, OwnersOK, Counts, Early, Done,
         StagesOK, GrantsOK
    <2>2. KindsOK(c)' /\ StatusOK(c)' /\ LookOK(c)'
      BY <1>1, <1>2 DEF CaptureOK, ThreadTypes, StreamTypes, KindsOK, Early, StatusOK, Spared,
         Kept, Evicted, LookOK
    <2>3. HoldsOK(c)' /\ FilesOK(c)' /\ EndsOK(c)'
      BY <1>1, <1>2 DEF CaptureOK, ThreadTypes, StreamTypes, HoldsOK, Spared, Kept, Evicted,
         FilesOK, Listed, Summed, EndsOK, Vacant
    <2> QED BY <2>1, <2>2, <2>3 DEF CaptureOK
  <1> QED BY <1>3, <1>4, <1>5, <1>6, <1>7, <1>8, Compose

\* A stream opens.
LEMMA OpenStreamKeeps ==
    ASSUME StoreInv, NEW c \in Captures, NEW s \in StreamSet, OpenStream(c, s)
    PROVE  StoreInv' /\ OwnedStep
  <1>1. /\ CaptureOK(c) /\ c \in Ids /\ c # NoId /\ AuxTypes /\ DataTypes /\ OwnerTypes
        /\ ThreadTypes /\ StreamTypes
    BY StoreAssumption DEF StoreInv, Captures, Ids
  <1>2. /\ phase[c] = "enter" /\ stream[c][s] = "none"
        /\ stream' = [stream EXCEPT ![c][s] = "open"]
        /\ files' = [files EXCEPT ![c] = @ \union {s}] /\ active' = [active EXCEPT ![c] = @ + 1]
        /\ \/ /\ \E r \in StreamSet \ {s} : stream[c][r] = "none"
              /\ phase' = [phase EXCEPT ![c] = "reconcile"]
              /\ todo' = [todo EXCEPT ![c] = {i \in Ids : manifest[i] # "none"}]
           \/ /\ \A r \in StreamSet \ {s} : stream[c][r] # "none"
              /\ phase' = [phase EXCEPT ![c] = IF c \in Jobs THEN "register" ELSE "capture"]
              /\ UNCHANGED todo
        /\ UNCHANGED <<manifest, dropped, logical, leased, aux, look, granted, errors>>
    BY DEF OpenStream, IsNext, SetStream, Advance, SetPhase, disk, group, accounts, owners,
       prepare, capture
  <1>3. AuxTypes'
    BY <1>1, <1>2 DEF AuxTypes
  <1>4. DataTypes'
    BY <1>1, <1>2 DEF DataTypes, Names
  <1>5. OwnerTypes'
    BY <1>1, <1>2, StoreAssumption DEF OwnerTypes, Captures
  <1>6. ThreadTypes'
    BY <1>1, <1>2 DEF ThreadTypes, Phases
  <1>7. StreamTypes'
    BY <1>1, <1>2 DEF StreamTypes, Stages
  <1>8. ASSUME NEW d \in Captures \ {c} PROVE Untouched(d)
    BY <1>1, <1>2, <1>8 DEF Untouched, Spared, Kept, Ids, Captures, ThreadTypes, StreamTypes
  <1>9. phase[c] \notin Early => phase'[c] \notin Early /\ (~Owned(c) => ~Owned(c)')
    BY <1>1, <1>2 DEF Early, Owned, OwnerTypes, ThreadTypes
  <1>10. Still(c) /\ Owned(c) => Held(c) \subseteq Held(c)'
    BY <1>1, <1>2 DEF Still, Spared, Kept, Evicted, Held
  <1>11. CaptureOK(c)'
    <2>1. StagesOK(c)' /\ GrantsOK(c)' /\ LookOK(c)'
      BY <1>1, <1>2 DEF CaptureOK, ThreadTypes, StreamTypes, StagesOK, Early, GrantsOK, LookOK
    <2>2. HoldsOK(c)' /\ EndsOK(c)'
      BY <1>1, <1>2 DEF CaptureOK, ThreadTypes, StreamTypes, HoldsOK, Spared, Kept, Evicted,
         EndsOK, Vacant
    <2>3. OwnersOK(c)'
      <3>1. Counts(c)' = Counts(c) \union {s} /\ s \notin Counts(c)
        BY <1>1, <1>2 DEF Counts, Counted, StreamTypes
      <3>2. IsFiniteSet(Counts(c))
        BY StreamFacts, FS_Subset DEF Counts
      <3>3. Cardinality(Counts(c)') = Cardinality(Counts(c)) + 1
        BY <3>1, <3>2, FS_AddElement
      <3> QED BY <1>1, <1>2, <3>3 DEF CaptureOK, OwnersOK, OwnerTypes, ThreadTypes, Early, Done
    <2>4. KindsOK(c)'
      BY <1>1, <1>2 DEF CaptureOK, ThreadTypes, StreamTypes, KindsOK, Early, Captures
    <2>5. StatusOK(c)'
      BY <1>1, <1>2 DEF CaptureOK, ThreadTypes, StreamTypes, StatusOK, Early, Spared, Kept,
         Evicted, StagesOK
    <2>6. FilesOK(c)'
      BY <1>1, <1>2 DEF CaptureOK, ThreadTypes, StreamTypes, FilesOK, Listed, Summed, Spared,
         Kept, Evicted, StagesOK, Early, DataTypes
    <2> QED BY <2>1, <2>2, <2>3, <2>4, <2>5, <2>6 DEF CaptureOK
  <1> QED BY <1>3, <1>4, <1>5, <1>6, <1>7, <1>8, <1>9, <1>10, <1>11, Compose

\* prepare refuses, or a system call fails, and what is open goes with it.
LEMMA OpenFailsKeeps ==
    ASSUME StoreInv, NEW c \in Captures, OpenFails(c)
    PROVE  StoreInv' /\ OwnedStep
  <1>1. /\ CaptureOK(c) /\ c \in Ids /\ c # NoId /\ AuxTypes /\ DataTypes /\ OwnerTypes
        /\ ThreadTypes /\ StreamTypes
    BY StoreAssumption DEF StoreInv, Captures, Ids
  <1>2. /\ phase[c] \in {"judge", "mark", "scanned", "enter"}
        /\ DataTypes' /\ \A i \in Ids : Spared(i)
        /\ look' = [look EXCEPT ![c] = NoId]
        /\ \/ aux' = aux /\ phase[c] # "mark"
           \/ aux.by = c /\ aux' = Free
        /\ \/ /\ \A s \in StreamSet : stream[c][s] = "none"
              /\ phase' = [phase EXCEPT ![c] = "failed"] /\ leased' = leased \ {c}
              /\ UNCHANGED <<stream, errors>>
           \/ /\ \E s \in StreamSet : stream[c][s] # "none"
              /\ phase' = [phase EXCEPT ![c] = IF c \in Jobs THEN "unwind" ELSE "close"]
              /\ errors' = errors \union {c}
              /\ stream' = [stream EXCEPT ![c] = [s \in StreamSet |-> IF @[s] = "none" THEN
                     "failed" ELSE @[s]]]
              /\ UNCHANGED leased
        /\ UNCHANGED <<active, todo, granted>>
    <2>1. OpenRefused(c)
      BY DEF OpenFails
    <2>2. look' = [look EXCEPT ![c] = NoId] /\ UNCHANGED <<active, todo, granted>>
      BY DEF OpenFails, Advance, SetPhase, disk, group, accounts, owners, prepare, capture
    <2>3. \/ /\ \A s \in StreamSet : stream[c][s] = "none"
             /\ phase' = [phase EXCEPT ![c] = "failed"] /\ leased' = leased \ {c}
             /\ UNCHANGED <<stream, errors>>
          \/ /\ \E s \in StreamSet : stream[c][s] # "none"
             /\ phase' = [phase EXCEPT ![c] = IF c \in Jobs THEN "unwind" ELSE "close"]
             /\ errors' = errors \union {c}
             /\ stream' = [stream EXCEPT ![c] = [s \in StreamSet |-> IF @[s] = "none" THEN
                    "failed" ELSE @[s]]]
             /\ UNCHANGED leased
      BY DEF OpenFails, Advance, SetPhase, disk, group, accounts, owners, prepare, capture
    <2>4. /\ phase[c] \in {"judge", "mark", "scanned", "enter"}
          /\ (aux' = aux /\ phase[c] # "mark") \/ (aux.by = c /\ aux' = Free)
      BY <2>1 DEF OpenRefused, AuxDenied, AuxFails
    <2>5. \/ UNCHANGED <<group, logical>>
          \/ Deny(1, look[c])
          \/ \E gone \in SUBSET Ids : /\ \A i \in gone : ~Owned(i)
                                    /\ Evict(gone)
                                    /\ logical' = [i \in Ids |-> IF i \in gone THEN 0 ELSE
                                           logical[i]]
      BY <2>1 DEF OpenRefused, AuxDenied, Victims, Evictable
    <2>6. DataTypes' /\ \A i \in Ids : Spared(i)
      <3>1. CASE UNCHANGED <<group, logical>>
        BY <1>1, <3>1 DEF group, DataTypes, Spared, Kept
      <3>2. CASE Deny(1, look[c])
        BY <1>1, <3>2, DenySpares
      <3>3. ASSUME NEW gone \in SUBSET Ids, \A i \in gone : ~Owned(i), Evict(gone),
                   logical' = [i \in Ids |-> IF i \in gone THEN 0 ELSE logical[i]]
            PROVE  DataTypes' /\ \A i \in Ids : Spared(i)
        <4>1. /\ logical' \in [Ids -> Nat]
              /\ \A i \in Ids : IF i \in gone THEN logical'[i] \in {0, logical[i]}
                                ELSE logical'[i] = logical[i]
          BY <1>1, <3>3 DEF DataTypes
        <4> QED BY <1>1, <3>3, <4>1, EvictSpares
      <3> QED BY <2>5, <3>1, <3>2, <3>3
    <2> QED BY <1>1, <2>1, <2>2, <2>3, <2>4, <2>5, <2>6
  <1>3. DataTypes' /\ OwnerTypes'
    BY <1>1, <1>2 DEF DataTypes, OwnerTypes
  <1>4. AuxTypes'
    BY <1>1, <1>2, FreeFits DEF AuxTypes
  <1>5. ThreadTypes'
    BY <1>1, <1>2 DEF ThreadTypes, Phases
  <1>6. StreamTypes'
    BY <1>1, <1>2 DEF StreamTypes, Stages
  <1>7. ASSUME NEW d \in Captures \ {c} PROVE Untouched(d)
    BY <1>1, <1>2, <1>7, StoreAssumption DEF Untouched, Spared, Kept, Ids, Captures,
       ThreadTypes, StreamTypes, Free
  <1>8. phase[c] \notin Early => phase'[c] \notin Early /\ (~Owned(c) => ~Owned(c)')
    BY <1>1, <1>2 DEF Early, Owned, OwnerTypes, ThreadTypes
  <1>9. Still(c) /\ Owned(c) => Held(c) \subseteq Held(c)'
    BY <1>1, <1>2 DEF Still, Spared, Kept, Evicted, Held
  <1>10. CaptureOK(c)'
    <2>1. StagesOK(c)' /\ StatusOK(c)' /\ LookOK(c)'
      BY <1>1, <1>2 DEF CaptureOK, ThreadTypes, StreamTypes, StagesOK, Early, StatusOK,
         Spared, Kept, Evicted, LookOK
    <2>2. OwnersOK(c)'
      BY <1>1, <1>2, FS_EmptySet DEF CaptureOK, ThreadTypes, StreamTypes, OwnersOK, Counts,
         Early, Done, StagesOK, Counted
    <2>3. GrantsOK(c)'
      BY <1>1, <1>2 DEF CaptureOK, ThreadTypes, StreamTypes, GrantsOK, StagesOK, Early
    <2>4. KindsOK(c)'
      BY <1>1, <1>2 DEF CaptureOK, ThreadTypes, StreamTypes, KindsOK, Early, Captures
    <2>5. HoldsOK(c)'
      BY <1>1, <1>2 DEF CaptureOK, ThreadTypes, StreamTypes, HoldsOK, Spared, Kept, Evicted,
         StagesOK, Early, Free
    <2>6. FilesOK(c)'
      BY <1>1, <1>2 DEF CaptureOK, ThreadTypes, StreamTypes, FilesOK, Listed, Summed, Spared,
         Kept, Evicted, StagesOK, Early
    <2>7. EndsOK(c)'
      BY <1>1, <1>2, FS_EmptySet DEF CaptureOK, ThreadTypes, StreamTypes, EndsOK, Vacant,
         Spared, Kept, Evicted, StagesOK, Early, OwnersOK, Counts, Counted
    <2> QED BY <2>1, <2>2, <2>3, <2>4, <2>5, <2>6, <2>7 DEF CaptureOK
  <1> QED BY <1>3, <1>4, <1>5, <1>6, <1>7, <1>8, <1>9, <1>10, Compose
-----------------------------------------------------------------------------
(* While the streams are captured.                                          *)

\* A chunk is charged.
LEMMA ClaimKeeps ==
    ASSUME StoreInv, NEW c \in Captures, NEW s \in StreamSet, Claim(c, s)
    PROVE  StoreInv' /\ OwnedStep
  <1>1. /\ CaptureOK(c) /\ c \in Ids /\ c # NoId /\ AuxTypes /\ DataTypes /\ OwnerTypes
        /\ ThreadTypes /\ StreamTypes
    BY StoreAssumption DEF StoreInv, Captures, Ids
  <1>2. /\ phase[c] \in {"capture", "close"} /\ stream[c][s] \in {"open", "flush"}
        /\ DataTypes' /\ \A i \in Ids \ {c} : Spared(i)
        /\ files'[c] = files[c]
        /\ manifest'[c] = manifest[c]
        /\ (c \in dropped' <=> c \in dropped)
        /\ granted' = [granted EXCEPT ![c] = @ \union {s}]
        /\ UNCHANGED <<active, leased, aux, phase, todo, look, stream, errors>>
    <2>1. /\ phase[c] \in {"capture", "close"} /\ stream[c][s] \in {"open", "flush"}
          /\ granted' = [granted EXCEPT ![c] = @ \union {s}] /\ Charge(1, c, 1)
          /\ UNCHANGED <<active, leased, aux, phase, todo, look, stream, errors>>
      BY DEF Claim, Writing, Advance, SetPhase, disk, group, accounts, owners, prepare,
         capture
    <2>2. /\ DataTypes' /\ (\A i \in Ids \ {c} : Spared(i)) /\ files'[c] = files[c]
          /\ manifest'[c] = manifest[c] /\ (c \in dropped' <=> c \in dropped)
      BY <1>1, <2>1, ChargeSpares
    <2> QED BY <1>1, <2>1, <2>2
  <1>3. AuxTypes' /\ DataTypes' /\ OwnerTypes' /\ ThreadTypes' /\ StreamTypes'
    BY <1>1, <1>2 DEF AuxTypes, DataTypes, OwnerTypes, ThreadTypes, StreamTypes
  <1>4. ASSUME NEW d \in Captures \ {c} PROVE Untouched(d)
    BY <1>1, <1>2, <1>4 DEF Untouched, Spared, Kept, Ids, Captures, ThreadTypes, StreamTypes
  <1>5. phase[c] \notin Early => phase'[c] \notin Early /\ (~Owned(c) => ~Owned(c)')
    BY <1>1, <1>2 DEF Early, Owned, OwnerTypes, ThreadTypes
  <1>6. Still(c) /\ Owned(c) => Held(c) \subseteq Held(c)'
    BY <1>1, <1>2 DEF Still, Spared, Kept, Evicted, Held
  <1>7. CaptureOK(c)'
    <2>1. OwnersOK(c)' /\ StagesOK(c)' /\ GrantsOK(c)'
      BY <1>1, <1>2 DEF CaptureOK, ThreadTypes, StreamTypes, OwnersOK, Counts, Early, Done,
         StagesOK, GrantsOK
    <2>2. KindsOK(c)' /\ StatusOK(c)' /\ LookOK(c)'
      BY <1>1, <1>2 DEF CaptureOK, ThreadTypes, StreamTypes, KindsOK, Early, StatusOK, Spared,
         Kept, Evicted, LookOK
    <2>3. HoldsOK(c)' /\ FilesOK(c)' /\ EndsOK(c)'
      BY <1>1, <1>2 DEF CaptureOK, ThreadTypes, StreamTypes, HoldsOK, Spared, Kept, Evicted,
         FilesOK, Listed, Summed, EndsOK, Vacant
    <2> QED BY <2>1, <2>2, <2>3 DEF CaptureOK
  <1> QED BY <1>3, <1>4, <1>5, <1>6, <1>7, Compose

\* A write fails, and the reader stops.
LEMMA StopsKeeps ==
    ASSUME StoreInv, NEW c \in Captures, NEW s \in StreamSet,
           Stops(c, s), phase[c] \in {"capture", "close"},
           DataTypes', \A i \in Ids \ {c} : Spared(i),
           \/ files'[c] = files[c] /\ manifest'[c] = manifest[c] /\ (c \in dropped' <=> c \in dropped)
           \/ Evicted(c),
           UNCHANGED <<owners, aux>>, stream[c][s] = "open",
           \/ UNCHANGED granted /\ s \notin granted[c]
           \/ granted' = [granted EXCEPT ![c] = @ \ {s}]
    PROVE  StoreInv' /\ OwnedStep
  <1>1. /\ CaptureOK(c) /\ c \in Ids /\ c # NoId /\ AuxTypes /\ DataTypes /\ OwnerTypes
        /\ ThreadTypes /\ StreamTypes
    BY StoreAssumption DEF StoreInv, Captures, Ids
  <1>2. /\ stream' = [stream EXCEPT ![c][s] = "stuck"] /\ errors' = errors \union {c}
        /\ UNCHANGED <<active, leased, aux, phase, todo, look>>
    BY DEF Stops, SetStream, Advance, SetPhase, disk, group, accounts, owners, prepare,
       capture
  <1>3. AuxTypes' /\ DataTypes' /\ OwnerTypes' /\ ThreadTypes'
    BY <1>1, <1>2 DEF AuxTypes, DataTypes, OwnerTypes, ThreadTypes
  <1>4. StreamTypes'
    BY <1>1, <1>2 DEF StreamTypes, Stages
  <1>5. ASSUME NEW d \in Captures \ {c} PROVE Untouched(d)
    BY <1>1, <1>2, <1>5 DEF Untouched, Spared, Kept, Ids, Captures, ThreadTypes, StreamTypes
  <1>6. phase[c] \notin Early => phase'[c] \notin Early /\ (~Owned(c) => ~Owned(c)')
    BY <1>1, <1>2 DEF Early, Owned, OwnerTypes, ThreadTypes
  <1>7. Still(c) /\ Owned(c) => Held(c) \subseteq Held(c)'
    BY <1>1, <1>2 DEF Still, Spared, Kept, Evicted, Held
  <1>8. CaptureOK(c)'
    <2>1. OwnersOK(c)' /\ StagesOK(c)' /\ GrantsOK(c)'
      BY <1>1, <1>2 DEF CaptureOK, ThreadTypes, StreamTypes, OwnersOK, Counts, Early, Done,
         StagesOK, GrantsOK
    <2>2. KindsOK(c)' /\ StatusOK(c)' /\ LookOK(c)'
      BY <1>1, <1>2 DEF CaptureOK, ThreadTypes, StreamTypes, KindsOK, Early, StatusOK, Spared,
         Kept, Evicted, LookOK
    <2>3. HoldsOK(c)' /\ FilesOK(c)' /\ EndsOK(c)'
      BY <1>1, <1>2 DEF CaptureOK, ThreadTypes, StreamTypes, HoldsOK, Spared, Kept, Evicted,
         FilesOK, Listed, Summed, EndsOK, Vacant
    <2> QED BY <2>1, <2>2, <2>3 DEF CaptureOK
  <1> QED BY <1>3, <1>4, <1>5, <1>6, <1>7, <1>8, Compose

\* A close fails, and the whole artifact goes.
LEMMA CloseFailsKeeps ==
    ASSUME StoreInv, NEW c \in Captures, NEW s \in StreamSet,
           NEW gone \in SUBSET Ids, \A i \in gone : i # c /\ ~Owned(i), CloseFails(c, s, gone),
           phase[c] \in {"capture", "close"}, stream[c][s] \in {"flush", "sidecar", "digest", "writing"},
           \/ UNCHANGED aux /\ stream[c][s] \notin {"sidecar", "writing"}
           \/ aux' = Free /\ stream[c][s] \in {"sidecar", "writing"},
           \/ UNCHANGED granted /\ s \notin granted[c]
           \/ granted' = [granted EXCEPT ![c] = @ \ {s}]
    PROVE  StoreInv' /\ OwnedStep
  <1>1. /\ CaptureOK(c) /\ c \in Ids /\ c # NoId /\ AuxTypes /\ DataTypes /\ OwnerTypes
        /\ ThreadTypes /\ StreamTypes
    BY StoreAssumption DEF StoreInv, Captures, Ids
  <1>2. /\ stream' = [stream EXCEPT ![c][s] = "failed"] /\ errors' = errors \union {c}
        /\ DataTypes' /\ active' \in [Ids -> Nat] /\ Vacant(c)' /\ manifest'[c] = "none"
        /\ \A i \in Ids \ {c} : Spared(i) /\ active'[i] = active[i]
        /\ aux' # aux => /\ aux.by = c
                         /\ \A r \in StreamSet : stream[c][r] \in {"sidecar", "writing"} => r = s
        /\ UNCHANGED <<leased, phase, todo, look>>
    <2>1. /\ stream' = [stream EXCEPT ![c][s] = "failed"] /\ errors' = errors \union {c}
          /\ Abort(c, {}, gone) /\ UNCHANGED <<leased, phase, todo, look>>
      BY DEF CloseFails, SetStream, Advance, SetPhase, disk, group, accounts, owners, prepare,
         capture
    <2>2. /\ DataTypes' /\ active' \in [Ids -> Nat] /\ Vacant(c)' /\ manifest'[c] = "none"
          /\ \A i \in Ids \ {c} : Spared(i) /\ active'[i] = active[i]
      BY <1>1, <2>1, AbortSpares DEF OwnerTypes
    <2>3. aux' # aux => aux.by = c
      BY <1>1 DEF CaptureOK, HoldsOK
    <2>4. aux' # aux => \A r \in StreamSet : stream[c][r] \in {"sidecar", "writing"} => r = s
      BY OneWriter
    <2> QED BY <1>1, <2>1, <2>2, <2>3, <2>4
  <1>3. DataTypes' /\ ThreadTypes'
    BY <1>1, <1>2 DEF DataTypes, ThreadTypes
  <1>4. AuxTypes'
    BY <1>1, <1>2, FreeFits DEF AuxTypes
  <1>5. OwnerTypes'
    BY <1>1, <1>2, StoreAssumption DEF OwnerTypes, Captures, Ids
  <1>6. StreamTypes'
    BY <1>1, <1>2 DEF StreamTypes, Stages
  <1>7. ASSUME NEW d \in Captures \ {c} PROVE Untouched(d)
    BY <1>1, <1>2, <1>7, StoreAssumption DEF Untouched, Spared, Kept, Ids, Captures,
       ThreadTypes, StreamTypes, Free
  <1>8. phase[c] \notin Early => phase'[c] \notin Early /\ (~Owned(c) => ~Owned(c)')
    BY <1>1, <1>2 DEF Early, Owned, OwnerTypes, ThreadTypes, Vacant
  <1>9. Still(c) /\ Owned(c) => Held(c) \subseteq Held(c)'
    BY <1>1, <1>2 DEF Still, Spared, Kept, Evicted, Held, StreamTypes
  <1>10. CaptureOK(c)'
    <2>1. OwnersOK(c)' /\ StagesOK(c)' /\ GrantsOK(c)'
      BY <1>1, <1>2 DEF CaptureOK, ThreadTypes, StreamTypes, OwnersOK, Counts, Early, Done,
         StagesOK, GrantsOK
    <2>2. KindsOK(c)' /\ LookOK(c)' /\ FilesOK(c)'
      BY <1>1, <1>2 DEF CaptureOK, ThreadTypes, StreamTypes, KindsOK, Early, LookOK, FilesOK,
         Listed, Summed, Spared, Kept, Evicted
    <2>3. EndsOK(c)'
      BY <1>1, <1>2 DEF CaptureOK, ThreadTypes, StreamTypes, EndsOK, Vacant, Spared, Kept,
         Evicted
    <2>4. StatusOK(c)'
      BY <1>1, <1>2, StoreAssumption DEF CaptureOK, ThreadTypes, StreamTypes, StatusOK, Early,
         Spared, Kept, Evicted, Vacant
    <2>5. HoldsOK(c)'
      BY <1>1, <1>2 DEF CaptureOK, ThreadTypes, StreamTypes, HoldsOK, Spared, Kept, Evicted,
         Free
    <2> QED BY <2>1, <2>2, <2>3, <2>4, <2>5 DEF CaptureOK
  <1> QED BY <1>3, <1>4, <1>5, <1>6, <1>7, <1>8, <1>9, <1>10, Compose

\* A chunk does not fit.
LEMMA ClaimDeniedKeeps ==
    ASSUME StoreInv, NEW c \in Captures, NEW s \in StreamSet, ClaimDenied(c, s)
    PROVE  StoreInv' /\ OwnedStep
  <1>1. c \in Ids /\ DataTypes /\ OwnerTypes /\ StreamTypes
    BY DEF StoreInv, Captures, Ids
  <1>2. phase[c] \in {"capture", "close"} /\ s \notin granted[c] /\ UNCHANGED <<aux, granted>>
    BY DEF ClaimDenied, Writing
  <1>3. CASE stream[c][s] = "open"
    <2>1. Stops(c, s) /\ UNCHANGED owners /\ (UNCHANGED <<group, accounts>> \/ Deny(1, c))
      BY <1>3 DEF ClaimDenied
    <2>2. DataTypes' /\ \A i \in Ids : Spared(i)
      BY <1>1, <2>1, DenySpares DEF DataTypes, Spared, Kept, group, accounts
    <2> QED BY <1>1, <1>2, <1>3, <2>1, <2>2, StopsKeeps DEF Spared, Kept
  <1>4. CASE stream[c][s] = "flush"
    <2>1. PICK gone \in {{}, Gone(1, c)} : CloseFails(c, s, gone)
      BY <1>4 DEF ClaimDenied
    <2>2. gone \in SUBSET Ids /\ \A i \in gone : i # c /\ ~Owned(i)
      BY GoneFacts
    <2> QED BY <1>2, <1>4, <2>1, <2>2, CloseFailsKeeps
  <1> QED BY <1>3, <1>4 DEF ClaimDenied

\* A chunk is written.
LEMMA WriteKeeps ==
    ASSUME StoreInv, NEW c \in Captures, NEW s \in StreamSet, Write(c, s)
    PROVE  StoreInv' /\ OwnedStep
  <1>1. /\ CaptureOK(c) /\ c \in Ids /\ c # NoId /\ AuxTypes /\ DataTypes /\ OwnerTypes
        /\ ThreadTypes /\ StreamTypes
    BY StoreAssumption DEF StoreInv, Captures, Ids
  <1>2. /\ phase[c] \in {"capture", "close"} /\ granted' = [granted EXCEPT ![c] = @ \ {s}]
        /\ UNCHANGED <<files, manifest, dropped, logical, active, leased, aux, phase, todo, look,
                       stream, errors>>
    <2>1. /\ s \in granted[c] /\ granted' = [granted EXCEPT ![c] = @ \ {s}]
          /\ UNCHANGED <<files, manifest, dropped, logical, active, leased, aux, phase, todo,
                         look, stream, errors>>
      BY DEF Write, Advance, SetPhase, disk, group, accounts, owners, prepare, capture
    <2>2. phase[c] \in {"capture", "close"}
      BY <2>1, RunningStream
    <2> QED BY <1>1, <2>1, <2>2
  <1>3. AuxTypes' /\ DataTypes' /\ OwnerTypes' /\ ThreadTypes' /\ StreamTypes'
    BY <1>1, <1>2 DEF AuxTypes, DataTypes, OwnerTypes, ThreadTypes, StreamTypes
  <1>4. ASSUME NEW d \in Captures \ {c} PROVE Untouched(d)
    BY <1>1, <1>2, <1>4 DEF Untouched, Spared, Kept, Ids, Captures, ThreadTypes, StreamTypes
  <1>5. phase[c] \notin Early => phase'[c] \notin Early /\ (~Owned(c) => ~Owned(c)')
    BY <1>1, <1>2 DEF Early, Owned, OwnerTypes, ThreadTypes
  <1>6. Still(c) /\ Owned(c) => Held(c) \subseteq Held(c)'
    BY <1>1, <1>2 DEF Still, Spared, Kept, Evicted, Held
  <1>7. CaptureOK(c)'
    <2>1. OwnersOK(c)' /\ StagesOK(c)' /\ GrantsOK(c)'
      BY <1>1, <1>2 DEF CaptureOK, ThreadTypes, StreamTypes, OwnersOK, Counts, Early, Done,
         StagesOK, GrantsOK
    <2>2. KindsOK(c)' /\ StatusOK(c)' /\ LookOK(c)'
      BY <1>1, <1>2 DEF CaptureOK, ThreadTypes, StreamTypes, KindsOK, Early, StatusOK, Spared,
         Kept, Evicted, LookOK
    <2>3. HoldsOK(c)' /\ FilesOK(c)' /\ EndsOK(c)'
      BY <1>1, <1>2 DEF CaptureOK, ThreadTypes, StreamTypes, HoldsOK, Spared, Kept, Evicted,
         FilesOK, Listed, Summed, EndsOK, Vacant
    <2> QED BY <2>1, <2>2, <2>3 DEF CaptureOK
  <1> QED BY <1>3, <1>4, <1>5, <1>6, <1>7, Compose

\* A chunk is not written.
LEMMA WriteFailsKeeps ==
    ASSUME StoreInv, NEW c \in Captures, NEW s \in StreamSet, WriteFails(c, s)
    PROVE  StoreInv' /\ OwnedStep
  <1>1. c \in Ids /\ DataTypes /\ OwnerTypes /\ StreamTypes
    BY DEF StoreInv, Captures, Ids
  <1>2. s \in granted[c] /\ granted' = [granted EXCEPT ![c] = @ \ {s}] /\ UNCHANGED aux
    BY DEF WriteFails
  <1>3. phase[c] \in {"capture", "close"}
    BY <1>2, RunningStream
  <1>4. CASE stream[c][s] = "open" /\ Stops(c, s) /\ Refund(c) /\ UNCHANGED <<group, owners>>
    <2>1. logical' \in [Ids -> Nat] /\ \A i \in Ids \ {c} : logical'[i] = logical[i]
      BY <1>1, <1>4 DEF Refund, Monus, DataTypes
    <2>2. DataTypes' /\ \A i \in Ids \ {c} : Spared(i)
      BY <1>1, <1>4, <2>1 DEF DataTypes, Spared, Kept, group
    <2> QED BY <1>2, <1>3, <1>4, <2>2, StopsKeeps DEF group
  <1>5. CASE stream[c][s] = "flush" /\ CloseFails(c, s, {})
    <2>1. {} \in SUBSET Ids /\ \A i \in {} : i # c /\ ~Owned(i)
      OBVIOUS
    <2> QED BY <1>2, <1>3, <1>5, <2>1, CloseFailsKeeps
  <1> QED BY <1>4, <1>5 DEF WriteFails

\* What closes a stream fails.
LEMMA FlushFailsKeeps ==
    ASSUME StoreInv, NEW c \in Captures, NEW s \in StreamSet, FlushFails(c, s)
    PROVE  StoreInv' /\ OwnedStep
  <1>1. c \in Ids /\ DataTypes /\ OwnerTypes /\ StreamTypes
    BY DEF StoreInv, Captures, Ids
  <1>2. s \notin granted[c] /\ UNCHANGED granted
    BY DEF FlushFails
  <1>3. PICK gone \in {{}, Gone(1, c)} :
          /\ CloseFails(c, s, gone) /\ stream[c][s] \in {"flush", "sidecar", "digest", "writing"}
          /\ \/ UNCHANGED aux /\ stream[c][s] \notin {"sidecar", "writing"}
             \/ aux' = Free /\ stream[c][s] \in {"sidecar", "writing"}
    BY DEF FlushFails, AuxFails
  <1>4. gone \in SUBSET Ids /\ \A i \in gone : i # c /\ ~Owned(i)
    BY GoneFacts
  <1>5. phase[c] \in {"capture", "close"}
    BY <1>3, RunningStream
  <1> QED BY <1>2, <1>3, <1>4, <1>5, CloseFailsKeeps

\* A stream is closed.
LEMMA BeginCloseKeeps ==
    ASSUME StoreInv, NEW c \in Captures, NEW s \in StreamSet, BeginClose(c, s)
    PROVE  StoreInv' /\ OwnedStep
  <1>1. /\ CaptureOK(c) /\ c \in Ids /\ c # NoId /\ AuxTypes /\ DataTypes /\ OwnerTypes
        /\ ThreadTypes /\ StreamTypes
    BY StoreAssumption DEF StoreInv, Captures, Ids
  <1>2. /\ phase[c] \in {"capture", "close"} /\ stream[c][s] \in {"open", "stuck"}
        /\ stream' = [stream EXCEPT ![c][s] = "flush"]
        /\ s \notin granted[c]
        /\ UNCHANGED <<files, manifest, dropped, logical, active, leased, aux, phase, todo, look,
                       granted, errors>>
    BY DEF BeginClose, SetStream, Advance, SetPhase, disk, group, accounts, owners, prepare,
       capture
  <1>3. AuxTypes' /\ DataTypes' /\ OwnerTypes' /\ ThreadTypes'
    BY <1>1, <1>2 DEF AuxTypes, DataTypes, OwnerTypes, ThreadTypes
  <1>4. StreamTypes'
    BY <1>1, <1>2 DEF StreamTypes, Stages
  <1>5. ASSUME NEW d \in Captures \ {c} PROVE Untouched(d)
    BY <1>1, <1>2, <1>5 DEF Untouched, Spared, Kept, Ids, Captures, ThreadTypes, StreamTypes
  <1>6. phase[c] \notin Early => phase'[c] \notin Early /\ (~Owned(c) => ~Owned(c)')
    BY <1>1, <1>2 DEF Early, Owned, OwnerTypes, ThreadTypes
  <1>7. Still(c) /\ Owned(c) => Held(c) \subseteq Held(c)'
    BY <1>1, <1>2 DEF Still, Spared, Kept, Evicted, Held
  <1>8. CaptureOK(c)'
    <2>1. StagesOK(c)' /\ GrantsOK(c)' /\ KindsOK(c)'
      BY <1>1, <1>2 DEF CaptureOK, ThreadTypes, StreamTypes, StagesOK, Early, GrantsOK,
         KindsOK
    <2>2. StatusOK(c)' /\ LookOK(c)' /\ HoldsOK(c)'
      BY <1>1, <1>2 DEF CaptureOK, ThreadTypes, StreamTypes, StatusOK, Early, Spared, Kept,
         Evicted, LookOK, HoldsOK
    <2>3. EndsOK(c)'
      BY <1>1, <1>2 DEF CaptureOK, ThreadTypes, StreamTypes, EndsOK, Vacant, Spared, Kept,
         Evicted
    <2>4. OwnersOK(c)'
      <3>1. c \notin errors => Counts(c)' = Counts(c)
        BY <1>1, <1>2 DEF Counts, Counted, StreamTypes, CaptureOK, StagesOK
      <3> QED BY <1>1, <1>2, <3>1 DEF CaptureOK, OwnersOK, ThreadTypes
    <2>5. FilesOK(c)'
      BY <1>1, <1>2 DEF CaptureOK, ThreadTypes, StreamTypes, FilesOK, Listed, Summed, Spared,
         Kept, Evicted, StagesOK
    <2> QED BY <2>1, <2>2, <2>3, <2>4, <2>5 DEF CaptureOK
  <1> QED BY <1>3, <1>4, <1>5, <1>6, <1>7, <1>8, Compose

\* A sidecar is charged.
LEMMA FlushKeeps ==
    ASSUME StoreInv, NEW c \in Captures, NEW s \in StreamSet, Flush(c, s)
    PROVE  StoreInv' /\ OwnedStep
  <1>1. /\ CaptureOK(c) /\ c \in Ids /\ c # NoId /\ AuxTypes /\ DataTypes /\ OwnerTypes
        /\ ThreadTypes /\ StreamTypes
    BY StoreAssumption DEF StoreInv, Captures, Ids
  <1>2. /\ phase[c] \in {"capture", "close"} /\ stream[c][s] = "flush"
        /\ stream' = [stream EXCEPT ![c][s] = "sidecar"]
        /\ s \notin granted[c]
        /\ AuxTypes' /\ DataTypes' /\ \A i \in Ids : Spared(i)
        /\ aux.by = NoId /\ aux'.by = c /\ aux'.for = s /\ aux'.id = c /\ ~aux'.done
        /\ UNCHANGED <<active, leased, phase, todo, look, granted, errors>>
    <2>1. /\ stream[c][s] = "flush" /\ stream' = [stream EXCEPT ![c][s] = "sidecar"]
          /\ s \notin granted[c] /\ AuxCharge(c, s, c, Sidecar[s])
          /\ UNCHANGED <<active, leased, phase, todo, look, granted, errors>>
      BY DEF Flush, SetStream, Advance, SetPhase, disk, group, accounts, owners, prepare,
         capture
    <2>2. phase[c] \in {"capture", "close"}
      BY <2>1, RunningStream
    <2>3. /\ AuxTypes' /\ DataTypes' /\ (\A i \in Ids : Spared(i)) /\ aux.by = NoId /\ aux'.by = c
          /\ aux'.for = s /\ aux'.id = c /\ ~aux'.done
      BY <1>1, <2>1, AuxChargeSpares, SidecarFacts
    <2> QED BY <1>1, <2>1, <2>2, <2>3
  <1>3. AuxTypes' /\ DataTypes' /\ OwnerTypes' /\ ThreadTypes'
    BY <1>1, <1>2 DEF AuxTypes, DataTypes, OwnerTypes, ThreadTypes
  <1>4. StreamTypes'
    BY <1>1, <1>2 DEF StreamTypes, Stages
  <1>5. ASSUME NEW d \in Captures \ {c} PROVE Untouched(d)
    BY <1>1, <1>2, <1>5, StoreAssumption DEF Untouched, Spared, Kept, Ids, Captures,
       ThreadTypes, StreamTypes
  <1>6. phase[c] \notin Early => phase'[c] \notin Early /\ (~Owned(c) => ~Owned(c)')
    BY <1>1, <1>2 DEF Early, Owned, OwnerTypes, ThreadTypes
  <1>7. Still(c) /\ Owned(c) => Held(c) \subseteq Held(c)'
    BY <1>1, <1>2 DEF Still, Spared, Kept, Evicted, Held
  <1>8. CaptureOK(c)'
    <2>1. StagesOK(c)' /\ GrantsOK(c)' /\ KindsOK(c)'
      BY <1>1, <1>2 DEF CaptureOK, ThreadTypes, StreamTypes, StagesOK, Early, GrantsOK,
         KindsOK
    <2>2. StatusOK(c)' /\ LookOK(c)' /\ HoldsOK(c)'
      BY <1>1, <1>2 DEF CaptureOK, ThreadTypes, StreamTypes, StatusOK, Early, Spared, Kept,
         Evicted, LookOK, HoldsOK
    <2>3. EndsOK(c)'
      BY <1>1, <1>2 DEF CaptureOK, ThreadTypes, StreamTypes, EndsOK, Vacant, Spared, Kept,
         Evicted
    <2>4. OwnersOK(c)'
      <3>1. c \notin errors => Counts(c)' = Counts(c)
        BY <1>1, <1>2 DEF Counts, Counted, StreamTypes, CaptureOK, StagesOK
      <3> QED BY <1>1, <1>2, <3>1 DEF CaptureOK, OwnersOK, ThreadTypes
    <2>5. FilesOK(c)'
      BY <1>1, <1>2 DEF CaptureOK, ThreadTypes, StreamTypes, FilesOK, Listed, Summed, Spared,
         Kept, Evicted, HoldsOK
    <2> QED BY <2>1, <2>2, <2>3, <2>4, <2>5 DEF CaptureOK
  <1> QED BY <1>3, <1>4, <1>5, <1>6, <1>7, <1>8, Compose

\* The sidecar is there.
LEMMA UnlistKeeps ==
    ASSUME StoreInv, NEW c \in Captures, NEW s \in StreamSet, Unlist(c, s)
    PROVE  StoreInv' /\ OwnedStep
  <1>1. /\ CaptureOK(c) /\ c \in Ids /\ c # NoId /\ AuxTypes /\ DataTypes /\ OwnerTypes
        /\ ThreadTypes /\ StreamTypes
    BY StoreAssumption DEF StoreInv, Captures, Ids
  <1>2. /\ phase[c] \in {"capture", "close"} /\ stream[c][s] = "sidecar"
        /\ stream' = [stream EXCEPT ![c][s] = "unlist"]
        /\ aux.by = c /\ aux.done /\ aux' = Free
        /\ \A r \in StreamSet : stream[c][r] \in {"sidecar", "writing"} => r = s
        /\ UNCHANGED <<files, manifest, dropped, logical, active, leased, phase, todo, look,
                       granted, errors>>
    <2>1. /\ stream[c][s] = "sidecar" /\ stream' = [stream EXCEPT ![c][s] = "unlist"]
          /\ aux.by = c /\ aux.done /\ aux' = Free
          /\ UNCHANGED <<files, manifest, dropped, logical, active, leased, phase, todo, look,
                         granted, errors>>
      BY DEF Unlist, AuxSettle, SetStream, Advance, SetPhase, disk, group, accounts, owners,
         prepare, capture
    <2>2. phase[c] \in {"capture", "close"}
      BY <2>1, RunningStream
    <2>3. \A r \in StreamSet : stream[c][r] \in {"sidecar", "writing"} => r = s
      BY <2>1, OneWriter
    <2> QED BY <1>1, <2>1, <2>2, <2>3
  <1>3. DataTypes' /\ OwnerTypes' /\ ThreadTypes'
    BY <1>1, <1>2 DEF DataTypes, OwnerTypes, ThreadTypes
  <1>4. AuxTypes'
    BY <1>1, <1>2, FreeFits DEF AuxTypes
  <1>5. StreamTypes'
    BY <1>1, <1>2 DEF StreamTypes, Stages
  <1>6. ASSUME NEW d \in Captures \ {c} PROVE Untouched(d)
    BY <1>1, <1>2, <1>6, StoreAssumption DEF Untouched, Spared, Kept, Ids, Captures,
       ThreadTypes, StreamTypes, Free
  <1>7. phase[c] \notin Early => phase'[c] \notin Early /\ (~Owned(c) => ~Owned(c)')
    BY <1>1, <1>2 DEF Early, Owned, OwnerTypes, ThreadTypes
  <1>8. Still(c) /\ Owned(c) => Held(c) \subseteq Held(c)'
    BY <1>1, <1>2 DEF Still, Spared, Kept, Evicted, Held
  <1>9. CaptureOK(c)'
    <2>1. StagesOK(c)' /\ GrantsOK(c)' /\ KindsOK(c)'
      BY <1>1, <1>2 DEF CaptureOK, ThreadTypes, StreamTypes, StagesOK, Early, GrantsOK,
         KindsOK
    <2>2. StatusOK(c)' /\ LookOK(c)' /\ FilesOK(c)'
      BY <1>1, <1>2 DEF CaptureOK, ThreadTypes, StreamTypes, StatusOK, Early, Spared, Kept,
         Evicted, LookOK, FilesOK, Listed, Summed
    <2>3. EndsOK(c)'
      BY <1>1, <1>2 DEF CaptureOK, ThreadTypes, StreamTypes, EndsOK, Vacant, Spared, Kept,
         Evicted
    <2>4. OwnersOK(c)'
      <3>1. c \notin errors => Counts(c)' = Counts(c)
        BY <1>1, <1>2 DEF Counts, Counted, StreamTypes, CaptureOK, StagesOK
      <3> QED BY <1>1, <1>2, <3>1 DEF CaptureOK, OwnersOK, ThreadTypes
    <2>5. HoldsOK(c)'
      BY <1>1, <1>2 DEF CaptureOK, ThreadTypes, StreamTypes, HoldsOK, Spared, Kept, Evicted,
         Free
    <2> QED BY <2>1, <2>2, <2>3, <2>4, <2>5 DEF CaptureOK
  <1> QED BY <1>3, <1>4, <1>5, <1>6, <1>7, <1>8, <1>9, Compose

\* The stream is no longer active.
LEMMA FinishKeeps ==
    ASSUME StoreInv, NEW c \in Captures, NEW s \in StreamSet, Finish(c, s)
    PROVE  StoreInv' /\ OwnedStep
  <1>1. /\ CaptureOK(c) /\ c \in Ids /\ c # NoId /\ AuxTypes /\ DataTypes /\ OwnerTypes
        /\ ThreadTypes /\ StreamTypes
    BY StoreAssumption DEF StoreInv, Captures, Ids
  <1>2. /\ phase[c] \in {"capture", "close"} /\ stream[c][s] = "unlist"
        /\ active' = [active EXCEPT ![c] = Monus(@, 1)]
        /\ stream' = [stream EXCEPT ![c][s] = IF Sidecars \union StreamSet \subseteq files[c]
               THEN "digest" ELSE "closed"]
        /\ UNCHANGED <<files, manifest, dropped, logical, leased, aux, phase, todo, look,
                       granted, errors>>
    <2>1. /\ stream[c][s] = "unlist" /\ active' = [active EXCEPT ![c] = Monus(@, 1)]
          /\ stream' = [stream EXCEPT ![c][s] = IF Sidecars \union StreamSet \subseteq files[c]
               THEN "digest" ELSE "closed"]
          /\ UNCHANGED <<files, manifest, dropped, logical, leased, aux, phase, todo, look,
                         granted, errors>>
      BY DEF Finish, SetStream, Advance, SetPhase, disk, group, accounts, owners, prepare,
         capture
    <2>2. phase[c] \in {"capture", "close"}
      BY <2>1, RunningStream
    <2> QED BY <1>1, <2>1, <2>2
  <1>3. AuxTypes' /\ DataTypes' /\ ThreadTypes'
    BY <1>1, <1>2 DEF AuxTypes, DataTypes, ThreadTypes
  <1>4. OwnerTypes'
    BY <1>1, <1>2, StoreAssumption DEF OwnerTypes, Captures, Ids, Monus
  <1>5. StreamTypes'
    BY <1>1, <1>2 DEF StreamTypes, Stages
  <1>6. ASSUME NEW d \in Captures \ {c} PROVE Untouched(d)
    BY <1>1, <1>2, <1>6 DEF Untouched, Spared, Kept, Ids, Captures, ThreadTypes, StreamTypes
  <1>7. phase[c] \notin Early => phase'[c] \notin Early /\ (~Owned(c) => ~Owned(c)')
    BY <1>1, <1>2 DEF Early, Owned, OwnerTypes, ThreadTypes, Monus
  <1>8. Still(c) /\ Owned(c) => Held(c) \subseteq Held(c)'
    BY <1>1, <1>2 DEF Still, Spared, Kept, Evicted, Held
  <1>9. CaptureOK(c)'
    <2>1. StagesOK(c)' /\ GrantsOK(c)' /\ KindsOK(c)'
      BY <1>1, <1>2 DEF CaptureOK, ThreadTypes, StreamTypes, StagesOK, Early, GrantsOK,
         KindsOK
    <2>2. StatusOK(c)' /\ LookOK(c)' /\ HoldsOK(c)'
      BY <1>1, <1>2 DEF CaptureOK, ThreadTypes, StreamTypes, StatusOK, Early, Spared, Kept,
         Evicted, LookOK, HoldsOK
    <2>3. EndsOK(c)'
      BY <1>1, <1>2 DEF CaptureOK, ThreadTypes, StreamTypes, EndsOK, Vacant, Spared, Kept,
         Evicted
    <2>4. OwnersOK(c)'
      <3>1. Counts(c)' = Counts(c) \ {s} /\ s \in Counts(c)
        BY <1>1, <1>2 DEF Counts, Counted, StreamTypes
      <3>2. IsFiniteSet(Counts(c))
        BY StreamFacts, FS_Subset DEF Counts
      <3>3. /\ Cardinality(Counts(c)') = Cardinality(Counts(c)) - 1
            /\ Cardinality(Counts(c)') \in Nat
        BY <3>1, <3>2, FS_RemoveElement, FS_CardinalityType
      <3> QED BY <1>1, <1>2, <3>2, <3>3, FS_CardinalityType DEF CaptureOK, OwnersOK, OwnerTypes,
         ThreadTypes, Monus
    <2>5. FilesOK(c)'
      <3>1. CASE Sidecars \union StreamSet \subseteq files[c]
        BY <1>1, <1>2, <3>1 DEF CaptureOK, StreamTypes, FilesOK, Listed, Summed
      <3>2. CASE ~(Sidecars \union StreamSet \subseteq files[c])
        <4>1. c \notin errors /\ c \notin dropped => \E r \in StreamSet : stream[c][r] \notin Listed
          BY <1>1, <1>2, <3>2 DEF CaptureOK, StagesOK, FilesOK, Sidecars
        <4>2. c \notin errors /\ c \notin dropped => \E r \in StreamSet : stream'[c][r] \notin Summed
          BY <1>1, <1>2, <4>1 DEF StreamTypes, Listed, Summed
        <4> QED BY <1>1, <1>2, <3>2, <4>2 DEF CaptureOK, StreamTypes, FilesOK, Listed
      <3> QED BY <3>1, <3>2
    <2> QED BY <2>1, <2>2, <2>3, <2>4, <2>5 DEF CaptureOK
  <1> QED BY <1>3, <1>4, <1>5, <1>6, <1>7, <1>8, <1>9, Compose

\* The digest is charged.
LEMMA DigestKeeps ==
    ASSUME StoreInv, NEW c \in Captures, NEW s \in StreamSet, Digest(c, s)
    PROVE  StoreInv' /\ OwnedStep
  <1>1. /\ CaptureOK(c) /\ c \in Ids /\ c # NoId /\ AuxTypes /\ DataTypes /\ OwnerTypes
        /\ ThreadTypes /\ StreamTypes
    BY StoreAssumption DEF StoreInv, Captures, Ids
  <1>2. /\ phase[c] \in {"capture", "close"} /\ stream[c][s] = "digest"
        /\ stream' = [stream EXCEPT ![c][s] = "writing"]
        /\ AuxTypes' /\ DataTypes' /\ \A i \in Ids : Spared(i)
        /\ aux.by = NoId /\ aux'.by = c /\ aux'.for = Sidecar[s] /\ aux'.id = c /\ ~aux'.done
        /\ UNCHANGED <<active, leased, phase, todo, look, granted, errors>>
    <2>1. /\ stream[c][s] = "digest" /\ stream' = [stream EXCEPT ![c][s] = "writing"]
          /\ AuxCharge(c, Sidecar[s], c, "digest")
          /\ UNCHANGED <<active, leased, phase, todo, look, granted, errors>>
      BY DEF Digest, SetStream, Advance, SetPhase, disk, group, accounts, owners, prepare,
         capture
    <2>2. phase[c] \in {"capture", "close"}
      BY <2>1, RunningStream
    <2>3. /\ AuxTypes' /\ DataTypes' /\ (\A i \in Ids : Spared(i)) /\ aux.by = NoId /\ aux'.by = c
          /\ aux'.for = Sidecar[s] /\ aux'.id = c /\ ~aux'.done
      BY <1>1, <2>1, AuxChargeSpares, SidecarFacts
    <2> QED BY <1>1, <2>1, <2>2, <2>3
  <1>3. AuxTypes' /\ DataTypes' /\ OwnerTypes' /\ ThreadTypes'
    BY <1>1, <1>2 DEF AuxTypes, DataTypes, OwnerTypes, ThreadTypes
  <1>4. StreamTypes'
    BY <1>1, <1>2 DEF StreamTypes, Stages
  <1>5. ASSUME NEW d \in Captures \ {c} PROVE Untouched(d)
    BY <1>1, <1>2, <1>5, StoreAssumption DEF Untouched, Spared, Kept, Ids, Captures,
       ThreadTypes, StreamTypes
  <1>6. phase[c] \notin Early => phase'[c] \notin Early /\ (~Owned(c) => ~Owned(c)')
    BY <1>1, <1>2 DEF Early, Owned, OwnerTypes, ThreadTypes
  <1>7. Still(c) /\ Owned(c) => Held(c) \subseteq Held(c)'
    BY <1>1, <1>2 DEF Still, Spared, Kept, Evicted, Held
  <1>8. CaptureOK(c)'
    <2>1. StagesOK(c)' /\ GrantsOK(c)' /\ KindsOK(c)'
      BY <1>1, <1>2 DEF CaptureOK, ThreadTypes, StreamTypes, StagesOK, Early, GrantsOK,
         KindsOK
    <2>2. StatusOK(c)' /\ LookOK(c)' /\ HoldsOK(c)'
      BY <1>1, <1>2 DEF CaptureOK, ThreadTypes, StreamTypes, StatusOK, Early, Spared, Kept,
         Evicted, LookOK, HoldsOK
    <2>3. EndsOK(c)'
      BY <1>1, <1>2 DEF CaptureOK, ThreadTypes, StreamTypes, EndsOK, Vacant, Spared, Kept,
         Evicted
    <2>4. OwnersOK(c)'
      <3>1. c \notin errors => Counts(c)' = Counts(c)
        BY <1>1, <1>2 DEF Counts, Counted, StreamTypes, CaptureOK, StagesOK
      <3> QED BY <1>1, <1>2, <3>1 DEF CaptureOK, OwnersOK, ThreadTypes
    <2>5. FilesOK(c)'
      BY <1>1, <1>2 DEF CaptureOK, ThreadTypes, StreamTypes, FilesOK, Listed, Summed, Spared,
         Kept, Evicted, HoldsOK
    <2> QED BY <2>1, <2>2, <2>3, <2>4, <2>5 DEF CaptureOK
  <1> QED BY <1>3, <1>4, <1>5, <1>6, <1>7, <1>8, Compose

\* The digest is there.
LEMMA DigestedKeeps ==
    ASSUME StoreInv, NEW c \in Captures, NEW s \in StreamSet, Digested(c, s)
    PROVE  StoreInv' /\ OwnedStep
  <1>1. /\ CaptureOK(c) /\ c \in Ids /\ c # NoId /\ AuxTypes /\ DataTypes /\ OwnerTypes
        /\ ThreadTypes /\ StreamTypes
    BY StoreAssumption DEF StoreInv, Captures, Ids
  <1>2. /\ phase[c] \in {"capture", "close"} /\ stream[c][s] = "writing"
        /\ stream' = [stream EXCEPT ![c][s] = "closed"]
        /\ aux.by = c /\ aux.done /\ aux' = Free
        /\ \A r \in StreamSet : stream[c][r] \in {"sidecar", "writing"} => r = s
        /\ UNCHANGED <<files, manifest, dropped, logical, active, leased, phase, todo, look,
                       granted, errors>>
    <2>1. /\ stream[c][s] = "writing" /\ stream' = [stream EXCEPT ![c][s] = "closed"]
          /\ aux.by = c /\ aux.done /\ aux' = Free
          /\ UNCHANGED <<files, manifest, dropped, logical, active, leased, phase, todo, look,
                         granted, errors>>
      BY DEF Digested, SetStream, Advance, SetPhase, disk, group, accounts, owners, prepare,
         capture
    <2>2. phase[c] \in {"capture", "close"}
      BY <2>1, RunningStream
    <2>3. \A r \in StreamSet : stream[c][r] \in {"sidecar", "writing"} => r = s
      BY <2>1, OneWriter
    <2> QED BY <1>1, <2>1, <2>2, <2>3
  <1>3. DataTypes' /\ OwnerTypes' /\ ThreadTypes'
    BY <1>1, <1>2 DEF DataTypes, OwnerTypes, ThreadTypes
  <1>4. AuxTypes'
    BY <1>1, <1>2, FreeFits DEF AuxTypes
  <1>5. StreamTypes'
    BY <1>1, <1>2 DEF StreamTypes, Stages
  <1>6. ASSUME NEW d \in Captures \ {c} PROVE Untouched(d)
    BY <1>1, <1>2, <1>6, StoreAssumption DEF Untouched, Spared, Kept, Ids, Captures,
       ThreadTypes, StreamTypes, Free
  <1>7. phase[c] \notin Early => phase'[c] \notin Early /\ (~Owned(c) => ~Owned(c)')
    BY <1>1, <1>2 DEF Early, Owned, OwnerTypes, ThreadTypes
  <1>8. Still(c) /\ Owned(c) => Held(c) \subseteq Held(c)'
    BY <1>1, <1>2 DEF Still, Spared, Kept, Evicted, Held
  <1>9. CaptureOK(c)'
    <2>1. StagesOK(c)' /\ GrantsOK(c)' /\ KindsOK(c)'
      BY <1>1, <1>2 DEF CaptureOK, ThreadTypes, StreamTypes, StagesOK, Early, GrantsOK,
         KindsOK
    <2>2. StatusOK(c)' /\ LookOK(c)' /\ FilesOK(c)'
      BY <1>1, <1>2 DEF CaptureOK, ThreadTypes, StreamTypes, StatusOK, Early, Spared, Kept,
         Evicted, LookOK, FilesOK, Listed, Summed
    <2>3. EndsOK(c)'
      BY <1>1, <1>2 DEF CaptureOK, ThreadTypes, StreamTypes, EndsOK, Vacant, Spared, Kept,
         Evicted
    <2>4. OwnersOK(c)'
      <3>1. c \notin errors => Counts(c)' = Counts(c)
        BY <1>1, <1>2 DEF Counts, Counted, StreamTypes, CaptureOK, StagesOK
      <3> QED BY <1>1, <1>2, <3>1 DEF CaptureOK, OwnersOK, ThreadTypes
    <2>5. HoldsOK(c)'
      BY <1>1, <1>2 DEF CaptureOK, ThreadTypes, StreamTypes, HoldsOK, Spared, Kept, Evicted,
         Free
    <2> QED BY <2>1, <2>2, <2>3, <2>4, <2>5 DEF CaptureOK
  <1> QED BY <1>3, <1>4, <1>5, <1>6, <1>7, <1>8, <1>9, Compose
-----------------------------------------------------------------------------
(* A capture ends.                                                          *)

\* The process has ended; a command closes its streams.
LEMMA ProcessEndsKeeps ==
    ASSUME StoreInv, NEW c \in Captures, ProcessEnds(c)
    PROVE  StoreInv' /\ OwnedStep
  <1>1. /\ CaptureOK(c) /\ c \in Ids /\ c # NoId /\ AuxTypes /\ DataTypes /\ OwnerTypes
        /\ ThreadTypes /\ StreamTypes
    BY StoreAssumption DEF StoreInv, Captures, Ids
  <1>2. /\ c \in Commands /\ granted[c] = {} /\ phase[c] = "capture"
        /\ phase' = [phase EXCEPT ![c] = "close"]
        /\ UNCHANGED <<files, manifest, dropped, logical, active, leased, aux, todo, look,
                       stream, granted, errors>>
    BY DEF ProcessEnds, Advance, SetPhase, disk, group, accounts, owners, prepare, capture
  <1>3. AuxTypes' /\ DataTypes' /\ OwnerTypes' /\ StreamTypes'
    BY <1>1, <1>2 DEF AuxTypes, DataTypes, OwnerTypes, StreamTypes
  <1>4. ThreadTypes'
    BY <1>1, <1>2 DEF ThreadTypes, Phases
  <1>5. ASSUME NEW d \in Captures \ {c} PROVE Untouched(d)
    BY <1>1, <1>2, <1>5 DEF Untouched, Spared, Kept, Ids, Captures, ThreadTypes, StreamTypes
  <1>6. phase[c] \notin Early => phase'[c] \notin Early /\ (~Owned(c) => ~Owned(c)')
    BY <1>1, <1>2 DEF Early, Owned, OwnerTypes, ThreadTypes
  <1>7. Still(c) /\ Owned(c) => Held(c) \subseteq Held(c)'
    BY <1>1, <1>2 DEF Still, Spared, Kept, Evicted, Held
  <1>8. CaptureOK(c)'
    <2>1. OwnersOK(c)' /\ StagesOK(c)' /\ GrantsOK(c)'
      BY <1>1, <1>2 DEF CaptureOK, ThreadTypes, StreamTypes, OwnersOK, Counts, Early, Done,
         StagesOK, GrantsOK
    <2>2. KindsOK(c)' /\ StatusOK(c)' /\ LookOK(c)'
      BY <1>1, <1>2 DEF CaptureOK, ThreadTypes, StreamTypes, KindsOK, Early, StatusOK, Spared,
         Kept, Evicted, LookOK
    <2>3. HoldsOK(c)' /\ FilesOK(c)' /\ EndsOK(c)'
      BY <1>1, <1>2 DEF CaptureOK, ThreadTypes, StreamTypes, HoldsOK, Spared, Kept, Evicted,
         FilesOK, Listed, Summed, EndsOK, Vacant
    <2> QED BY <2>1, <2>2, <2>3 DEF CaptureOK
  <1> QED BY <1>3, <1>4, <1>5, <1>6, <1>7, <1>8, Compose

\* A manifest is charged.
LEMMA SaveManifestKeeps ==
    ASSUME StoreInv, NEW c \in Captures, SaveManifest(c)
    PROVE  StoreInv' /\ OwnedStep
  <1>1. /\ CaptureOK(c) /\ c \in Ids /\ c # NoId /\ AuxTypes /\ DataTypes /\ OwnerTypes
        /\ ThreadTypes /\ StreamTypes
    BY StoreAssumption DEF StoreInv, Captures, Ids
  <1>2. /\ \/ phase[c] = "register" /\ phase' = [phase EXCEPT ![c] = "registering"] /\ aux'.for = "running"
           \/ /\ c \in Commands /\ phase[c] = "close" /\ Over(c) /\ c \notin errors
              /\ phase' = [phase EXCEPT ![c] = "saving"] /\ aux'.for = "completed"
           \/ /\ phase[c] = "publish" /\ phase' = [phase EXCEPT ![c] = "publishing"]
              /\ aux'.for = IF c \in errors THEN "failed" ELSE "completed"
        /\ AuxTypes' /\ DataTypes' /\ \A i \in Ids : Spared(i)
        /\ aux.by = NoId /\ aux'.by = c /\ aux'.id = c /\ ~aux'.done
        /\ UNCHANGED <<active, leased, todo, look, stream, granted, errors>>
    <2>1. UNCHANGED <<active, leased, todo, look, stream, granted, errors>>
      BY DEF SaveManifest, Advance, SetPhase, disk, group, accounts, owners, prepare, capture
    <2>2. PICK for \in {"running", "completed", "failed"} :
          /\ AuxCharge(c, for, c, "manifest")
          /\ \/ phase[c] = "register" /\ phase' = [phase EXCEPT ![c] = "registering"] /\ for = "running"
             \/ /\ c \in Commands /\ phase[c] = "close" /\ Over(c) /\ c \notin errors
                /\ phase' = [phase EXCEPT ![c] = "saving"] /\ for = "completed"
             \/ /\ phase[c] = "publish" /\ phase' = [phase EXCEPT ![c] = "publishing"]
                /\ for = IF c \in errors THEN "failed" ELSE "completed"
      BY DEF SaveManifest, SetPhase
    <2>3. for \in Purposes
      BY <2>2 DEF Purposes, Statuses
    <2>4. /\ AuxTypes' /\ DataTypes' /\ (\A i \in Ids : Spared(i)) /\ aux.by = NoId /\ aux'.by = c
          /\ aux'.for = for /\ aux'.id = c /\ ~aux'.done
      BY <1>1, <2>2, <2>3, AuxChargeSpares
    <2> QED BY <1>1, <2>1, <2>2, <2>3, <2>4
  <1>3. AuxTypes' /\ DataTypes' /\ OwnerTypes' /\ StreamTypes'
    BY <1>1, <1>2 DEF AuxTypes, DataTypes, OwnerTypes, StreamTypes
  <1>4. ThreadTypes'
    BY <1>1, <1>2 DEF ThreadTypes, Phases
  <1>5. ASSUME NEW d \in Captures \ {c} PROVE Untouched(d)
    BY <1>1, <1>2, <1>5, StoreAssumption DEF Untouched, Spared, Kept, Ids, Captures,
       ThreadTypes, StreamTypes
  <1>6. phase[c] \notin Early => phase'[c] \notin Early /\ (~Owned(c) => ~Owned(c)')
    BY <1>1, <1>2 DEF Early, Owned, OwnerTypes, ThreadTypes
  <1>7. Still(c) /\ Owned(c) => Held(c) \subseteq Held(c)'
    BY <1>1, <1>2 DEF Still, Spared, Kept, Evicted, Held
  <1>8. CaptureOK(c)'
    <2>1. KindsOK(c)' /\ StatusOK(c)' /\ LookOK(c)'
      BY <1>1, <1>2 DEF CaptureOK, ThreadTypes, StreamTypes, KindsOK, Early, StatusOK, Spared,
         Kept, Evicted, LookOK
    <2>2. OwnersOK(c)'
      BY <1>1, <1>2, StoreAssumption DEF CaptureOK, ThreadTypes, StreamTypes, OwnersOK,
         Counts, Early, Done, KindsOK
    <2>3. StagesOK(c)'
      BY <1>1, <1>2 DEF CaptureOK, ThreadTypes, StreamTypes, StagesOK, Early, Over
    <2>4. GrantsOK(c)'
      BY <1>1, <1>2 DEF CaptureOK, ThreadTypes, StreamTypes, GrantsOK, Over
    <2>5. HoldsOK(c)'
      BY <1>1, <1>2 DEF CaptureOK, ThreadTypes, StreamTypes, HoldsOK, Spared, Kept, Evicted,
         StatusOK, Early
    <2>6. FilesOK(c)'
      BY <1>1, <1>2 DEF CaptureOK, ThreadTypes, StreamTypes, FilesOK, Listed, Summed, Spared,
         Kept, Evicted, HoldsOK
    <2>7. EndsOK(c)'
      BY <1>1, <1>2 DEF CaptureOK, ThreadTypes, StreamTypes, EndsOK, Vacant, Spared, Kept,
         Evicted, Over, StagesOK
    <2> QED BY <2>1, <2>2, <2>3, <2>4, <2>5, <2>6, <2>7 DEF CaptureOK
  <1> QED BY <1>3, <1>4, <1>5, <1>6, <1>7, <1>8, Compose

\* A manifest is there.
LEMMA SavedKeeps ==
    ASSUME StoreInv, NEW c \in Captures, Saved(c)
    PROVE  StoreInv' /\ OwnedStep
  <1>1. /\ CaptureOK(c) /\ c \in Ids /\ c # NoId /\ AuxTypes /\ DataTypes /\ OwnerTypes
        /\ ThreadTypes /\ StreamTypes
    BY StoreAssumption DEF StoreInv, Captures, Ids
  <1>2. /\ aux.by = c /\ aux.done /\ aux' = Free
        /\ \/ phase[c] = "registering" /\ phase' = [phase EXCEPT ![c] = "capture"]
           \/ phase[c] = "saving" /\ phase' = [phase EXCEPT ![c] = "succeeded"]
           \/ phase[c] = "publishing" /\ phase' = [phase EXCEPT ![c] = "release"]
        /\ UNCHANGED <<files, manifest, dropped, logical, active, leased, todo, look, stream,
                       granted, errors>>
    BY DEF Saved, AuxSettle, Advance, SetPhase, disk, group, accounts, owners, prepare,
       capture
  <1>3. DataTypes' /\ OwnerTypes' /\ StreamTypes'
    BY <1>1, <1>2 DEF DataTypes, OwnerTypes, StreamTypes
  <1>4. AuxTypes'
    BY <1>1, <1>2, FreeFits DEF AuxTypes
  <1>5. ThreadTypes'
    BY <1>1, <1>2 DEF ThreadTypes, Phases
  <1>6. ASSUME NEW d \in Captures \ {c} PROVE Untouched(d)
    BY <1>1, <1>2, <1>6, StoreAssumption DEF Untouched, Spared, Kept, Ids, Captures,
       ThreadTypes, StreamTypes, Free
  <1>7. phase[c] \notin Early => phase'[c] \notin Early /\ (~Owned(c) => ~Owned(c)')
    BY <1>1, <1>2 DEF Early, Owned, OwnerTypes, ThreadTypes
  <1>8. Still(c) /\ Owned(c) => Held(c) \subseteq Held(c)'
    BY <1>1, <1>2 DEF Still, Spared, Kept, Evicted, Held
  <1>9. CaptureOK(c)'
    <2>1. StagesOK(c)' /\ GrantsOK(c)' /\ LookOK(c)'
      BY <1>1, <1>2 DEF CaptureOK, ThreadTypes, StreamTypes, StagesOK, Early, GrantsOK, LookOK
    <2>2. EndsOK(c)'
      BY <1>1, <1>2 DEF CaptureOK, ThreadTypes, StreamTypes, EndsOK, Vacant, Spared, Kept,
         Evicted
    <2>3. OwnersOK(c)'
      BY <1>1, <1>2, StoreAssumption DEF CaptureOK, ThreadTypes, StreamTypes, OwnersOK,
         Counts, Early, Done, KindsOK, Captures
    <2>4. KindsOK(c)'
      BY <1>1, <1>2, StoreAssumption DEF CaptureOK, ThreadTypes, StreamTypes, KindsOK, Early,
         Captures
    <2>5. StatusOK(c)'
      BY <1>1, <1>2, StoreAssumption DEF CaptureOK, ThreadTypes, StreamTypes, StatusOK, Early,
         Spared, Kept, Evicted, HoldsOK, KindsOK
    <2>6. HoldsOK(c)'
      BY ZenonT(60), <1>1, <1>2 DEF CaptureOK, ThreadTypes, StreamTypes, HoldsOK, Spared, Kept, Evicted,
         Free, StagesOK, EndsOK
    <2>7. FilesOK(c)'
      BY <1>1, <1>2 DEF CaptureOK, ThreadTypes, StreamTypes, FilesOK, Listed, Summed, Spared,
         Kept, Evicted, HoldsOK, StagesOK, EndsOK
    <2> QED BY <2>1, <2>2, <2>3, <2>4, <2>5, <2>6, <2>7 DEF CaptureOK
  <1> QED BY <1>3, <1>4, <1>5, <1>6, <1>7, <1>8, <1>9, Compose

\* A manifest is not written.
LEMMA SaveFailsKeeps ==
    ASSUME StoreInv, NEW c \in Captures, SaveFails(c)
    PROVE  StoreInv' /\ OwnedStep
  <1>1. /\ CaptureOK(c) /\ c \in Ids /\ c # NoId /\ AuxTypes /\ DataTypes /\ OwnerTypes
        /\ ThreadTypes /\ StreamTypes
    BY StoreAssumption DEF StoreInv, Captures, Ids
  <1>2. /\ \/ /\ phase[c] \in {"registering", "saving", "publishing"}
              /\ aux.by = c /\ ~aux.done /\ aux' = Free
           \/ phase[c] \in {"register", "publish"} /\ UNCHANGED aux
           \/ c \in Commands /\ phase[c] = "close" /\ Over(c) /\ c \notin errors /\ UNCHANGED aux
        /\ phase' = [phase EXCEPT ![c] = IF phase[c] \in {"publish",
               "publishing"} THEN "unpublished" ELSE "unwind"]
        /\ DataTypes' /\ \A i \in Ids : Spared(i)
        /\ UNCHANGED <<active, leased, todo, look, stream, granted, errors>>
    <2>1. /\ phase' = [phase EXCEPT ![c] = IF phase[c] \in {"publish",
               "publishing"} THEN "unpublished" ELSE "unwind"]
          /\ UNCHANGED <<active, leased, todo, look, stream, granted, errors>>
      BY DEF SaveFails, Advance, SetPhase, disk, group, accounts, owners, prepare, capture
    <2>2. \/ /\ phase[c] \in {"registering", "saving", "publishing"}
             /\ aux.by = c /\ ~aux.done /\ aux' = Free
          \/ phase[c] \in {"register", "publish"} /\ UNCHANGED aux
          \/ c \in Commands /\ phase[c] = "close" /\ Over(c) /\ c \notin errors /\ UNCHANGED aux
      BY DEF SaveFails, AuxFails, AuxDenied
    <2>3. UNCHANGED <<group, logical>> \/ Deny(1, c)
      BY DEF SaveFails, AuxDenied
    <2>4. DataTypes' /\ \A i \in Ids : Spared(i)
      BY <1>1, <2>3, DenySpares DEF group, DataTypes, Spared, Kept
    <2> QED BY <1>1, <2>1, <2>2, <2>3, <2>4
  <1>3. DataTypes' /\ OwnerTypes' /\ StreamTypes'
    BY <1>1, <1>2 DEF DataTypes, OwnerTypes, StreamTypes
  <1>4. AuxTypes'
    BY <1>1, <1>2, FreeFits DEF AuxTypes
  <1>5. ThreadTypes'
    BY <1>1, <1>2 DEF ThreadTypes, Phases
  <1>6. ASSUME NEW d \in Captures \ {c} PROVE Untouched(d)
    BY <1>1, <1>2, <1>6, StoreAssumption DEF Untouched, Spared, Kept, Ids, Captures,
       ThreadTypes, StreamTypes, Free
  <1>7. phase[c] \notin Early => phase'[c] \notin Early /\ (~Owned(c) => ~Owned(c)')
    BY <1>1, <1>2 DEF Early, Owned, OwnerTypes, ThreadTypes
  <1>8. Still(c) /\ Owned(c) => Held(c) \subseteq Held(c)'
    BY <1>1, <1>2 DEF Still, Spared, Kept, Evicted, Held
  <1>9. CaptureOK(c)'
    <2>1. LookOK(c)' /\ EndsOK(c)'
      BY <1>1, <1>2 DEF CaptureOK, ThreadTypes, StreamTypes, LookOK, Early, EndsOK, Vacant,
         Spared, Kept, Evicted
    <2>2. OwnersOK(c)'
      BY <1>1, <1>2, StoreAssumption DEF CaptureOK, ThreadTypes, StreamTypes, OwnersOK,
         Counts, Early, Done, KindsOK, Captures
    <2>3. StagesOK(c)'
      BY <1>1, <1>2 DEF CaptureOK, ThreadTypes, StreamTypes, StagesOK, Early, Over, EndsOK
    <2>4. GrantsOK(c)'
      BY <1>1, <1>2 DEF CaptureOK, ThreadTypes, StreamTypes, GrantsOK, StagesOK, Over, EndsOK,
         Early
    <2>5. KindsOK(c)'
      BY <1>1, <1>2, StoreAssumption DEF CaptureOK, ThreadTypes, StreamTypes, KindsOK, Early,
         Captures
    <2>6. StatusOK(c)'
      BY <1>1, <1>2, StoreAssumption DEF CaptureOK, ThreadTypes, StreamTypes, StatusOK, Early,
         Spared, Kept, Evicted, HoldsOK, KindsOK, Captures
    <2>7. HoldsOK(c)'
      <3>1. \A s \in StreamSet : stream[c][s] \notin {"sidecar", "writing"}
        BY <1>1, <1>2 DEF CaptureOK, StagesOK, EndsOK, Over, Early
      <3>2. aux'.by # c
        BY <1>1, <1>2, <3>1 DEF CaptureOK, HoldsOK, Free
      <3>3. phase'[c] \in {"unwind", "unpublished"} /\ stream'[c] = stream[c]
        BY <1>1, <1>2 DEF ThreadTypes
      <3> QED BY <3>1, <3>2, <3>3 DEF HoldsOK
    <2>8. FilesOK(c)'
      BY <1>1, <1>2 DEF CaptureOK, ThreadTypes, StreamTypes, FilesOK, Listed, Summed, Spared,
         Kept, Evicted, HoldsOK, StagesOK, EndsOK, Over
    <2> QED BY <2>1, <2>2, <2>3, <2>4, <2>5, <2>6, <2>7, <2>8 DEF CaptureOK
  <1> QED BY <1>3, <1>4, <1>5, <1>6, <1>7, <1>8, <1>9, Compose

\* Everything of the artifact goes.
LEMMA UnwindKeeps ==
    ASSUME StoreInv, NEW c \in Captures, Unwind(c)
    PROVE  StoreInv' /\ OwnedStep
  <1>1. /\ CaptureOK(c) /\ c \in Ids /\ c # NoId /\ AuxTypes /\ DataTypes /\ OwnerTypes
        /\ ThreadTypes /\ StreamTypes
    BY StoreAssumption DEF StoreInv, Captures, Ids
  <1>2. /\ \/ phase[c] = "unwind"
           \/ phase[c] = "close" /\ Over(c)
        /\ phase' = [phase EXCEPT ![c] = "failed"]
        /\ leased' = leased \ {c}
        /\ errors' = errors \union {c}
        /\ stream' = [stream EXCEPT ![c] = [s \in StreamSet |-> "failed"]]
        /\ granted' = [granted EXCEPT ![c] = {}]
        /\ DataTypes' /\ active' \in [Ids -> Nat] /\ Vacant(c)' /\ manifest'[c] = "none"
        /\ \A i \in Ids \ {c} : Spared(i) /\ active'[i] = active[i]
        /\ UNCHANGED <<aux, todo, look>>
    <2>1. /\ phase' = [phase EXCEPT ![c] = "failed"] /\ leased' = leased \ {c}
          /\ errors' = errors \union {c} /\ UNCHANGED <<aux, todo, look>>
      BY DEF Unwind, Advance, SetPhase, disk, group, accounts, owners, prepare, capture
    <2>2. /\ stream' = [stream EXCEPT ![c] = [s \in StreamSet |-> "failed"]]
          /\ granted' = [granted EXCEPT ![c] = {}] /\ Abort(c, {}, {})
      BY DEF Unwind
    <2>3. phase[c] = "unwind" \/ (phase[c] = "close" /\ Over(c))
      BY DEF Unwind
    <2>4. {} \in SUBSET Ids /\ \A i \in {} : i # c /\ ~Owned(i)
      OBVIOUS
    <2>5. /\ DataTypes' /\ active' \in [Ids -> Nat] /\ Vacant(c)' /\ manifest'[c] = "none"
          /\ \A i \in Ids \ {c} : Spared(i) /\ active'[i] = active[i]
      BY <1>1, <2>2, <2>4, AbortSpares DEF OwnerTypes
    <2> QED BY <1>1, <2>1, <2>2, <2>3, <2>4, <2>5
  <1>3. AuxTypes' /\ DataTypes'
    BY <1>1, <1>2 DEF AuxTypes, DataTypes
  <1>4. OwnerTypes'
    BY <1>1, <1>2, StoreAssumption DEF OwnerTypes, Captures, Ids
  <1>5. ThreadTypes'
    BY <1>1, <1>2 DEF ThreadTypes, Phases
  <1>6. StreamTypes'
    BY <1>1, <1>2 DEF StreamTypes, Stages
  <1>7. ASSUME NEW d \in Captures \ {c} PROVE Untouched(d)
    BY <1>1, <1>2, <1>7 DEF Untouched, Spared, Kept, Ids, Captures, ThreadTypes, StreamTypes
  <1>8. phase[c] \notin Early => phase'[c] \notin Early /\ (~Owned(c) => ~Owned(c)')
    BY <1>1, <1>2 DEF Early, Owned, OwnerTypes, ThreadTypes, Vacant
  <1>9. Still(c) /\ Owned(c) => Held(c) \subseteq Held(c)'
    BY <1>1, <1>2 DEF Still, Spared, Kept, Evicted, Held, ThreadTypes
  <1>10. CaptureOK(c)'
    <2>1. OwnersOK(c)' /\ StagesOK(c)' /\ GrantsOK(c)'
      BY <1>1, <1>2 DEF CaptureOK, ThreadTypes, StreamTypes, OwnersOK, Counts, Early, Done,
         StagesOK, GrantsOK
    <2>2. KindsOK(c)' /\ LookOK(c)' /\ FilesOK(c)'
      BY <1>1, <1>2 DEF CaptureOK, ThreadTypes, StreamTypes, KindsOK, Early, LookOK, FilesOK,
         Listed, Summed, Spared, Kept, Evicted
    <2>3. EndsOK(c)'
      BY <1>1, <1>2 DEF CaptureOK, ThreadTypes, StreamTypes, EndsOK, Vacant, Spared, Kept,
         Evicted
    <2>4. StatusOK(c)'
      BY <1>1, <1>2, StoreAssumption DEF CaptureOK, ThreadTypes, StreamTypes, StatusOK, Early,
         Spared, Kept, Evicted, Vacant
    <2>5. HoldsOK(c)'
      BY <1>1, <1>2 DEF CaptureOK, ThreadTypes, StreamTypes, HoldsOK, Spared, Kept, Evicted,
         StagesOK, Over
    <2> QED BY <2>1, <2>2, <2>3, <2>4, <2>5 DEF CaptureOK
  <1> QED BY <1>3, <1>4, <1>5, <1>6, <1>7, <1>8, <1>9, <1>10, Compose

\* The finisher of a job decides.
LEMMA DecideKeeps ==
    ASSUME StoreInv, NEW c \in Captures, Decide(c)
    PROVE  StoreInv' /\ OwnedStep
  <1>1. /\ CaptureOK(c) /\ c \in Ids /\ c # NoId /\ AuxTypes /\ DataTypes /\ OwnerTypes
        /\ ThreadTypes /\ StreamTypes
    BY StoreAssumption DEF StoreInv, Captures, Ids
  <1>2. /\ c \in Jobs /\ phase[c] = "capture"
        /\ \A s \in StreamSet : stream[c][s] \in {"closed", "failed", "stuck"}
        /\ DataTypes'
        /\ active' \in [Ids -> Nat]
        /\ \A i \in Ids \ {c} : Spared(i) /\ active'[i] = active[i]
        /\ \/ /\ manifest[c] = "none" /\ phase' = [phase EXCEPT ![c] = "unpublished"]
              /\ UNCHANGED <<files, manifest, dropped, logical, active, stream>>
           \/ /\ c \notin errors /\ phase' = [phase EXCEPT ![c] = "publish"]
              /\ UNCHANGED <<files, manifest, dropped, logical, active, stream>>
           \/ /\ c \in errors /\ phase' = [phase EXCEPT ![c] = "publish"]
              /\ Vacant(c)' /\ manifest'[c] = manifest[c]
              /\ stream' = [stream EXCEPT ![c] = [s \in StreamSet |-> "failed"]]
        /\ UNCHANGED <<leased, aux, todo, look, granted, errors>>
    <2>1. /\ c \in Jobs /\ phase[c] = "capture"
          /\ (\A s \in StreamSet : stream[c][s] \in {"closed", "failed", "stuck"})
          /\ UNCHANGED <<leased, aux, todo, look, granted, errors>>
      BY DEF Decide, Advance, SetPhase, disk, group, accounts, owners, prepare, capture
    <2>2. \/ /\ manifest[c] = "none" /\ phase' = [phase EXCEPT ![c] = "unpublished"]
             /\ UNCHANGED <<files, manifest, dropped, logical, active, stream>>
          \/ /\ c \notin errors /\ phase' = [phase EXCEPT ![c] = "publish"]
             /\ UNCHANGED <<files, manifest, dropped, logical, active, stream>>
          \/ /\ c \in errors /\ phase' = [phase EXCEPT ![c] = "publish"]
             /\ Abort(c, {c}, {})
             /\ stream' = [stream EXCEPT ![c] = [s \in StreamSet |-> "failed"]]
      BY DEF Decide, group, accounts, SetPhase
    <2>3. {} \in SUBSET Ids /\ \A i \in {} : i # c /\ ~Owned(i)
      OBVIOUS
    <2>4. Abort(c, {c}, {}) =>
            /\ DataTypes' /\ active' \in [Ids -> Nat] /\ Vacant(c)' /\ manifest'[c] = manifest[c]
            /\ \A i \in Ids \ {c} : Spared(i) /\ active'[i] = active[i]
      BY <1>1, <2>3, AbortSpares DEF OwnerTypes
    <2>5. UNCHANGED <<files, manifest, dropped, logical, active>> =>
            /\ DataTypes' /\ active' \in [Ids -> Nat]
            /\ \A i \in Ids \ {c} : Spared(i) /\ active'[i] = active[i]
      BY <1>1 DEF OwnerTypes, DataTypes, Spared, Kept
    <2> QED BY <1>1, <2>1, <2>2, <2>3, <2>4, <2>5
  <1>3. AuxTypes' /\ DataTypes'
    BY <1>1, <1>2 DEF AuxTypes, DataTypes
  <1>4. OwnerTypes'
    BY <1>1, <1>2, StoreAssumption DEF OwnerTypes, Captures, Ids
  <1>5. ThreadTypes'
    BY <1>1, <1>2 DEF ThreadTypes, Phases
  <1>6. StreamTypes'
    BY <1>1, <1>2 DEF StreamTypes, Stages
  <1>7. ASSUME NEW d \in Captures \ {c} PROVE Untouched(d)
    BY <1>1, <1>2, <1>7 DEF Untouched, Spared, Kept, Ids, Captures, ThreadTypes, StreamTypes
  <1>8. phase[c] \notin Early => phase'[c] \notin Early /\ (~Owned(c) => ~Owned(c)')
    BY <1>1, <1>2 DEF Early, Owned, OwnerTypes, ThreadTypes, Vacant
  <1>9. Still(c) /\ Owned(c) => Held(c) \subseteq Held(c)'
    BY <1>1, <1>2 DEF Still, Spared, Kept, Evicted, Held, ThreadTypes
  <1>10. CaptureOK(c)'
    <2>1. StagesOK(c)' /\ KindsOK(c)' /\ LookOK(c)'
      BY <1>1, <1>2 DEF CaptureOK, ThreadTypes, StreamTypes, StagesOK, Early, KindsOK, LookOK
    <2>2. FilesOK(c)'
      BY <1>1, <1>2 DEF CaptureOK, ThreadTypes, StreamTypes, FilesOK, Listed, Summed, Spared,
         Kept, Evicted
    <2>3. OwnersOK(c)'
      BY <1>1, <1>2 DEF CaptureOK, ThreadTypes, StreamTypes, OwnersOK, Counts, Early, Done
    <2>4. GrantsOK(c)'
      BY <1>1, <1>2 DEF CaptureOK, ThreadTypes, StreamTypes, GrantsOK, StagesOK
    <2>5. StatusOK(c)'
      BY <1>1, <1>2, StoreAssumption DEF CaptureOK, ThreadTypes, StreamTypes, StatusOK, Early,
         Spared, Kept, Evicted, Vacant
    <2>6. HoldsOK(c)'
      BY <1>1, <1>2 DEF CaptureOK, ThreadTypes, StreamTypes, HoldsOK, Spared, Kept, Evicted,
         StagesOK
    <2>7. EndsOK(c)'
      BY <1>1, <1>2 DEF CaptureOK, ThreadTypes, StreamTypes, EndsOK, Vacant, Spared, Kept,
         Evicted, StagesOK
    <2> QED BY <2>1, <2>2, <2>3, <2>4, <2>5, <2>6, <2>7 DEF CaptureOK
  <1> QED BY <1>3, <1>4, <1>5, <1>6, <1>7, <1>8, <1>9, <1>10, Compose

\* The lease of a job goes back.
LEMMA ReleaseKeeps ==
    ASSUME StoreInv, NEW c \in Captures, Release(c)
    PROVE  StoreInv' /\ OwnedStep
  <1>1. /\ CaptureOK(c) /\ c \in Ids /\ c # NoId /\ AuxTypes /\ DataTypes /\ OwnerTypes
        /\ ThreadTypes /\ StreamTypes
    BY StoreAssumption DEF StoreInv, Captures, Ids
  <1>2. /\ phase[c] \in {"release", "unpublished"} /\ leased' = leased \ {c}
        /\ phase' = [phase EXCEPT ![c] = IF phase[c] = "unpublished" THEN "lost"
                                      ELSE IF c \in errors THEN "failed" ELSE "succeeded"]
        /\ UNCHANGED <<files, manifest, dropped, logical, active, aux, todo, look, stream,
                       granted, errors>>
    BY DEF Release, Advance, SetPhase, disk, group, accounts, owners, prepare, capture
  <1>3. AuxTypes' /\ DataTypes' /\ OwnerTypes' /\ StreamTypes'
    BY <1>1, <1>2 DEF AuxTypes, DataTypes, OwnerTypes, StreamTypes
  <1>4. ThreadTypes'
    BY <1>1, <1>2 DEF ThreadTypes, Phases
  <1>5. ASSUME NEW d \in Captures \ {c} PROVE Untouched(d)
    BY <1>1, <1>2, <1>5 DEF Untouched, Spared, Kept, Ids, Captures, ThreadTypes, StreamTypes
  <1>6. phase[c] \notin Early => phase'[c] \notin Early /\ (~Owned(c) => ~Owned(c)')
    BY <1>1, <1>2 DEF Early, Owned, OwnerTypes, ThreadTypes
  <1>7. Still(c) /\ Owned(c) => Held(c) \subseteq Held(c)'
    BY <1>1, <1>2 DEF Still, Spared, Kept, Evicted, Held
  <1>8. CaptureOK(c)'
    <2>1. OwnersOK(c)' /\ StagesOK(c)' /\ GrantsOK(c)'
      BY <1>1, <1>2 DEF CaptureOK, ThreadTypes, StreamTypes, OwnersOK, Counts, Early, Done,
         StagesOK, GrantsOK
    <2>2. KindsOK(c)' /\ LookOK(c)' /\ HoldsOK(c)'
      BY <1>1, <1>2 DEF CaptureOK, ThreadTypes, StreamTypes, KindsOK, Early, LookOK, HoldsOK,
         Spared, Kept, Evicted
    <2>3. FilesOK(c)'
      BY <1>1, <1>2 DEF CaptureOK, ThreadTypes, StreamTypes, FilesOK, Listed, Summed, Spared,
         Kept, Evicted
    <2>4. StatusOK(c)'
      BY <1>1, <1>2, StoreAssumption DEF CaptureOK, ThreadTypes, StreamTypes, StatusOK, Early,
         Spared, Kept, Evicted, KindsOK
    <2>5. EndsOK(c)'
      BY <1>1, <1>2 DEF CaptureOK, ThreadTypes, StreamTypes, EndsOK, Vacant, Spared, Kept,
         Evicted, KindsOK
    <2> QED BY <2>1, <2>2, <2>3, <2>4, <2>5 DEF CaptureOK
  <1> QED BY <1>3, <1>4, <1>5, <1>6, <1>7, <1>8, Compose
-----------------------------------------------------------------------------
(* Steps of no capture.                                                     *)

\* A step that is about no capture is sound.
LEMMA AllKeep ==
    ASSUME StoreInv, AuxTypes', DataTypes', OwnerTypes', ThreadTypes', StreamTypes',
           \A d \in Captures : Untouched(d)
    PROVE  StoreInv' /\ OwnedStep
  <1>1. \A i \in Old : ~Owned(i)'
    BY StoreAssumption DEF Owned, OwnerTypes, Captures
  <1>2. Forward
    BY <1>1 DEF Forward, Untouched, Owned
  <1>3. ASSUME NEW d \in Captures PROVE CaptureOK(d)'
    BY <1>2, OthersKeep
  <1>4. ASSUME NEW d \in Captures, Owned(d), Still(d) PROVE Held(d) \subseteq Held(d)'
    BY <1>4 DEF Untouched, Spared, Kept, Evicted, Held
  <1> QED BY <1>3, <1>4 DEF StoreInv, OwnedStep

\* So is one that only takes what nobody owns,
LEMMA RestKeeps ==
    ASSUME StoreInv, DataTypes', \A i \in Ids : Spared(i),
           UNCHANGED <<active, leased, aux, phase, todo, look, stream, granted, errors>>
    PROVE  StoreInv' /\ OwnedStep
  <1>1. AuxTypes' /\ OwnerTypes' /\ ThreadTypes' /\ StreamTypes'
    BY DEF StoreInv, AuxTypes, OwnerTypes, ThreadTypes, StreamTypes
  <1>2. \A d \in Captures : Untouched(d)
    BY DEF Untouched, Ids
  <1> QED BY <1>1, <1>2, AllKeep

\* and one that changes nothing of all this.
LEMMA IdleKeeps ==
    ASSUME StoreInv,
           UNCHANGED <<files, manifest, dropped, logical, active, leased, aux, phase, todo, look,
                       stream, granted, errors>>
    PROVE  StoreInv' /\ OwnedStep
  <1>1. DataTypes' /\ \A i \in Ids : Spared(i)
    BY DEF StoreInv, DataTypes, Spared, Kept
  <1> QED BY <1>1, RestKeeps

\* A maintenance pass deletes what has expired.
LEMMA MaintainKeeps ==
    ASSUME StoreInv, Maintain
    PROVE  StoreInv' /\ OwnedStep
  <1>1. UNCHANGED <<logical, active, leased, aux, phase, todo, look, stream, granted, errors>>
    BY DEF Maintain, owners, prepare, capture
  <1>2. PICK expired \in SUBSET Deletable : Evict(expired)
    BY DEF Maintain
  <1>3. expired \in SUBSET Ids /\ \A i \in expired : ~Owned(i)
    BY DeletableUnowned
  <1>4. DataTypes
    BY DEF StoreInv
  <1>5. /\ logical' \in [Ids -> Nat]
        /\ \A i \in Ids : IF i \in expired THEN logical'[i] \in {0, logical[i]}
                          ELSE logical'[i] = logical[i]
    BY <1>1, <1>4 DEF DataTypes
  <1>6. DataTypes' /\ \A i \in Ids : Spared(i)
    BY <1>2, <1>3, <1>4, <1>5, EvictSpares
  <1> QED BY <1>1, <1>6, RestKeeps

\* What a capture writes of its own takes its place.
LEMMA OwnReplaceKeeps ==
    ASSUME StoreInv, NEW c \in Captures, aux.by = c, phase[c] # "mark", AuxReplace
    PROVE  StoreInv' /\ OwnedStep
  <1>1. /\ CaptureOK(c) /\ c \in Ids /\ c # NoId /\ AuxTypes /\ DataTypes /\ OwnerTypes
        /\ ThreadTypes /\ StreamTypes
    BY StoreAssumption DEF StoreInv, Captures, Ids
  <1>2. /\ aux.by = c /\ ~aux.done /\ AuxTypes' /\ aux'.by = c /\ aux'.for = aux.for
        /\ aux'.id = c /\ aux'.done
        /\ DataTypes' /\ \A i \in Ids \ {c} : Spared(i)
        /\ \/ /\ phase[c] \in {"registering", "saving", "publishing"}
              /\ manifest'[c] = aux.for /\ files'[c] = files[c]
           \/ /\ \E s \in StreamSet : stream[c][s] = "sidecar" /\ files'[c] = files[c] \union {Sidecar[s]}
              /\ manifest'[c] = manifest[c]
           \/ /\ \E s \in StreamSet : stream[c][s] = "writing"
              /\ files'[c] = files[c] \union {"digest"} /\ manifest'[c] = manifest[c]
        /\ \A r, s \in StreamSet :
              stream[c][s] \in {"sidecar", "writing"} /\ stream[c][r] \in {"sidecar", "writing"} => r = s
        /\ UNCHANGED <<dropped, logical, active, leased, phase, todo, look, stream, granted,
                       errors>>
    <2>1. /\ aux.by = c /\ ~aux.done /\ aux' = [aux EXCEPT !.done = TRUE]
          /\ UNCHANGED <<dropped, logical, active, leased, phase, todo, look, stream, granted,
                         errors>>
      BY DEF AuxReplace, Advance, SetPhase, disk, group, accounts, owners, prepare, capture
    <2>2. HoldsOK(c)
      BY <1>1 DEF CaptureOK
    <2>3. aux.id = c
      BY <2>1, <2>2 DEF HoldsOK
    <2>4. AuxTypes' /\ aux'.by = c /\ aux'.for = aux.for /\ aux'.id = c /\ aux'.done
      BY <1>1, <2>1, <2>3 DEF AuxTypes
    <2>5. IF AuxName = "manifest"
          THEN manifest' = [manifest EXCEPT ![c] = aux.for] /\ UNCHANGED files
          ELSE files' = [files EXCEPT ![c] = @ \union {AuxName}] /\ UNCHANGED manifest
      BY <2>3 DEF AuxReplace
    <2>6. \/ /\ phase[c] \in {"registering", "saving", "publishing"}
             /\ manifest' = [manifest EXCEPT ![c] = aux.for] /\ UNCHANGED files
          \/ /\ \E s \in StreamSet : /\ stream[c][s] = "sidecar"
                                    /\ files' = [files EXCEPT ![c] = @ \union {Sidecar[s]}]
             /\ UNCHANGED manifest
          \/ /\ \E s \in StreamSet : stream[c][s] = "writing"
             /\ files' = [files EXCEPT ![c] = @ \union {"digest"}] /\ UNCHANGED manifest
      <3>1. CASE phase[c] \in {"registering", "saving", "publishing"}
        <4>1. aux.for \in {"running", "completed", "failed"}
          BY <2>2, <3>1 DEF HoldsOK
        <4>2. AuxName = "manifest"
          BY <4>1, SidecarFacts DEF AuxName, Sidecars, Statuses
        <4> QED BY <2>5, <3>1, <4>2
      <3>2. ASSUME NEW s \in StreamSet, stream[c][s] = "sidecar"
            PROVE  files' = [files EXCEPT ![c] = @ \union {Sidecar[s]}] /\ UNCHANGED manifest
        <4>1. AuxName = Sidecar[s] /\ Sidecar[s] # "manifest"
          <5>1. AuxName = Sidecar[s]
            BY <2>2, <3>2, SidecarFacts DEF HoldsOK, AuxName
          <5>2. Sidecar[s] # "manifest"
            BY StreamFacts DEF Sidecar
          <5> QED BY <5>1, <5>2
        <4> QED BY <2>5, <4>1
      <3>3. ASSUME NEW s \in StreamSet, stream[c][s] = "writing"
            PROVE  files' = [files EXCEPT ![c] = @ \union {"digest"}] /\ UNCHANGED manifest
        <4>1. AuxName = "digest"
          BY <2>2, <3>3, SidecarFacts DEF HoldsOK, AuxName
        <4> QED BY <2>5, <4>1
      <3>4. phase[c] \in {"registering", "saving", "publishing"}
              \/ \E s \in StreamSet : stream[c][s] \in {"sidecar", "writing"}
        BY <2>1, <2>2 DEF HoldsOK
      <3> QED BY <3>1, <3>2, <3>3, <3>4
    <2>7. \A r, s \in StreamSet :
            stream[c][s] \in {"sidecar", "writing"} /\ stream[c][r] \in {"sidecar", "writing"} => r = s
      BY OneWriter
    <2>8. \/ /\ phase[c] \in {"registering", "saving", "publishing"}
             /\ manifest'[c] = aux.for /\ files'[c] = files[c]
          \/ /\ \E s \in StreamSet : stream[c][s] = "sidecar" /\ files'[c] = files[c] \union {Sidecar[s]}
             /\ manifest'[c] = manifest[c]
          \/ /\ \E s \in StreamSet : stream[c][s] = "writing"
             /\ files'[c] = files[c] \union {"digest"} /\ manifest'[c] = manifest[c]
      BY <1>1, <2>6 DEF DataTypes
    <2>9. DataTypes' /\ \A i \in Ids \ {c} : Spared(i)
      BY SMTT(40), <1>1, <2>1, <2>6, SidecarFacts, OwnStatus DEF DataTypes, Spared, Kept
    <2> QED BY <1>1, <2>1, <2>2, <2>3, <2>4, <2>5, <2>6, <2>7, <2>8, <2>9
  <1>3. AuxTypes' /\ DataTypes' /\ OwnerTypes' /\ ThreadTypes' /\ StreamTypes'
    BY <1>1, <1>2 DEF AuxTypes, DataTypes, OwnerTypes, ThreadTypes, StreamTypes
  <1>4. ASSUME NEW d \in Captures \ {c} PROVE Untouched(d)
    BY <1>1, <1>2, <1>4, StoreAssumption DEF Untouched, Spared, Kept, Ids, Captures,
       ThreadTypes, StreamTypes
  <1>5. phase[c] \notin Early => phase'[c] \notin Early /\ (~Owned(c) => ~Owned(c)')
    BY <1>1, <1>2 DEF Early, Owned, OwnerTypes, ThreadTypes
  <1>6. Still(c) /\ Owned(c) => Held(c) \subseteq Held(c)'
    <2>1. files[c] \subseteq files'[c]
      BY <1>1, <1>2
    <2>2. manifest'[c] = "none" => manifest[c] = "none"
      BY <1>1, <1>2 DEF CaptureOK, HoldsOK
    <2> QED BY <2>1, <2>2 DEF Held
  <1>7. CaptureOK(c)'
    <2>1. OwnersOK(c)' /\ StagesOK(c)' /\ GrantsOK(c)'
      BY <1>1, <1>2 DEF CaptureOK, ThreadTypes, StreamTypes, OwnersOK, Counts, Early, Done,
         StagesOK, GrantsOK
    <2>2. KindsOK(c)' /\ LookOK(c)'
      BY <1>1, <1>2 DEF CaptureOK, ThreadTypes, StreamTypes, KindsOK, Early, LookOK
    <2>3. StatusOK(c)'
      BY <1>1, <1>2, StoreAssumption DEF CaptureOK, ThreadTypes, StreamTypes, StatusOK, Early,
         Spared, Kept, Evicted, HoldsOK, KindsOK, Captures
    <2>4. HoldsOK(c)'
      <3>1. HoldsOK(c) /\ StagesOK(c)
        BY <1>1 DEF CaptureOK
      <3>2. phase[c] \in {"registering", "saving", "publishing"} => manifest'[c] = aux.for
        BY <1>2, <3>1 DEF StagesOK, Early
      <3>3. /\ UNCHANGED <<phase, stream, errors, look>> /\ aux'.by = c /\ aux'.for = aux.for
            /\ aux'.id = c /\ aux'.done
        BY <1>2
      <3>4. phase[c] # "mark"
        OBVIOUS
      <3> QED BY <3>1, <3>2, <3>3, <3>4 DEF HoldsOK
    <2>5. FilesOK(c)'
      BY <1>1, <1>2 DEF CaptureOK, ThreadTypes, StreamTypes, FilesOK, Listed, Summed, Spared,
         Kept, Evicted, StagesOK, EndsOK, DataTypes
    <2>6. EndsOK(c)'
      BY <1>1, <1>2 DEF CaptureOK, ThreadTypes, StreamTypes, EndsOK, Vacant, Spared, Kept,
         Evicted, StagesOK
    <2> QED BY <2>1, <2>2, <2>3, <2>4, <2>5, <2>6 DEF CaptureOK
  <1> QED BY <1>3, <1>4, <1>5, <1>6, <1>7, Compose

\* The mark of a dead server's manifest takes its place.
LEMMA MarkReplaceKeeps ==
    ASSUME StoreInv, NEW c \in Captures, aux.by = c, phase[c] = "mark", AuxReplace
    PROVE  StoreInv' /\ OwnedStep
  <1>1. CaptureOK(c) /\ c # NoId /\ AuxTypes /\ DataTypes
    BY StoreAssumption DEF StoreInv, Captures, Ids
  <1>2. PICK i \in Old \union Jobs : /\ look[c] = i /\ aux.for = "failed" /\ aux.id = i /\ ~Owned(i)
                                     /\ i \notin Old => phase[i] \notin Early
    BY <1>1 DEF CaptureOK, HoldsOK, LookOK
  <1>3. i \in Ids /\ (i \in Captures => i \in Jobs /\ phase[i] \notin Early) /\ i # c
    BY <1>2, StoreAssumption DEF Ids, Captures, Early
  <1>4. AuxName = "manifest"
    BY <1>2, SidecarFacts DEF AuxName, Sidecars, Statuses
  <1>5. /\ manifest' = [manifest EXCEPT ![i] = "failed"] /\ aux' = [aux EXCEPT !.done = TRUE]
        /\ UNCHANGED <<files, dropped, logical, active, leased, phase, todo, look, stream,
                       granted, errors>>
    BY <1>2, <1>4 DEF AuxReplace, accounts, owners, prepare, capture
  <1>6. AuxTypes' /\ DataTypes' /\ OwnerTypes' /\ ThreadTypes' /\ StreamTypes'
    BY <1>1, <1>5 DEF StoreInv, AuxTypes, DataTypes, OwnerTypes, ThreadTypes, StreamTypes, Statuses
  <1>7. Forward
    <2>1. \A j \in Old : ~Owned(j)'
      BY <1>6, StoreAssumption DEF Owned, OwnerTypes, Captures
    <2> QED BY <1>5, <2>1 DEF Forward, Owned
  <1>8. ASSUME NEW d \in Captures, d # c, d # i PROVE CaptureOK(d)'
    <2>1. Untouched(d)
      BY <1>1, <1>5, <1>8 DEF Untouched, Spared, Kept, DataTypes, Ids
    <2> QED BY <1>7, <2>1, OthersKeep
  <1>9. CaptureOK(c)'
    <2>1. /\ c \in Ids /\ manifest'[c] = manifest[c] /\ aux'.by = c /\ aux'.for = aux.for
          /\ aux'.id = aux.id
      BY <1>1, <1>3, <1>5 DEF DataTypes, AuxTypes, Captures, Ids
    <2>2. /\ OwnersOK(c)' /\ StagesOK(c)' /\ GrantsOK(c)' /\ KindsOK(c)' /\ StatusOK(c)'
          /\ EndsOK(c)'
      BY <1>1, <1>5, <2>1 DEF CaptureOK, OwnersOK, Counts, StagesOK, GrantsOK, KindsOK, StatusOK,
         EndsOK, Vacant
    <2>3. LookOK(c)'
      BY <1>1, <1>5 DEF CaptureOK, LookOK, Owned
    <2>4. \A s \in StreamSet : stream[c][s] \in {"none", "open"}
      BY <1>1 DEF CaptureOK, StagesOK, Early
    <2>5. HoldsOK(c)'
      BY <1>1, <1>5, <2>1, <2>4 DEF CaptureOK, HoldsOK
    <2>6. FilesOK(c)'
      BY <1>1, <1>5, <2>4 DEF CaptureOK, FilesOK
    <2> QED BY <2>2, <2>3, <2>5, <2>6 DEF CaptureOK
  <1>10. ASSUME i \in Captures PROVE CaptureOK(i)'
    <2>1. /\ CaptureOK(i) /\ i \in Jobs /\ manifest'[i] = "failed" /\ active[i] \in Nat
          /\ phase[i] \in Phases
      BY <1>1, <1>3, <1>5, <1>10 DEF StoreInv, DataTypes, OwnerTypes, ThreadTypes
    <2>2. i \notin leased /\ active[i] = 0
      BY <1>2, <2>1 DEF Owned
    <2>3. phase[i] \in Done
      BY <1>3, <1>10, <2>1, <2>2 DEF CaptureOK, OwnersOK, Done, Early
    <2>4. aux.by # i /\ aux'.by # i
      BY <1>1, <1>3, <1>5 DEF AuxTypes
    <2>5. OwnersOK(i)' /\ StagesOK(i)' /\ GrantsOK(i)' /\ KindsOK(i)' /\ EndsOK(i)'
      BY <1>5, <2>1 DEF CaptureOK, OwnersOK, Counts, StagesOK, GrantsOK, KindsOK, EndsOK, Vacant
    <2>6. StatusOK(i)'
      BY <1>5, <2>1, <2>2, <2>3, StoreAssumption DEF StatusOK, Done, Early
    <2>7. LookOK(i)'
      BY <1>5, <2>3 DEF LookOK, Done
    <2>8. HoldsOK(i)'
      BY <1>5, <2>1, <2>3, <2>4 DEF CaptureOK, HoldsOK, Done
    <2>9. FilesOK(i)'
      BY <1>5, <2>1, <2>4 DEF CaptureOK, FilesOK, HoldsOK
    <2> QED BY <2>5, <2>6, <2>7, <2>8, <2>9 DEF CaptureOK
  <1>11. OwnedStep
    <2>1. ASSUME NEW d \in Captures  PROVE  files'[d] = files[d] /\ (manifest'[d] = "none" => manifest[d] = "none")
      BY <1>1, <1>3, <1>5 DEF DataTypes, Ids
    <2> QED BY <2>1 DEF OwnedStep, Held
  <1> QED BY <1>6, <1>8, <1>9, <1>10, <1>11 DEF StoreInv

\* A metadata file takes its place.
LEMMA AuxReplaceKeeps ==
    ASSUME StoreInv, AuxReplace
    PROVE  StoreInv' /\ OwnedStep
  <1>1. aux.by \in Captures
    BY DEF StoreInv, AuxTypes, AuxReplace
  <1> QED BY <1>1, OwnReplaceKeeps, MarkReplaceKeeps

\* A page is read.
LEMMA ReadPageKeeps ==
    ASSUME StoreInv, NEW i \in Ids, ReadPage(i)
    PROVE  StoreInv' /\ OwnedStep
  BY IdleKeeps DEF ReadPage, accounts, owners, prepare, capture

\* Every step keeps the invariant and every owned file.
LEMMA StoreStep ==
    ASSUME StoreInv, [StoreNext]_storeVars
    PROVE  StoreInv' /\ OwnedStep
  <1>1. ASSUME NEW c \in Captures, Opening(c) PROVE StoreInv' /\ OwnedStep
    BY <1>1, StartKeeps, ReadManifestKeeps, SpareKeeps, MarkStaleKeeps, MarkedKeeps,
       CleanupKeeps, AdmitKeeps, OpenFailsKeeps, OpenStreamKeeps DEF Opening
  <1>2. ASSUME NEW c \in Captures, Ending(c) PROVE StoreInv' /\ OwnedStep
    BY <1>2, ProcessEndsKeeps, SaveManifestKeeps, SavedKeeps, SaveFailsKeeps, UnwindKeeps,
       DecideKeeps, ReleaseKeeps DEF Ending
  <1>3. ASSUME NEW c \in Captures, NEW s \in StreamSet, Capturing(c, s) PROVE StoreInv' /\ OwnedStep
    BY <1>3, ClaimKeeps, ClaimDeniedKeeps, WriteKeeps, WriteFailsKeeps, BeginCloseKeeps, FlushKeeps,
       FlushFailsKeeps, UnlistKeeps, FinishKeeps, DigestKeeps, DigestedKeeps DEF Capturing
  <1>4. CASE UNCHANGED storeVars
    BY <1>4, IdleKeeps DEF storeVars, disk, group, accounts, owners, prepare, capture
  <1> QED BY <1>1, <1>2, <1>3, <1>4, ReadPageKeeps, AuxReplaceKeeps, MaintainKeeps DEF StoreNext

\* The invariant holds at the start.
LEMMA StoreInitInv ==
    ASSUME StoreInit
    PROVE  StoreInv
  <1>1. AuxTypes
    BY FreeFits DEF StoreInit, AuxTypes
  <1>2. DataTypes /\ OwnerTypes
    BY StoreAssumption, StreamFacts DEF StoreInit, DataTypes, OwnerTypes, Names, Statuses, Ids
  <1>3. ThreadTypes /\ StreamTypes
    BY DEF StoreInit, ThreadTypes, StreamTypes, Phases, Stages
  <1>4. ASSUME NEW c \in Captures PROVE CaptureOK(c)
    <2>1. /\ phase[c] = "idle" /\ c \notin errors /\ granted[c] = {} /\ c \notin leased
          /\ aux.by # c
          /\ \A s \in StreamSet : stream[c][s] = "none"
          /\ files[c] = {} /\ manifest[c] = "none" /\ logical[c] = 0 /\ active[c] = 0
      BY StoreAssumption DEF StoreInit, Free, Captures, Ids
    <2>2. Counts(c) = {}
      BY <2>1 DEF Counts, Counted
    <2>3. OwnersOK(c)
      BY <2>1, <2>2, FS_EmptySet DEF OwnersOK, Done
    <2>4. StagesOK(c) /\ GrantsOK(c) /\ KindsOK(c) /\ StatusOK(c) /\ LookOK(c)
      BY <2>1 DEF StagesOK, GrantsOK, KindsOK, StatusOK, LookOK, Early
    <2>5. HoldsOK(c) /\ FilesOK(c) /\ EndsOK(c)
      BY <2>1, StreamFacts DEF HoldsOK, FilesOK, EndsOK, Vacant, Listed, Summed
    <2> QED BY <2>3, <2>4, <2>5 DEF CaptureOK
  <1> QED BY <1>1, <1>2, <1>3, <1>4 DEF StoreInv

-----------------------------------------------------------------------------
(* What holds of every run.                                                 *)

\* The invariant says how captures end.
LEMMA InvIsSafe ==
    ASSUME StoreInv
    PROVE  CapturesSafe
  <1>1. ASSUME NEW c \in Captures, phase[c] = "succeeded", c \notin dropped
        PROVE  files[c] = Names /\ (c \in Commands => manifest[c] = "completed")
    <2>1. FilesOK(c) /\ EndsOK(c) /\ StatusOK(c) /\ files[c] \subseteq Names
      BY DEF StoreInv, CaptureOK, DataTypes, Ids
    <2>2. c \notin errors /\ \A s \in StreamSet : stream[c][s] = "closed"
      BY <1>1, <2>1 DEF EndsOK
    <2>3. StreamSet \subseteq files[c] /\ Sidecars \subseteq files[c] /\ "digest" \in files[c]
      BY <1>1, <2>1, <2>2 DEF FilesOK, Listed, Summed, Sidecars
    <2>4. c \in Commands => manifest[c] = "completed"
      BY <1>1, <2>1 DEF StatusOK
    <2> QED BY <2>1, <2>3, <2>4 DEF Names
  <1>2. ASSUME NEW c \in Captures, phase[c] = "failed"
        PROVE  ~Owned(c) /\ logical[c] = 0 /\ files[c] = {} /\ manifest[c] \in {"none", "failed"}
    BY <1>2 DEF StoreInv, CaptureOK, OwnersOK, EndsOK, StatusOK, Vacant, Owned, Done
  <1> QED BY <1>1, <1>2 DEF CapturesSafe, SuccessIsWhole, FailedLeavesNothing

\* The invariant holds of every run of the store.
THEOREM StoreInvHolds == StoreSpec => []StoreInv
  <1>1. StoreInv /\ [StoreNext]_storeVars => StoreInv'
    BY StoreStep
  <1> QED BY <1>1, StoreInitInv, PTL DEF StoreSpec

\* How a capture ends: a success has all its files and, if a command, its
\* completed manifest, unless the store has dropped it since; a failure owns
\* nothing and leaves nothing behind (output_store.py:461, 486, 499).
THEOREM CapturesAreSafe == StoreSpec => []CapturesSafe
  BY StoreInvHolds, InvIsSafe, PTL

\* What others do, by eviction, expiry or maintenance, takes no file and no
\* manifest from an owned artifact (output_store.py:353, 521, 570).
THEOREM OwnedIsKept == StoreSpec => OwnedKept
  <1>1. StoreInv /\ [StoreNext]_storeVars
          => [\A c \in Captures : Owned(c) /\ Still(c) => Held(c) \subseteq Held(c)']_storeVars
    BY StoreStep DEF OwnedStep
  <1> QED BY <1>1, StoreInvHolds, PTL DEF StoreSpec, OwnedKept

-----------------------------------------------------------------------------
(* The accounts of the store: sets of units, and how many there are.        *)

AllNames == Names \union {"manifest"}
Places == 1..Chunks + 1
Units == Ids \X AllNames \X Places
Width == Cardinality(StreamSet)

\* The unit that the holder of _aux_lock is about to put on disk.
Pending == IF aux.by = NoId \/ aux.done THEN {} ELSE {<<aux.id, AuxName, 1>>}

\* What will be on disk when all that is charged has arrived.
Future == Stored(Ids) \union Flying \union Pending

\* The lengths of data files stay within what the streams have produced.
SizesOK ==
    /\ size \in [Ids -> [StreamSet -> 0..Chunks + 1]] /\ chunks \in [Captures -> [StreamSet -> 0..Chunks]]
    /\ \A c \in Captures : \A s \in StreamSet :
          /\ size[c][s] <= chunks[c][s]
          /\ s \in granted[c] => size[c][s] + 1 <= chunks[c][s]
          /\ stream[c][s] = "none" => size[c][s] = 0

\* There are finitely many units of any artifacts.
LEMMA UnitsFinite ==
    /\ IsFiniteSet(Units) /\ Width \in Nat /\ Width >= 1
  <1>1. IsFiniteSet(StreamSet) /\ Width \in Nat /\ Width >= 1
    BY StreamFacts, FS_CardinalityType, FS_EmptySet DEF Width
  <1>2. IsFiniteSet(Sidecars)
    <2>1. [s \in StreamSet |-> Sidecar[s]] \in Surjection(StreamSet, Sidecars)
      BY DEF Surjection, Sidecars
    <2> QED BY <1>1, <2>1, FS_Surjection
  <1>3. IsFiniteSet(AllNames)
    <2>1. IsFiniteSet((StreamSet \union Sidecars) \union {"digest"})
      BY <1>1, <1>2, FS_Union, FS_AddElement
    <2> QED BY <2>1, FS_AddElement DEF AllNames, Names
  <1>4. IsFiniteSet(Places)
    BY FS_Interval, StoreAssumption DEF Places
  <1>5. IsFiniteSet((Ids \X AllNames) \X Places)
    BY <1>3, <1>4, FS_Product, StoreAssumption
  <1>6. IsFiniteSet(Units)
    <2> DEFINE f == [p \in (Ids \X AllNames) \X Places |-> <<p[1][1], p[1][2], p[2]>>]
    <2>1. ASSUME NEW u \in Units PROVE \E p \in (Ids \X AllNames) \X Places : f[p] = u
      <3>1. u = <<u[1], u[2], u[3]>> /\ u[1] \in Ids /\ u[2] \in AllNames /\ u[3] \in Places
        BY DEF Units
      <3>2. <<<<u[1], u[2]>>, u[3]>> \in (Ids \X AllNames) \X Places
        BY <3>1
      <3>3. f[<<<<u[1], u[2]>>, u[3]>>] = u
        BY <3>1, <3>2
      <3> QED BY <3>2, <3>3
    <2>2. \A p \in (Ids \X AllNames) \X Places : f[p] \in Units
      BY DEF Units
    <2>3. f \in Surjection((Ids \X AllNames) \X Places, Units)
      BY <2>1, <2>2 DEF Surjection
    <2> QED BY <1>5, <2>3, FS_Surjection
  <1> QED BY <1>1, <1>6

\* What is stored, on its way or pending is among them.
LEMMA FutureFinite ==
    ASSUME StoreInv, SizesOK
    PROVE  /\ \A S \in SUBSET Ids : Stored(S) \subseteq Stored(Ids)
           /\ Future \subseteq Units /\ Stored(Ids) \subseteq Units
           /\ \A X \in SUBSET Units : IsFiniteSet(X) /\ Cardinality(X) \in Nat
           /\ \A X, Y \in SUBSET Units : X \subseteq Y => Cardinality(X) <= Cardinality(Y)
  <1>1. Stored(Ids) \subseteq Units
    BY DEF Stored, Units, AllNames, Places
  <1>2. Flying \subseteq Units
    <2>1. Captures \subseteq Ids /\ StreamSet \subseteq AllNames
      BY DEF Ids, AllNames, Names
    <2> QED BY <2>1 DEF Flying, Units, Places
  <1>3. Pending \subseteq Units
    <2> SUFFICES ASSUME aux.by # NoId, ~aux.done PROVE <<aux.id, AuxName, 1>> \in Units
      BY DEF Pending
    <2>1. aux.by \in Captures /\ aux.for \in Purposes
      BY DEF StoreInv, AuxTypes
    <2>2. AuxName \in AllNames
      BY <2>1, SidecarFacts, StreamFacts DEF AuxName, AllNames, Names, Sidecars
    <2>3. aux.id \in Ids
      BY <2>1 DEF StoreInv, CaptureOK, HoldsOK, LookOK, Ids, Captures
    <2>4. 1 \in Places
      BY StoreAssumption DEF Places
    <2> QED BY <2>2, <2>3, <2>4 DEF Units
  <1>4. \A X \in SUBSET Units : IsFiniteSet(X) /\ Cardinality(X) \in Nat
    BY UnitsFinite, FS_Subset, FS_CardinalityType
  <1>5. \A X, Y \in SUBSET Units : X \subseteq Y => Cardinality(X) <= Cardinality(Y)
    BY <1>4, FS_Subset
  <1> QED BY <1>1, <1>2, <1>3, <1>4, <1>5 DEF Future, Stored

\* An eviction takes the units of what it names and leaves the others.
LEMMA EvictUnits ==
    ASSUME StoreInv, SizesOK, NEW gone \in SUBSET Ids, Evict(gone), UNCHANGED size
    PROVE  /\ Stored(Ids)' = Stored(Ids) \ Stored(gone)
           /\ Bytes(gone) \in Nat /\ DiskTotal \in Nat
           /\ Cardinality(Stored(Ids)') = DiskTotal - Bytes(gone)
  <1>1. \A i \in Ids : Held(i)' = IF i \in gone THEN {} ELSE Held(i)
    BY DEF Evict, Delete, Held
  <1>2. \A i \in Ids : \A x : Length(i, x)' = Length(i, x)
    BY DEF Length
  <1>3. Stored(Ids)' = Stored(Ids) \ Stored(gone)
    BY <1>1, <1>2 DEF Stored
  <1>4. Stored(gone) \subseteq Stored(Ids) /\ Stored(Ids) \subseteq Units
    BY FutureFinite
  <1>5. IsFiniteSet(Stored(Ids)) /\ IsFiniteSet(Stored(gone))
        /\ Bytes(gone) \in Nat /\ DiskTotal \in Nat
    BY <1>4, FutureFinite DEF Bytes, DiskTotal
  <1>6. Stored(Ids) \intersect Stored(gone) = Stored(gone)
    BY <1>4
  <1> QED BY <1>3, <1>5, <1>6, FS_Difference DEF Bytes, DiskTotal

-----------------------------------------------------------------------------
(* The lengths of files.                                                    *)

\* A step that produces and writes nothing.
Quiet ==
    /\ UNCHANGED <<size, chunks>>
    /\ \A c \in Captures : granted'[c] \subseteq granted[c]
    /\ \A c \in Captures : \A s \in StreamSet : stream'[c][s] = "none" => stream[c][s] = "none"

\* It keeps the lengths.
LEMMA QuietKeeps ==
    ASSUME SizesOK, Quiet
    PROVE  SizesOK'
  BY DEF SizesOK, Quiet

\* One chunk more is produced by stream s.
OneMore(c, s) ==
    /\ chunks' \in [Captures -> [StreamSet -> 0..Chunks]]
    /\ \A d \in Captures : \A r \in StreamSet :
          IF d = c /\ r = s THEN chunks'[d][r] = chunks[d][r] + 1 ELSE chunks'[d][r] = chunks[d][r]
LEMMA OneMoreChunk ==
    ASSUME SizesOK, NEW c \in Captures, NEW s \in StreamSet, chunks[c][s] < Chunks,
           chunks' = [chunks EXCEPT ![c][s] = @ + 1]
    PROVE  OneMore(c, s)
  <1>1. chunks[c][s] + 1 \in 0..Chunks
    BY StoreAssumption DEF SizesOK
  <1>2. [chunks[c] EXCEPT ![s] = @ + 1] \in [StreamSet -> 0..Chunks]
    BY <1>1 DEF SizesOK
  <1> QED BY <1>2 DEF SizesOK, OneMore

\* All steps but those of a chunk are of this kind.
LEMMA OpeningQuiet ==
    ASSUME StoreInv, NEW c \in Captures, Opening(c)
    PROVE  Quiet
  <1>0. StreamTypes
    BY DEF StoreInv
  <1>1. CASE \/ Start(c) \/ ReadManifest(c) \/ Spare(c) \/ MarkStale(c) \/ Marked(c) \/ Cleanup(c) \/ Admit(c)
    BY <1>1 DEF Quiet, Start, ReadManifest, Spare, MarkStale, Marked, Cleanup, Admit, capture, disk
  <1>2. CASE OpenFails(c)
    BY <1>0, <1>2 DEF Quiet, OpenFails, StreamTypes
  <1>3. ASSUME NEW s \in StreamSet, OpenStream(c, s) PROVE Quiet
    BY <1>0, <1>3 DEF Quiet, OpenStream, StreamTypes, SetStream
  <1> QED BY <1>1, <1>2, <1>3 DEF Opening

LEMMA EndingQuiet ==
    ASSUME StoreInv, NEW c \in Captures, Ending(c)
    PROVE  Quiet
  <1>0. StreamTypes
    BY DEF StoreInv
  <1>1. CASE ProcessEnds(c) \/ SaveManifest(c) \/ Saved(c) \/ SaveFails(c) \/ Release(c)
    BY <1>1 DEF Quiet, ProcessEnds, SaveManifest, Saved, SaveFails, Release, capture, disk
  <1>2. CASE Unwind(c)
    BY <1>0, <1>2 DEF Quiet, Unwind, StreamTypes
  <1>3. CASE Decide(c)
    BY <1>0, <1>3 DEF Quiet, Decide, StreamTypes
  <1> QED BY <1>1, <1>2, <1>3 DEF Ending

\* Each step keeps the lengths.
LEMMA SizesStep ==
    ASSUME StoreInv, SizesOK, [StoreNext]_storeVars
    PROVE  SizesOK'
  <1>0. StreamTypes
    BY DEF StoreInv
  <1>1. ASSUME NEW c \in Captures, NEW s \in StreamSet, Capturing(c, s) PROVE SizesOK'
    <2>0. c \in Ids
      BY DEF Ids
    <2>1. CASE Claim(c, s)
      <3>1. /\ s \notin granted[c] /\ chunks[c][s] < Chunks /\ granted' = [granted EXCEPT ![c] = @ \union {s}]
            /\ chunks' = [chunks EXCEPT ![c][s] = @ + 1] /\ UNCHANGED <<size, stream>>
            /\ stream[c][s] # "none"
        BY <2>1 DEF Claim, Writing
      <3>2. OneMore(c, s)
        BY <3>1, OneMoreChunk
      <3> QED BY <1>0, <2>0, <3>1, <3>2 DEF SizesOK, StreamTypes, OneMore
    <2>2. CASE ClaimDenied(c, s)
      <3>1. /\ UNCHANGED <<size, granted>> /\ chunks[c][s] < Chunks
            /\ chunks' = [chunks EXCEPT ![c][s] = @ + 1]
        BY <2>2 DEF ClaimDenied, Stops, CloseFails
      <3>2. stream' = [stream EXCEPT ![c][s] = "stuck"] \/ stream' = [stream EXCEPT ![c][s] = "failed"]
        BY <2>2 DEF ClaimDenied, Stops, CloseFails, SetStream
      <3>3. OneMore(c, s)
        BY <3>1, OneMoreChunk
      <3> QED BY <1>0, <2>0, <3>1, <3>2, <3>3 DEF SizesOK, StreamTypes, OneMore
    <2>3. CASE Write(c, s)
      <3>1. /\ s \in granted[c] /\ granted' = [granted EXCEPT ![c] = @ \ {s}]
            /\ size' = [size EXCEPT ![c][s] = @ + 1] /\ UNCHANGED <<chunks, stream>>
        BY <2>3 DEF Write
      <3>2. stream[c][s] # "none"
        BY <3>1 DEF StoreInv, CaptureOK, GrantsOK
      <3> QED BY <1>0, <2>0, <3>1, <3>2, StoreAssumption DEF SizesOK, StreamTypes
    <2>4. CASE WriteFails(c, s)
      <3>1. UNCHANGED <<size, chunks>> /\ granted' = [granted EXCEPT ![c] = @ \ {s}]
        BY <2>4 DEF WriteFails, Stops, CloseFails
      <3>2. stream' = [stream EXCEPT ![c][s] = "stuck"] \/ stream' = [stream EXCEPT ![c][s] = "failed"]
        BY <2>4 DEF WriteFails, Stops, CloseFails, SetStream
      <3> QED BY <1>0, <3>1, <3>2, QuietKeeps DEF Quiet, StreamTypes
    <2>5. CASE \/ BeginClose(c, s) \/ Flush(c, s) \/ Unlist(c, s) \/ Finish(c, s)
               \/ Digest(c, s) \/ Digested(c, s)
      <3>1. /\ UNCHANGED <<size, chunks, granted>>
            /\ \E to \in Stages \ {"none"} : stream' = [stream EXCEPT ![c][s] = to]
        BY <2>5 DEF BeginClose, Flush, Unlist, Finish, Digest, Digested, SetStream, Stages, disk
      <3> QED BY <1>0, <3>1, QuietKeeps DEF Quiet, StreamTypes
    <2>6. CASE FlushFails(c, s)
      <3>1. /\ UNCHANGED <<size, chunks, granted>> /\ stream' = [stream EXCEPT ![c][s] = "failed"]
        BY <2>6 DEF FlushFails, CloseFails, SetStream
      <3> QED BY <1>0, <3>1, QuietKeeps DEF Quiet, StreamTypes
    <2> QED BY <1>1, <2>1, <2>2, <2>3, <2>4, <2>5, <2>6 DEF Capturing
  <1>2. ASSUME NEW i \in Ids, ReadPage(i) PROVE SizesOK'
    BY <1>2, QuietKeeps DEF ReadPage, Quiet, capture
  <1>3. CASE AuxReplace \/ Maintain
    BY <1>3, QuietKeeps DEF AuxReplace, Maintain, Quiet, capture
  <1>4. CASE UNCHANGED storeVars
    BY <1>4, QuietKeeps DEF Quiet, storeVars, disk, capture
  <1> QED BY <1>1, <1>2, <1>3, <1>4, OpeningQuiet, EndingQuiet, QuietKeeps DEF StoreNext

-----------------------------------------------------------------------------
(* What is charged to an artifact.                                          *)

\* The promise of LogicalIsBytes to one capture, and a step that cannot break it.
LogicalOK(d) ==
    active[d] > 0 /\ d \notin errors => logical[d] <= ArtifactMax /\ logical[d] = Cardinality(Taken(d))
Steady(d) ==
    active'[d] > 0 /\ d \notin errors' =>
        /\ active[d] > 0 /\ d \notin errors
        /\ logical'[d] = logical[d] /\ size'[d] = size[d] /\ granted'[d] = granted[d]

\* It does not.
LEMMA SteadyKeeps ==
    ASSUME NEW d \in Captures, LogicalOK(d), Steady(d)
    PROVE  LogicalOK(d)'
  BY DEF LogicalOK, Steady, Taken

\* Eviction takes the charge of nobody who has open streams.
LEMMA EvictionSteady ==
    ASSUME StoreInv, NEW gone, \A i \in gone : ~Owned(i),
           logical' = [i \in Ids |-> IF i \in gone THEN 0 ELSE logical[i]],
           UNCHANGED <<size, granted, active>>, errors \subseteq errors'
    PROVE  \A d \in Captures : Steady(d)
  BY DEF Steady, Owned, Ids

\* Nor does a charge for a metadata file.
LEMMA ChargeSteady ==
    ASSUME StoreInv, NEW by, NEW for, NEW id, NEW name, AuxCharge(by, for, id, name),
           UNCHANGED <<size, granted, active, errors>>
    PROVE  \A d \in Captures : Steady(d)
  <1>1. /\ \A i \in Gone(1, id) : ~Owned(i) /\ i # id
        /\ logical' = [i \in Ids |-> IF i \in Gone(1, id) THEN 0
                                    ELSE IF i = id THEN logical[i] + 0 ELSE logical[i]]
    BY GoneFacts DEF AuxCharge, Charge
  <1>2. \A i \in Ids : logical[i] + 0 = logical[i]
    BY DEF StoreInv, DataTypes
  <1> QED BY <1>1, <1>2 DEF Steady, Owned, Ids

\* A charge that is refused.
LEMMA DenySteady ==
    ASSUME StoreInv, NEW id, Deny(1, id), UNCHANGED <<size, granted, active>>, errors \subseteq errors'
    PROVE  \A d \in Captures : Steady(d)
  <1>1. /\ \A i \in Gone(1, id) : ~Owned(i)
        /\ logical' = [i \in Ids |-> IF i \in Gone(1, id) THEN 0 ELSE logical[i]]
    BY GoneFacts DEF Deny
  <1> QED BY <1>1, EvictionSteady

\* The end of a capture by an error.
LEMMA AbortSteady ==
    ASSUME StoreInv, NEW c \in Captures, NEW keep, NEW gone, \A i \in gone : ~Owned(i), Abort(c, keep, gone),
           c \in errors', errors \subseteq errors', UNCHANGED size,
           \A d \in Captures \ {c} : granted'[d] = granted[d]
    PROVE  \A d \in Captures : Steady(d)
  <1>1. /\ active' = [active EXCEPT ![c] = 0]
        /\ logical' = [i \in Ids |-> IF i \in gone \union {c} THEN 0 ELSE logical[i]]
    BY DEF Abort
  <1> QED BY <1>1 DEF Steady, Owned, Ids, StoreInv, OwnerTypes

\* The steps that open a capture.
LEMMA OpeningSteady ==
    ASSUME StoreInv, NEW c \in Captures, Opening(c), \A s \in StreamSet : ~OpenStream(c, s)
    PROVE  \A d \in Captures : Steady(d)
  <1>1. CASE Start(c) \/ ReadManifest(c) \/ Spare(c) \/ Marked(c) \/ Cleanup(c)
    BY <1>1 DEF Start, ReadManifest, Spare, Marked, Cleanup, Steady, disk, accounts, owners, capture
  <1>2. CASE MarkStale(c)
    BY <1>2, ChargeSteady DEF MarkStale, owners, capture
  <1>3. CASE Admit(c)
    <2>1. PICK gone : /\ \A i \in gone : ~Owned(i)
                      /\ logical' = [i \in Ids |-> IF i \in gone THEN 0 ELSE logical[i]]
      BY <1>3 DEF Admit, Victims, Evictable
    <2> QED BY <1>3, <2>1, EvictionSteady DEF Admit, owners, capture
  <1>4. CASE OpenFails(c)
    <2>1. UNCHANGED <<size, granted, active>> /\ errors \subseteq errors' /\ OpenRefused(c)
      BY <1>4 DEF OpenFails
    <2>2. CASE AuxDenied(look[c])
      BY <2>1, <2>2, DenySteady DEF AuxDenied
    <2>3. CASE UNCHANGED logical
      BY <2>1, <2>3 DEF Steady
    <2>4. CASE logical' = [i \in Ids |-> IF i \in Victims(1, NoId) THEN 0 ELSE logical[i]]
      <3>1. \A i \in Victims(1, NoId) : ~Owned(i)
        BY DEF Victims, Evictable
      <3> QED BY <2>1, <2>4, <3>1, EvictionSteady
    <2> QED BY <2>1, <2>2, <2>3, <2>4 DEF OpenRefused
  <1> QED BY <1>1, <1>2, <1>3, <1>4 DEF Opening

\* The steps that end one.
LEMMA EndingSteady ==
    ASSUME StoreInv, NEW c \in Captures, Ending(c)
    PROVE  \A d \in Captures : Steady(d)
  <1>1. CASE ProcessEnds(c) \/ Saved(c) \/ Release(c)
    BY <1>1 DEF ProcessEnds, Saved, Release, Steady, accounts, owners, capture, disk
  <1>2. CASE SaveManifest(c)
    <2>1. \E for : AuxCharge(c, for, c, "manifest")
      BY <1>2 DEF SaveManifest
    <2> QED BY <1>2, <2>1, ChargeSteady DEF SaveManifest, owners, capture
  <1>3. CASE SaveFails(c)
    <2>1. UNCHANGED <<size, granted, active, errors>> /\ (AuxDenied(c) \/ UNCHANGED logical)
      BY <1>3 DEF SaveFails, owners, capture
    <2>2. CASE AuxDenied(c)
      BY <2>1, <2>2, DenySteady DEF AuxDenied
    <2> QED BY <2>1, <2>2 DEF Steady
  <1>4. CASE Unwind(c)
    <2>1. /\ Abort(c, {}, {}) /\ c \in errors' /\ errors \subseteq errors' /\ UNCHANGED size
          /\ granted' = [granted EXCEPT ![c] = {}]
      BY <1>4 DEF Unwind
    <2>2. \A d \in Captures \ {c} : granted'[d] = granted[d]
      BY <2>1 DEF StoreInv, StreamTypes
    <2> QED BY <2>1, <2>2, AbortSteady
  <1>5. CASE Decide(c)
    <2>1. /\ UNCHANGED <<size, granted, errors>>
          /\ UNCHANGED <<active, logical>> \/ (c \in errors /\ Abort(c, {c}, {}))
      BY <1>5 DEF Decide, accounts
    <2>2. CASE UNCHANGED <<active, logical>>
      BY <2>1, <2>2 DEF Steady
    <2> QED BY <2>1, <2>2, AbortSteady
  <1> QED BY <1>1, <1>2, <1>3, <1>4, <1>5 DEF Ending

\* A close or a write that fails.
LEMMA CloseFailsSteady ==
    ASSUME StoreInv, NEW c \in Captures, NEW s, NEW gone, \A i \in gone : ~Owned(i), CloseFails(c, s, gone),
           granted' = granted \/ granted' = [granted EXCEPT ![c] = @ \ {s}]
    PROVE  \A d \in Captures : Steady(d)
  <1>1. /\ Abort(c, {}, gone) /\ c \in errors' /\ errors \subseteq errors' /\ UNCHANGED size
    BY DEF CloseFails
  <1>2. \A d \in Captures \ {c} : granted'[d] = granted[d]
    BY DEF StoreInv, StreamTypes
  <1> QED BY <1>1, <1>2, AbortSteady

\* The steps of a stream that charge no chunk and write none.
LEMMA CapturingSteady ==
    ASSUME StoreInv, NEW c \in Captures, NEW s \in StreamSet, Capturing(c, s), ~Claim(c, s), ~Write(c, s)
    PROVE  \A d \in Captures : Steady(d)
  <1>0. \A id : \A i \in Gone(1, id) : ~Owned(i)
    BY GoneFacts
  <1>1. CASE ClaimDenied(c, s)
    <2>1. CASE \E gone : CloseFails(c, s, gone) /\ \A i \in gone : ~Owned(i)
      BY <1>1, <2>1, CloseFailsSteady DEF ClaimDenied
    <2>2. CASE Stops(c, s) /\ UNCHANGED owners /\ UNCHANGED <<group, accounts>>
      BY <1>1, <2>2 DEF ClaimDenied, Steady, Stops, owners, accounts
    <2>3. CASE Stops(c, s) /\ UNCHANGED owners /\ Deny(1, c)
      BY <1>1, <2>3, DenySteady DEF ClaimDenied, Stops, owners
    <2> QED BY <1>0, <1>1, <2>1, <2>2, <2>3 DEF ClaimDenied
  <1>2. CASE WriteFails(c, s)
    <2>1. granted' = [granted EXCEPT ![c] = @ \ {s}]
      BY <1>2 DEF WriteFails
    <2>2. CASE CloseFails(c, s, {})
      <3>1. \A i \in {} : ~Owned(i)
        OBVIOUS
      <3>2. \E gone : CloseFails(c, s, gone) /\ \A i \in gone : ~Owned(i)
        BY <2>2, <3>1
      <3>3. PICK gone : CloseFails(c, s, gone) /\ \A i \in gone : ~Owned(i)
        BY <3>2
      <3> QED BY <2>1, <3>3, CloseFailsSteady
    <2>3. CASE Stops(c, s) /\ Refund(c) /\ UNCHANGED owners
      <3>1. /\ c \in errors' /\ errors \subseteq errors' /\ UNCHANGED <<size, active>>
            /\ logical' = [logical EXCEPT ![c] = Monus(@, 1)]
        BY <2>3 DEF Stops, Refund, owners
      <3> QED BY <2>1, <3>1 DEF Steady, StoreInv, StreamTypes, DataTypes, Ids
    <2> QED BY <1>2, <2>2, <2>3 DEF WriteFails
  <1>3. CASE BeginClose(c, s) \/ Unlist(c, s) \/ Digested(c, s)
    BY <1>3 DEF BeginClose, Unlist, Digested, Steady, disk, accounts, owners
  <1>4. CASE Flush(c, s) \/ Digest(c, s)
    <2>1. \E for, name : AuxCharge(c, for, c, name)
      BY <1>4 DEF Flush, Digest
    <2> QED BY <1>4, <2>1, ChargeSteady DEF Flush, Digest, owners
  <1>5. CASE FlushFails(c, s)
    <2>1. UNCHANGED granted /\ \E gone : CloseFails(c, s, gone) /\ \A i \in gone : ~Owned(i)
      BY <1>0, <1>5 DEF FlushFails
    <2> QED BY <2>1, CloseFailsSteady
  <1>6. CASE Finish(c, s)
    <2>1. /\ active' = [active EXCEPT ![c] = Monus(@, 1)] /\ UNCHANGED <<logical, size, granted, errors>>
      BY <1>6 DEF Finish, disk
    <2> QED BY <2>1 DEF Steady, StoreInv, OwnerTypes, Monus, Ids
  <1> QED BY <1>1, <1>2, <1>3, <1>4, <1>5, <1>6 DEF Capturing

\* A stream opens: it has nothing yet.
LEMMA OpenStreamLogical ==
    ASSUME StoreInv, SizesOK, NEW c \in Captures, NEW s \in StreamSet, OpenStream(c, s),
           \A d \in Captures : LogicalOK(d)
    PROVE  \A d \in Captures : LogicalOK(d)'
  <1>1. /\ phase[c] = "enter" /\ stream[c][s] = "none" /\ active' = [active EXCEPT ![c] = @ + 1]
        /\ UNCHANGED <<size, logical, granted, errors>>
    BY DEF OpenStream, IsNext, accounts
  <1>2. ASSUME NEW d \in Captures, d # c \/ active[c] > 0 PROVE LogicalOK(d)'
    <2>1. Steady(d)
      BY <1>1, <1>2 DEF Steady, StoreInv, OwnerTypes, Ids
    <2> QED BY <2>1, SteadyKeeps
  <1>3. ASSUME ~(active[c] > 0) PROVE LogicalOK(c)'
    <2>1. CaptureOK(c) /\ c \in Ids /\ active[c] = 0
      BY <1>3 DEF StoreInv, OwnerTypes, Ids
    <2>2. \A r \in StreamSet : stream[c][r] = "none"
      <3>1. c \notin errors /\ \A r \in StreamSet : stream[c][r] \in {"none", "open"}
        BY <1>1, <2>1 DEF CaptureOK, StagesOK, Early
      <3>2. Cardinality(Counts(c)) = 0
        BY <2>1, <3>1 DEF CaptureOK, OwnersOK
      <3>3. IsFiniteSet(Counts(c))
        BY StreamFacts, FS_Subset DEF Counts
      <3>4. Counts(c) = {}
        BY <3>2, <3>3, FS_EmptySet
      <3> QED BY <3>1, <3>4 DEF Counts, Counted
    <2>3. logical[c] = 0 /\ granted[c] = {} /\ \A r \in StreamSet : size[c][r] = 0
      BY <1>1, <2>1, <2>2 DEF CaptureOK, EndsOK, Vacant, GrantsOK, SizesOK, StoreInv, StreamTypes
    <2>4. Taken(c) = {}
      BY <2>3 DEF Taken
    <2>5. Taken(c)' = {}
      BY <1>1, <2>4 DEF Taken
    <2> QED BY <1>1, <2>3, <2>5, FS_EmptySet, StoreAssumption DEF LogicalOK
  <1> QED BY <1>2, <1>3

\* A chunk is charged: one more is taken.
LEMMA ClaimLogical ==
    ASSUME StoreInv, SizesOK, NEW c \in Captures, NEW s \in StreamSet, Claim(c, s),
           \A d \in Captures : LogicalOK(d)
    PROVE  \A d \in Captures : LogicalOK(d)'
  <1>0. c \in Ids /\ Captures \subseteq Ids
    BY DEF Ids
  <1>1. /\ s \notin granted[c] /\ chunks[c][s] < Chunks /\ logical[c] + 1 <= ArtifactMax
        /\ granted' = [granted EXCEPT ![c] = @ \union {s}]
        /\ UNCHANGED <<size, active, errors>>
        /\ \A i \in Gone(1, c) : ~Owned(i) /\ i # c
        /\ logical' = [i \in Ids |-> IF i \in Gone(1, c) THEN 0
                                    ELSE IF i = c THEN logical[i] + 1 ELSE logical[i]]
    BY GoneFacts DEF Claim, Charge, owners
  <1>2. ASSUME NEW d \in Captures, d # c PROVE LogicalOK(d)'
    <2>1. Steady(d)
      BY <1>0, <1>1, <1>2 DEF Steady, Owned, StoreInv, StreamTypes
    <2> QED BY <2>1, SteadyKeeps
  <1>3. LogicalOK(c)'
    <2> SUFFICES ASSUME active[c] > 0, c \notin errors
                 PROVE  logical'[c] <= ArtifactMax /\ logical'[c] = Cardinality(Taken(c)')
      BY <1>1 DEF LogicalOK
    <2>1. logical'[c] = logical[c] + 1 /\ logical[c] = Cardinality(Taken(c))
      BY <1>0, <1>1 DEF LogicalOK
    <2>2. size[c][s] \in Nat /\ size[c][s] + 1 \in 1..Chunks + 1
      BY <1>0, <1>1, StoreAssumption DEF SizesOK
    <2>3. Taken(c)' = Taken(c) \union {<<s, size[c][s] + 1>>}
      BY <1>1, <2>2 DEF Taken, StoreInv, StreamTypes
    <2>4. <<s, size[c][s] + 1>> \notin Taken(c)
      BY <1>1, <2>2 DEF Taken
    <2>5. IsFiniteSet(Taken(c))
      <3>1. IsFiniteSet(StreamSet \X (1..Chunks + 1))
        <4>1. IsFiniteSet(StreamSet) /\ IsFiniteSet(1..Chunks + 1)
          BY StreamFacts, FS_Interval, StoreAssumption
        <4> QED BY <4>1, FS_Product
      <3> QED BY <3>1, FS_Subset DEF Taken
    <2> QED BY <1>1, <2>1, <2>3, <2>4, <2>5, FS_AddElement
  <1> QED BY <1>2, <1>3

\* A chunk is written: what was about to be written is.
LEMMA WriteLogical ==
    ASSUME StoreInv, SizesOK, NEW c \in Captures, NEW s \in StreamSet, Write(c, s),
           \A d \in Captures : LogicalOK(d)
    PROVE  \A d \in Captures : LogicalOK(d)'
  <1>0. c \in Ids /\ Captures \subseteq Ids
    BY DEF Ids
  <1>1. /\ s \in granted[c] /\ granted' = [granted EXCEPT ![c] = @ \ {s}]
        /\ size' = [size EXCEPT ![c][s] = @ + 1]
        /\ UNCHANGED <<logical, active, errors>>
    BY DEF Write, accounts, owners
  <1>2. ASSUME NEW d \in Captures, d # c PROVE LogicalOK(d)'
    <2>1. Steady(d)
      BY <1>0, <1>1, <1>2 DEF Steady, StoreInv, StreamTypes, SizesOK
    <2> QED BY <2>1, SteadyKeeps
  <1>3. Taken(c)' = Taken(c)
    <2>1. size[c][s] \in Nat /\ \A r \in StreamSet : size[c][r] \in Nat
      BY <1>0, StoreAssumption DEF SizesOK
    <2>2. \A r \in StreamSet : size'[c][r] = IF r = s THEN size[c][r] + 1 ELSE size[c][r]
      BY <1>0, <1>1 DEF SizesOK
    <2>3. \A r \in StreamSet : r \in granted'[c] <=> r \in granted[c] /\ r # s
      BY <1>1 DEF StoreInv, StreamTypes
    <2>4. ASSUME NEW u \in StreamSet \X (1..Chunks + 1)
          PROVE  u[2] <= size'[c][u[1]] \/ (u[2] = size'[c][u[1]] + 1 /\ u[1] \in granted'[c])
                 <=> u[2] <= size[c][u[1]] \/ (u[2] = size[c][u[1]] + 1 /\ u[1] \in granted[c])
      <3>1. u[1] \in StreamSet /\ u[2] \in Nat
        BY <2>4, StoreAssumption
      <3>2. CASE u[1] = s
        <4>1. size'[c][u[1]] = size[c][s] + 1 /\ u[1] \notin granted'[c] /\ u[1] \in granted[c]
          BY <1>1, <2>2, <2>3, <3>1, <3>2
        <4> QED BY <2>1, <3>1, <3>2, <4>1
      <3>3. CASE u[1] # s
        BY <2>2, <2>3, <3>1, <3>3
      <3> QED BY <3>2, <3>3
    <2> QED BY <2>4 DEF Taken
  <1>4. LogicalOK(c)'
    BY <1>1, <1>3 DEF LogicalOK
  <1> QED BY <1>2, <1>4

\* Each step keeps what is charged to artifacts.
LEMMA LogicalStep ==
    ASSUME StoreInv, SizesOK, LogicalIsBytes, [StoreNext]_storeVars
    PROVE  LogicalIsBytes'
  <1>0. \A d \in Captures : LogicalOK(d)
    BY DEF LogicalIsBytes, LogicalOK
  <1>1. (\A d \in Captures : LogicalOK(d)') => LogicalIsBytes'
    BY DEF LogicalIsBytes, LogicalOK
  <1>2. (\A d \in Captures : Steady(d)) => LogicalIsBytes'
    BY <1>0, <1>1, SteadyKeeps
  <1>3. ASSUME NEW c \in Captures, Opening(c) PROVE LogicalIsBytes'
    BY <1>0, <1>1, <1>2, <1>3, OpeningSteady, OpenStreamLogical
  <1>4. ASSUME NEW c \in Captures, Ending(c) PROVE LogicalIsBytes'
    BY <1>2, <1>4, EndingSteady
  <1>5. ASSUME NEW c \in Captures, NEW s \in StreamSet, Capturing(c, s) PROVE LogicalIsBytes'
    BY <1>0, <1>1, <1>2, <1>5, CapturingSteady, ClaimLogical, WriteLogical
  <1>6. CASE AuxReplace \/ Maintain \/ UNCHANGED storeVars \/ \E i \in Ids : ReadPage(i)
    <2>1. UNCHANGED <<size, logical, active, granted, errors>>
      BY <1>6 DEF AuxReplace, Maintain, ReadPage, storeVars, disk, accounts, owners, capture
    <2> QED BY <1>2, <2>1 DEF Steady
  <1> QED BY <1>3, <1>4, <1>5, <1>6 DEF StoreNext

-----------------------------------------------------------------------------
(* The types of the counters, and the order of last use.                    *)

OrderOK(r, S) == r \subseteq Ids \X Ids /\ Strict(r) /\ Compares(r, S)
Present == {i \in Ids : Exists(i)}

CountersOK ==
    /\ usage \in Nat \union {Unknown} /\ scan \in [Captures -> Nat]
    /\ \A i \in Ids : active[i] <= Width
    /\ aux.old \in {0, 1} /\ faults \in 0..Faults

\* Whatever is counted is a number.
LEMMA CountsTyped ==
    ASSUME StoreInv, SizesOK, CountersOK
    PROVE  /\ Total \in Nat /\ \A X \in SUBSET Ids : Bytes(X) \in Nat
           /\ \A id : Gone(1, id) \subseteq Ids /\ Left(1, id) \in Nat
           /\ \A a, b \in Nat : Monus(a, b) \in Nat
  <1>1. \A a, b \in Nat : Monus(a, b) \in Nat
    BY DEF Monus
  <1>2. \A X \in SUBSET Ids : Bytes(X) \in Nat
    BY FutureFinite DEF Bytes
  <1>3. Total \in Nat
    BY <1>2 DEF Total, DiskTotal, CountersOK
  <1>4. \A id : Gone(1, id) \subseteq Ids
    BY GoneFacts
  <1> QED BY <1>1, <1>2, <1>3, <1>4 DEF Left

\* The counters that a step leaves alone.
LEMMA SameCounters ==
    ASSUME StoreInv, CountersOK, usage' \in Nat \union {Unknown}, UNCHANGED <<scan, active>>,
           aux' = aux \/ aux'.old = aux.old \/ aux'.old \in {0, 1}, faults' = faults \/ Fault
    PROVE  CountersOK'
  <1>1. faults' \in 0..Faults
    BY StoreAssumption DEF CountersOK, Fault
  <1> QED BY <1>1 DEF CountersOK

\* A metadata write is charged, or not; it is settled; it fails.
LEMMA AuxChargeCounters ==
    ASSUME StoreInv, SizesOK, CountersOK, NEW by, NEW for, NEW id, NEW name, AuxCharge(by, for, id, name)
    PROVE  usage' \in Nat /\ aux'.old \in {0, 1}
  <1>0. Left(1, id) \in Nat /\ usage' = Left(1, id) + 1
    BY CountsTyped DEF AuxCharge, Charge
  <1>1. usage' \in Nat
    BY <1>0
  <1>2. aux'.old = IF name = "manifest" /\ manifest[id] # "none" THEN 1 ELSE 0
    BY DEF AuxCharge
  <1> QED BY <1>1, <1>2
LEMMA AuxDeniedCounters ==
    ASSUME StoreInv, SizesOK, CountersOK, NEW id, AuxDenied(id)
    PROVE  usage' \in Nat /\ aux' = aux /\ faults' = faults
  BY CountsTyped DEF AuxDenied, Deny
LEMMA AuxSettleCounters ==
    ASSUME StoreInv, SizesOK, CountersOK, NEW by, NEW for, AuxSettle(by, for)
    PROVE  usage' \in Nat /\ aux'.old \in {0, 1}
  BY CountsTyped DEF AuxSettle, CountersOK, Free

\* A capture that opens keeps the counters.
LEMMA OpeningCounters ==
    ASSUME StoreInv, SizesOK, CountersOK, NEW c \in Captures, Opening(c)
    PROVE  CountersOK'
  <1>0. usage \in Nat \union {Unknown} /\ active \in [Ids -> Nat] /\ scan \in [Captures -> Nat]
    BY DEF StoreInv, OwnerTypes, CountersOK
  <1>1. CASE Start(c) \/ ReadManifest(c) \/ Spare(c)
    BY <1>0, <1>1, SameCounters DEF Start, ReadManifest, Spare, accounts, owners, Fault
  <1>2. CASE MarkStale(c)
    BY <1>2, AuxChargeCounters, SameCounters DEF MarkStale, prepare, owners, Fault
  <1>3. CASE Marked(c)
    BY <1>3, AuxSettleCounters, SameCounters DEF Marked, owners, Fault
  <1>4. CASE Cleanup(c)
    <2>1. PICK expired \in SUBSET Deletable :
            Evict(expired) /\ scan' = [scan EXCEPT ![c] = DiskTotal - Bytes(expired)]
      BY <1>4 DEF Cleanup
    <2>2. /\ UNCHANGED <<size, active, aux, faults>> /\ usage' = Unknown
      BY <1>4 DEF Cleanup, owners
    <2>3. expired \in SUBSET Ids
      BY DEF Deletable
    <2>4. /\ Cardinality(Stored(Ids)') = DiskTotal - Bytes(expired)
          /\ DiskTotal \in Nat /\ Bytes(expired) \in Nat /\ Bytes(expired) <= DiskTotal
      <3>1. Stored(expired) \subseteq Stored(Ids) /\ Stored(Ids) \subseteq Units
        BY <2>3, FutureFinite
      <3> QED BY <2>1, <2>2, <2>3, <3>1, EvictUnits, FutureFinite DEF Bytes, DiskTotal
    <2>5. scan' \in [Captures -> Nat]
      BY <1>0, <2>1, <2>4
    <2> QED BY <1>0, <2>2, <2>5 DEF CountersOK
  <1>5. CASE Admit(c)
    <2>1. /\ UNCHANGED <<active, aux, faults>> /\ scan' = [scan EXCEPT ![c] = 0]
          /\ \E gone \in SUBSET Ids : usage' = Monus(scan[c], Bytes(gone))
      BY <1>5 DEF Admit, owners, Victims
    <2>2. usage' \in Nat
      BY <1>0, <2>1, CountsTyped
    <2> QED BY <1>0, <2>1, <2>2 DEF CountersOK
  <1>6. CASE OpenFails(c)
    <2>1. UNCHANGED <<active, scan>> /\ OpenRefused(c)
      BY <1>6 DEF OpenFails
    <2>2. CASE AuxDenied(look[c])
      BY <2>1, <2>2, AuxDeniedCounters, SameCounters
    <2>3. CASE AuxFails(c, "failed") /\ usage' = Unknown
      BY <2>1, <2>3, SameCounters DEF AuxFails, Free
    <2>4. CASE usage' = Monus(scan[c], Bytes(Victims(1, NoId))) /\ UNCHANGED <<aux, faults>>
      <3>1. usage' \in Nat
        BY <1>0, <2>4, CountsTyped DEF Victims
      <3> QED BY <2>1, <2>4, <3>1, SameCounters
    <2>5. CASE Fault /\ usage' = Unknown /\ UNCHANGED aux
      BY <2>1, <2>5, SameCounters
    <2> QED BY <2>1, <2>2, <2>3, <2>4, <2>5 DEF OpenRefused
  <1>7. ASSUME NEW s \in StreamSet, OpenStream(c, s) PROVE CountersOK'
    <2>1. /\ phase[c] = "enter" /\ stream[c][s] = "none"
          /\ active' = [active EXCEPT ![c] = @ + 1] /\ UNCHANGED <<usage, scan, aux, faults>>
      BY <1>7 DEF OpenStream, IsNext, accounts
    <2>2. c \in Ids /\ CaptureOK(c)
      BY DEF Ids, StoreInv
    <2>3. active[c] = Cardinality(Counts(c)) /\ s \notin Counts(c)
      BY <2>1, <2>2 DEF CaptureOK, OwnersOK, StagesOK, Early, Counts, Counted
    <2>4. Cardinality(Counts(c) \union {s}) = Cardinality(Counts(c)) + 1
          /\ Cardinality(Counts(c) \union {s}) <= Width
      <3>1. Counts(c) \union {s} \in SUBSET StreamSet /\ Counts(c) \in SUBSET StreamSet
        BY DEF Counts
      <3>2. IsFiniteSet(Counts(c))
        BY <3>1, StreamFacts, FS_Subset
      <3>3. Cardinality(Counts(c) \union {s}) <= Width
        BY <3>1, StreamFacts, FS_Subset DEF Width
      <3> QED BY <2>3, <3>2, <3>3, FS_AddElement
    <2> QED BY <1>0, <2>1, <2>2, <2>3, <2>4 DEF CountersOK
  <1> QED BY <1>1, <1>2, <1>3, <1>4, <1>5, <1>6, <1>7 DEF Opening

\* The end of a capture by an error gives back all it counted.
LEMMA AbortCounters ==
    ASSUME StoreInv, CountersOK, NEW c \in Captures, NEW keep, NEW gone, Abort(c, keep, gone),
           UNCHANGED scan, aux' = aux \/ aux'.old \in {0, 1}, faults' = faults \/ Fault
    PROVE  CountersOK'
  <1>1. faults' \in 0..Faults
    BY StoreAssumption DEF CountersOK, Fault
  <1>2. usage' = Unknown /\ active' = [active EXCEPT ![c] = 0]
    BY DEF Abort
  <1>3. \A i \in Ids : active'[i] <= Width
    BY <1>2, UnitsFinite DEF CountersOK, StoreInv, OwnerTypes
  <1> QED BY <1>1, <1>2, <1>3 DEF CountersOK

\* So do the steps that end a capture,
LEMMA EndingCounters ==
    ASSUME StoreInv, SizesOK, CountersOK, NEW c \in Captures, Ending(c)
    PROVE  CountersOK'
  <1>0. usage \in Nat \union {Unknown}
    BY DEF CountersOK
  <1>1. CASE ProcessEnds(c) \/ Release(c)
    BY <1>0, <1>1, SameCounters DEF ProcessEnds, Release, accounts, owners, prepare
  <1>2. CASE SaveManifest(c)
    <2>1. \E for : AuxCharge(c, for, c, "manifest")
      BY <1>2 DEF SaveManifest
    <2> QED BY <1>2, <2>1, AuxChargeCounters, SameCounters DEF SaveManifest, owners, prepare
  <1>3. CASE Saved(c)
    BY <1>3, AuxSettleCounters, SameCounters DEF Saved, owners, prepare
  <1>4. CASE SaveFails(c)
    <2>1. UNCHANGED <<active, scan>>
      BY <1>4 DEF SaveFails, owners, prepare
    <2>2. CASE AuxDenied(c)
      BY <2>1, <2>2, AuxDeniedCounters, SameCounters
    <2>3. CASE AuxFails(c, aux.for) /\ usage' = Unknown
      BY <2>1, <2>3, SameCounters DEF AuxFails, Free
    <2> QED BY <1>4, <2>2, <2>3 DEF SaveFails
  <1>5. CASE Unwind(c)
    BY <1>5, AbortCounters DEF Unwind, prepare
  <1>6. CASE Decide(c)
    <2>1. UNCHANGED <<scan, aux, faults>> /\ (Abort(c, {c}, {}) \/ UNCHANGED <<active, usage>>)
      BY <1>6 DEF Decide, prepare, accounts
    <2> QED BY <1>0, <2>1, AbortCounters, SameCounters
  <1> QED BY <1>1, <1>2, <1>3, <1>4, <1>5, <1>6 DEF Ending

\* and those of a stream.
LEMMA CapturingCounters ==
    ASSUME StoreInv, SizesOK, CountersOK, NEW c \in Captures, NEW s \in StreamSet, Capturing(c, s)
    PROVE  CountersOK'
  <1>0. usage \in Nat \union {Unknown}
    BY DEF CountersOK
  <1>1. CASE Claim(c, s)
    <2>1. usage' \in Nat
      BY <1>1, CountsTyped DEF Claim, Charge
    <2> QED BY <1>1, <2>1, SameCounters DEF Claim, owners, prepare
  <1>2. CASE ClaimDenied(c, s)
    <2>1. CASE \E gone : CloseFails(c, s, gone)
      BY <1>2, <2>1, AbortCounters DEF ClaimDenied, CloseFails, prepare
    <2>2. CASE Stops(c, s) /\ UNCHANGED owners
      <3>1. usage' \in Nat \union {Unknown}
        <4>1. UNCHANGED accounts \/ Deny(1, c) \/ usage' = Unknown
          BY <1>2 DEF ClaimDenied, CloseFails, Abort
        <4> QED BY <1>0, <4>1, CountsTyped DEF Deny, accounts
      <3> QED BY <1>2, <2>2, <3>1, SameCounters DEF ClaimDenied, Stops, owners, prepare
    <2> QED BY <1>2, <2>1, <2>2 DEF ClaimDenied
  <1>3. CASE Write(c, s) \/ BeginClose(c, s)
    BY <1>0, <1>3, SameCounters DEF Write, BeginClose, accounts, owners, prepare
  <1>4. CASE WriteFails(c, s)
    <2>1. CASE CloseFails(c, s, {})
      BY <1>4, <2>1, AbortCounters DEF WriteFails, CloseFails, prepare
    <2>2. CASE Stops(c, s) /\ Refund(c) /\ UNCHANGED owners
      <3>1. usage' \in Nat
        BY <2>2, CountsTyped DEF Refund
      <3> QED BY <1>4, <2>2, <3>1, SameCounters DEF WriteFails, Stops, owners, prepare
    <2> QED BY <1>4, <2>1, <2>2 DEF WriteFails
  <1>5. CASE Flush(c, s) \/ Digest(c, s)
    <2>1. \E for, name : AuxCharge(c, for, c, name)
      BY <1>5 DEF Flush, Digest
    <2> QED BY <1>5, <2>1, AuxChargeCounters, SameCounters DEF Flush, Digest, owners, prepare
  <1>6. CASE FlushFails(c, s)
    <2>1. PICK gone : CloseFails(c, s, gone)
      BY <1>6 DEF FlushFails
    <2>2. /\ aux' = aux \/ aux' = Free
          /\ faults' = faults \/ Fault
      BY <1>6 DEF FlushFails, AuxFails
    <2> QED BY <2>1, <2>2, AbortCounters DEF CloseFails, prepare, Free
  <1>7. CASE Unlist(c, s)
    BY <1>7, AuxSettleCounters, SameCounters DEF Unlist, owners, prepare
  <1>8. CASE Finish(c, s)
    <2>1. /\ active' = [active EXCEPT ![c] = Monus(@, 1)] /\ usage' = Unknown /\ UNCHANGED <<scan, aux, faults>>
      BY <1>8 DEF Finish, prepare
    <2>2. \A i \in Ids : active[i] \in Nat /\ active[i] <= Width
      BY DEF StoreInv, OwnerTypes, CountersOK
    <2>3. \A i \in Ids : active'[i] <= Width
      BY <2>1, <2>2, UnitsFinite DEF Monus, StoreInv, OwnerTypes
    <2> QED BY <2>1, <2>3 DEF CountersOK
  <1>9. CASE Digested(c, s)
    BY <1>9, SameCounters DEF Digested, owners, prepare, Free
  <1> QED BY <1>1, <1>2, <1>3, <1>4, <1>5, <1>6, <1>7, <1>8, <1>9 DEF Capturing

\* Every step keeps the counters.
LEMMA CountersStep ==
    ASSUME StoreInv, SizesOK, CountersOK, [StoreNext]_storeVars
    PROVE  CountersOK'
  <1>1. CASE AuxReplace \/ Maintain \/ UNCHANGED storeVars \/ \E i \in Ids : ReadPage(i)
    <2>1. /\ UNCHANGED <<scan, active, faults>> /\ (usage' = usage \/ usage' = Unknown)
          /\ aux' = aux \/ aux' = [aux EXCEPT !.done = TRUE]
      BY <1>1 DEF AuxReplace, Maintain, ReadPage, storeVars, accounts, owners, prepare
    <2>2. aux'.old = aux.old
      BY <2>1 DEF StoreInv, AuxTypes
    <2>3. usage' \in Nat \union {Unknown}
      BY <2>1 DEF CountersOK
    <2> QED BY <2>1, <2>2, <2>3, SameCounters
  <1> QED BY <1>1, OpeningCounters, EndingCounters, CapturingCounters DEF StoreNext


\* A step that adds no file and no manifest, and changes no length.
Shrinks ==
    /\ UNCHANGED size
    /\ \A i \in Ids : files'[i] \subseteq files[i] /\ (manifest'[i] # "none" => manifest[i] # "none")

\* Deletions and evictions are of this kind, and so is a step that leaves the files alone.
LEMMA DeleteShrinks ==
    ASSUME NEW gone, NEW of, NEW keep, Delete(gone, of, keep), UNCHANGED size
    PROVE  Shrinks
  BY DEF Delete, Shrinks
LEMMA EvictShrinks ==
    ASSUME NEW gone, Evict(gone), UNCHANGED size
    PROVE  Shrinks
  BY DeleteShrinks DEF Evict
LEMMA SameShrinks ==
    ASSUME UNCHANGED <<files, manifest, size>>
    PROVE  Shrinks
  BY DEF Shrinks

\* All steps but four are, and those leave the order of last use alone.
LEMMA OpeningShrinks ==
    ASSUME NEW c \in Captures, Opening(c), \A s \in StreamSet : ~OpenStream(c, s)
    PROVE  Shrinks /\ UNCHANGED recent
  <1>1. CASE Start(c) \/ ReadManifest(c) \/ Spare(c) \/ Marked(c)
    BY <1>1, SameShrinks DEF Start, ReadManifest, Spare, Marked, disk, group
  <1>2. CASE MarkStale(c)
    BY <1>2, EvictShrinks DEF MarkStale, AuxCharge, Charge
  <1>3. CASE Cleanup(c) \/ Admit(c)
    BY <1>3, EvictShrinks DEF Cleanup, Admit
  <1>4. CASE OpenFails(c)
    <2>1. UNCHANGED <<size, recent>> /\ OpenRefused(c)
      BY <1>4 DEF OpenFails
    <2>2. UNCHANGED group \/ \E gone : Evict(gone)
      BY <2>1 DEF OpenRefused, AuxDenied, Deny
    <2> QED BY <2>1, <2>2, EvictShrinks, SameShrinks DEF group
  <1> QED BY <1>1, <1>2, <1>3, <1>4 DEF Opening
LEMMA EndingShrinks ==
    ASSUME NEW c \in Captures, Ending(c)
    PROVE  Shrinks /\ UNCHANGED recent
  <1>1. CASE ProcessEnds(c) \/ Saved(c) \/ Release(c)
    BY <1>1, SameShrinks DEF ProcessEnds, Saved, Release, disk, group
  <1>2. CASE SaveManifest(c)
    BY <1>2, EvictShrinks DEF SaveManifest, AuxCharge, Charge
  <1>3. CASE SaveFails(c)
    <2>1. UNCHANGED <<size, recent>> /\ (UNCHANGED group \/ \E gone : Evict(gone))
      BY <1>3 DEF SaveFails, AuxDenied, Deny
    <2> QED BY <2>1, EvictShrinks, SameShrinks DEF group
  <1>4. CASE Unwind(c) \/ Decide(c)
    <2>1. UNCHANGED <<size, recent>> /\ (UNCHANGED group \/ \E keep, gone : Delete(gone, {c}, keep))
      BY <1>4 DEF Unwind, Decide, Abort
    <2> QED BY <2>1, DeleteShrinks, SameShrinks DEF group
  <1> QED BY <1>1, <1>2, <1>3, <1>4 DEF Ending
LEMMA CapturingShrinks ==
    ASSUME NEW c \in Captures, NEW s \in StreamSet, Capturing(c, s), ~Write(c, s)
    PROVE  Shrinks /\ UNCHANGED recent
  <1>1. CASE BeginClose(c, s) \/ Unlist(c, s) \/ Finish(c, s) \/ Digested(c, s)
    BY <1>1, SameShrinks DEF BeginClose, Unlist, Finish, Digested, disk, group
  <1>2. CASE Claim(c, s) \/ Flush(c, s) \/ Digest(c, s)
    BY <1>2, EvictShrinks DEF Claim, Flush, Digest, AuxCharge, Charge
  <1>3. CASE ClaimDenied(c, s) \/ WriteFails(c, s) \/ FlushFails(c, s)
    <2>1. /\ UNCHANGED <<size, recent>>
          /\ UNCHANGED group \/ (\E gone : Evict(gone)) \/ \E gone : Delete(gone, {c}, {})
      BY <1>3 DEF ClaimDenied, WriteFails, FlushFails, Stops, CloseFails, Abort, Deny
    <2> QED BY <2>1, DeleteShrinks, EvictShrinks, SameShrinks DEF group
  <1> QED BY <1>1, <1>2, <1>3 DEF Capturing

\* The four use an artifact that is there, or bring one.
LEMMA TouchOrders ==
    ASSUME NEW S \in SUBSET Ids, OrderOK(recent, S), NEW i \in Ids, NEW T, T \subseteq S \union {i}
    PROVE  OrderOK(Touch(i), T)
  <1>1. Touch(i) \subseteq Ids \X Ids
    BY DEF Touch, OrderOK
  <1>2. \A a, b \in Ids : <<a, b>> \in Touch(i) <=> (<<a, b>> \in recent /\ a # i /\ b # i) \/ (a # i /\ b = i)
    BY DEF Touch, OrderOK
  <1>3. Strict(Touch(i))
    BY <1>2 DEF OrderOK, Strict
  <1>4. Compares(Touch(i), T)
    <2> SUFFICES ASSUME NEW a \in T, NEW b \in T PROVE a = b \/ <<a, b>> \in Touch(i) \/ <<b, a>> \in Touch(i)
      BY DEF Compares
    <2>1. a \in Ids /\ b \in Ids
      OBVIOUS
    <2> QED BY <1>2, <2>1 DEF OrderOK, Compares
  <1> QED BY <1>1, <1>3, <1>4 DEF OrderOK
LEMMA ShrinkOrders ==
    ASSUME OrderOK(recent, Present), Shrinks, UNCHANGED recent
    PROVE  OrderOK(recent', Present')
  <1>1. Present' \subseteq Present
    BY DEF Present, Exists, Shrinks
  <1> QED BY <1>1 DEF OrderOK, Compares
LEMMA OrderStep ==
    ASSUME StoreInv, OrderOK(recent, Present), [StoreNext]_storeVars
    PROVE  OrderOK(recent', Present')
  <1>0. Present \in SUBSET Ids /\ Captures \subseteq Ids
    BY DEF Present, Ids
  <1>1. ASSUME NEW i \in Ids, recent' = Touch(i),
               \A j \in Ids : j # i => files'[j] = files[j] /\ manifest'[j] = manifest[j]
        PROVE  OrderOK(recent', Present')
    <2>1. Present' \subseteq Present \union {i}
      BY <1>1 DEF Present, Exists
    <2> QED BY <1>0, <1>1, <2>1, TouchOrders
  <1>2. ASSUME NEW c \in Captures, NEW s \in StreamSet, OpenStream(c, s) PROVE OrderOK(recent', Present')
    <2>1. recent' = Touch(c) /\ files' = [files EXCEPT ![c] = @ \union {s}] /\ UNCHANGED manifest
      BY <1>2 DEF OpenStream
    <2>2. \A j \in Ids : j # c => files'[j] = files[j]
      BY <2>1 DEF StoreInv, DataTypes
    <2> QED BY <1>0, <1>1, <2>1, <2>2
  <1>3. ASSUME NEW c \in Captures, NEW s \in StreamSet, Write(c, s) PROVE OrderOK(recent', Present')
    BY <1>0, <1>1, <1>3 DEF Write
  <1>4. ASSUME NEW i \in Ids, ReadPage(i) PROVE OrderOK(recent', Present')
    BY <1>1, <1>4 DEF ReadPage
  <1>5. CASE AuxReplace
    <2>1. aux.by \in Captures /\ aux.id \in Ids
      BY <1>5 DEF AuxReplace, StoreInv, AuxTypes, CaptureOK, HoldsOK, LookOK, Ids, Captures
    <2>2. /\ recent' = Touch(aux.id)
          /\ \/ manifest' = [manifest EXCEPT ![aux.id] = aux.for] /\ UNCHANGED files
             \/ files' = [files EXCEPT ![aux.id] = @ \union {AuxName}] /\ UNCHANGED manifest
      BY <1>5 DEF AuxReplace
    <2>3. \A j \in Ids : j # aux.id => files'[j] = files[j] /\ manifest'[j] = manifest[j]
      BY <2>1, <2>2 DEF StoreInv, DataTypes
    <2> QED BY <1>1, <2>1, <2>2, <2>3
  <1>6. CASE Maintain
    BY <1>6, EvictShrinks, ShrinkOrders DEF Maintain
  <1>7. CASE UNCHANGED storeVars
    BY <1>7, SameShrinks, ShrinkOrders DEF storeVars, disk, group
  <1>8. ASSUME NEW c \in Captures, Opening(c) PROVE OrderOK(recent', Present')
    BY <1>2, <1>8, OpeningShrinks, ShrinkOrders
  <1>9. ASSUME NEW c \in Captures, Ending(c) PROVE OrderOK(recent', Present')
    BY <1>9, EndingShrinks, ShrinkOrders
  <1>10. ASSUME NEW c \in Captures, NEW s \in StreamSet, Capturing(c, s) PROVE OrderOK(recent', Present')
    BY <1>3, <1>10, CapturingShrinks, ShrinkOrders
  <1> QED BY <1>4, <1>5, <1>6, <1>7, <1>8, <1>9, <1>10 DEF StoreNext

-----------------------------------------------------------------------------
(* One capture runs: its phases and its metadata writes.                    *)

Only(c) == \A d \in Captures \ {c} : phase[d] = "idle"

\* Where the steps of a capture lead.
MovesOK(c) ==
    /\ \A d \in Captures \ {c} : phase'[d] = phase[d]
    /\ phase'[c] # "idle"
    /\ phase'[c] = "judge" => ReadManifest(c)
    /\ phase'[c] = "scanned" => Cleanup(c)
    /\ phase'[c] = "enter" => Admit(c)

\* They lead there.
LEMMA OpeningMoves ==
    ASSUME StoreInv, NEW c \in Captures, Opening(c)
    PROVE  MovesOK(c)
  <1>0. phase \in [Captures -> Phases]
    BY DEF StoreInv, ThreadTypes
  <1>1. ASSUME NEW to \in Phases \ {"idle", "judge", "scanned", "enter"}, phase' = [phase EXCEPT ![c] = to]
        PROVE  MovesOK(c)
    BY <1>0, <1>1 DEF MovesOK
  <1>2. CASE Start(c) \/ Spare(c) \/ MarkStale(c) \/ Marked(c)
    BY <1>1, <1>2 DEF Start, Spare, MarkStale, Marked, Advance, SetPhase, Phases
  <1>3. CASE OpenFails(c)
    BY <1>1, <1>3 DEF OpenFails, SetPhase, Phases
  <1>4. CASE \E s \in StreamSet : OpenStream(c, s)
    BY <1>1, <1>4 DEF OpenStream, SetPhase, Phases
  <1>5. CASE ReadManifest(c)
    BY <1>0, <1>5 DEF MovesOK, ReadManifest, SetPhase
  <1>6. CASE Cleanup(c)
    BY <1>0, <1>6 DEF MovesOK, Cleanup, Advance, SetPhase
  <1>7. CASE Admit(c)
    BY <1>0, <1>7 DEF MovesOK, Admit, Advance, SetPhase
  <1> QED BY <1>2, <1>3, <1>4, <1>5, <1>6, <1>7 DEF Opening
LEMMA EndingMoves ==
    ASSUME StoreInv, NEW c \in Captures, Ending(c)
    PROVE  MovesOK(c)
  <1>0. phase \in [Captures -> Phases]
    BY DEF StoreInv, ThreadTypes
  <1>1. ASSUME NEW to \in Phases \ {"idle", "judge", "scanned", "enter"}, phase' = [phase EXCEPT ![c] = to]
        PROVE  MovesOK(c)
    BY <1>0, <1>1 DEF MovesOK
  <1>2. CASE ProcessEnds(c) \/ Saved(c) \/ Unwind(c) \/ Decide(c) \/ Release(c)
    BY <1>1, <1>2 DEF ProcessEnds, Saved, Unwind, Decide, Release, Advance, SetPhase, Phases
  <1>3. CASE SaveManifest(c)
    <2>1. phase[c] \in {"register", "close", "publish"}
      BY <1>3 DEF SaveManifest
    <2>2. \E to \in {"registering", "saving", "publishing"} : phase' = [phase EXCEPT ![c] = to]
      BY <1>3, <2>1 DEF SaveManifest, SetPhase
    <2> QED BY <1>1, <2>2 DEF Phases
  <1>4. CASE SaveFails(c)
    BY <1>1, <1>4 DEF SaveFails, SetPhase, Phases
  <1> QED BY <1>2, <1>3, <1>4 DEF Ending
LEMMA CapturingMoves ==
    ASSUME StoreInv, NEW c \in Captures, NEW s \in StreamSet, Capturing(c, s)
    PROVE  MovesOK(c) /\ UNCHANGED <<phase, look, scan>> /\ phase[c] \in {"capture", "close"}
  <1>1. phase[c] \in {"capture", "close"}
    BY RunningStream DEF Capturing, Claim, ClaimDenied, Write, WriteFails, BeginClose, Flush,
       FlushFails, Unlist, Finish, Digest, Digested, Writing, AuxFails
  <1>2. UNCHANGED <<phase, look, scan>>
    BY DEF Capturing, Claim, ClaimDenied, Write, WriteFails, BeginClose, Flush, FlushFails,
       Unlist, Finish, Digest, Digested, CloseFails, Stops, prepare
  <1> QED BY <1>1, <1>2 DEF MovesOK

\* When one capture runs after its step, it was the only one before.
LEMMA OneRuns ==
    ASSUME NEW c \in Captures, MovesOK(c), Alone'
    PROVE  Only(c) /\ Only(c)' /\ Alone
  BY DEF Only, Alone, MovesOK

\* The one that runs is the one that holds _aux_lock and has chunks on their way.
LEMMA OthersRest ==
    ASSUME StoreInv, NEW c \in Captures, Only(c)
    PROVE  /\ aux.by \in {NoId, c}
           /\ \A d \in Captures \ {c} : granted[d] = {}
           /\ aux.by = c => phase[c] \notin Early \ {"mark"}
  <1>1. aux.by \in Captures \union {NoId}
    BY DEF StoreInv, AuxTypes
  <1>2. ASSUME NEW d \in Captures, aux.by = d PROVE phase[d] \notin Early \ {"mark"}
    <2>1. \/ phase[d] \in {"mark", "registering", "saving", "publishing"}
          \/ \E s \in StreamSet : stream[d][s] \in {"sidecar", "writing"}
      BY <1>2 DEF StoreInv, CaptureOK, HoldsOK
    <2> QED BY <2>1, RunningStream DEF Early
  <1> QED BY <1>1, <1>2 DEF Only, StoreInv, CaptureOK, GrantsOK, Early

\* What the length that a replacement gives back is about.
AuxOK ==
    /\ aux.by = NoId => aux.old = 0
    /\ aux.old = 1 => phase[aux.by] \in {"mark", "publishing"}
    /\ aux.by # NoId /\ ~aux.done /\ aux.old = 1 => manifest[aux.id] = "running"
    /\ \A c \in Captures : phase[c] = "judge" => manifest[look[c]] = "running"

\* Where it is, the old manifest is in progress.
LEMMA OldAux ==
    ASSUME StoreInv, CountersOK, AuxOK, NEW c \in Captures, Only(c), aux.old # 0
    PROVE  aux.old = 1 /\ aux.by = c /\ phase[c] \in {"mark", "publishing"}
  <1>1. aux.old = 1 /\ aux.by # NoId
    BY DEF CountersOK, AuxOK
  <1>2. aux.by = c
    BY <1>1, OthersRest
  <1> QED BY <1>1, <1>2 DEF AuxOK

\* A step that leaves nothing to give back, and reads no manifest.
LEMMA PlainAux ==
    ASSUME NEW c \in Captures, Only(c)', aux'.old = 0, phase'[c] # "judge"
    PROVE  AuxOK'
  BY DEF AuxOK, Only
LEMMA SameAux ==
    ASSUME StoreInv, CountersOK, AuxOK, NEW c \in Captures, Only(c), Only(c)', aux' = aux \/ aux' = Free,
           phase[c] \notin {"mark", "publishing"} \/ aux' = Free, phase'[c] # "judge"
    PROVE  AuxOK'
  <1>1. aux'.old = 0
    BY OldAux DEF Free
  <1> QED BY <1>1, PlainAux

\* A metadata write is charged for a manifest in progress, or for nothing that is there.
LEMMA ChargeAux ==
    ASSUME StoreInv, NEW c \in Captures, Only(c)', NEW for, NEW id \in Ids, NEW name,
           AuxCharge(c, for, id, name), phase'[c] # "judge",
           \/ name # "manifest" \/ manifest[id] = "none"
           \/ manifest[id] = "running" /\ phase'[c] \in {"mark", "publishing"}
    PROVE  AuxOK'
  <1>1. /\ aux'.by = c /\ aux'.id = id
        /\ aux'.old = IF name = "manifest" /\ manifest[id] # "none" THEN 1 ELSE 0
    BY DEF AuxCharge
  <1>2. CASE aux'.old = 0
    BY <1>2, PlainAux
  <1>3. CASE aux'.old = 1
    <2>1. manifest[id] = "running" /\ phase'[c] \in {"mark", "publishing"}
      BY <1>1, <1>3
    <2>2. manifest'[id] = manifest[id]
      BY GoneFacts DEF AuxCharge, Charge, Evict, Delete
    <2>3. c # NoId
      BY StoreAssumption DEF Ids
    <2> QED BY <1>1, <1>3, <2>1, <2>2, <2>3 DEF AuxOK, Only
  <1> QED BY <1>1, <1>2, <1>3

\* Each step of the one that runs keeps this.
LEMMA OpeningAux ==
    ASSUME StoreInv, CountersOK, AuxOK, NEW c \in Captures, Opening(c), Only(c), Only(c)'
    PROVE  AuxOK'
  <1>0. MovesOK(c) /\ CaptureOK(c) /\ c \in Ids
    BY OpeningMoves DEF StoreInv, Ids
  <1>1. CASE Start(c) \/ Spare(c) \/ Cleanup(c) \/ Admit(c) \/ \E s \in StreamSet : OpenStream(c, s)
    <2>1. aux' = aux /\ phase[c] \notin {"mark", "publishing"} /\ phase'[c] # "judge"
      <3>1. aux' = aux /\ phase[c] \notin {"mark", "publishing"}
        BY <1>1 DEF Start, Spare, Cleanup, Admit, OpenStream, Advance
      <3>2. phase'[c] \in {"reconcile", "scanned", "enter", "register", "capture"}
        BY <1>1 DEF Start, Spare, Cleanup, Admit, OpenStream, Advance, SetPhase, StoreInv, ThreadTypes
      <3> QED BY <3>1, <3>2
    <2> QED BY <2>1, SameAux
  <1>2. CASE Marked(c)
    <2>1. aux' = Free /\ phase'[c] = "reconcile"
      BY <1>2 DEF Marked, AuxSettle, Advance, SetPhase, StoreInv, ThreadTypes
    <2> QED BY <2>1, SameAux
  <1>3. CASE MarkStale(c)
    <2>1. /\ phase[c] = "judge" /\ phase'[c] = "mark" /\ AuxCharge(c, "failed", look[c], "manifest")
      BY <1>3 DEF MarkStale, Advance, SetPhase, StoreInv, ThreadTypes
    <2>2. look[c] \in Ids /\ manifest[look[c]] = "running"
      BY <1>0, <2>1 DEF CaptureOK, LookOK, AuxOK, Ids, Captures
    <2> QED BY <2>1, <2>2, ChargeAux
  <1>4. CASE OpenFails(c)
    <2>1. phase'[c] # "judge"
      BY <1>4 DEF OpenFails, SetPhase, StoreInv, ThreadTypes
    <2>2. aux' = aux \/ aux' = Free
      BY <1>4 DEF OpenFails, OpenRefused, AuxDenied, AuxFails
    <2>3. phase[c] \notin {"mark", "publishing"} \/ aux' = Free
      BY <1>4 DEF OpenFails, OpenRefused, AuxFails
    <2> QED BY <2>1, <2>2, <2>3, SameAux
  <1>5. CASE ReadManifest(c)
    <2>1. phase[c] = "reconcile" /\ UNCHANGED <<aux, manifest>>
      BY <1>5 DEF ReadManifest, disk, group
    <2>2. aux'.old = 0 /\ aux.by = NoId
      BY <2>1, OldAux, OthersRest DEF Early
    <2>3. phase'[c] = "judge" => manifest[look'[c]] = "running"
      BY <1>5 DEF ReadManifest, SetPhase, StoreInv, ThreadTypes
    <2> QED BY <2>1, <2>2, <2>3 DEF AuxOK, Only
  <1> QED BY <1>1, <1>2, <1>3, <1>4, <1>5 DEF Opening
LEMMA EndingAux ==
    ASSUME StoreInv, CountersOK, AuxOK, NEW c \in Captures, Ending(c), Only(c), Only(c)'
    PROVE  AuxOK'
  <1>0. CaptureOK(c) /\ c \in Ids /\ phase'[c] # "judge"
    <2>1. MovesOK(c)
      BY EndingMoves
    <2>2. phase'[c] = "judge" => phase[c] = "reconcile"
      BY <2>1 DEF MovesOK, ReadManifest
    <2> QED BY <2>2, EndingMoves DEF StoreInv, Ids, Ending, ProcessEnds, SaveManifest, Saved, SaveFails,
            Unwind, Decide, Release, Advance
  <1>1. CASE ProcessEnds(c) \/ Unwind(c) \/ Decide(c) \/ Release(c)
    <2>1. aux' = aux /\ phase[c] \notin {"mark", "publishing"}
      BY <1>1 DEF ProcessEnds, Unwind, Decide, Release, Advance
    <2> QED BY <1>0, <2>1, SameAux
  <1>2. CASE Saved(c)
    BY <1>0, <1>2, SameAux DEF Saved, AuxSettle
  <1>3. CASE SaveFails(c)
    BY <1>0, <1>3, SameAux DEF SaveFails, AuxFails, AuxDenied
  <1>4. CASE SaveManifest(c)
    <2>1. PICK for : AuxCharge(c, for, c, "manifest")
      BY <1>4 DEF SaveManifest
    <2>2. CASE phase[c] = "publish"
      <3>1. phase'[c] = "publishing"
        BY <1>4, <2>2 DEF SaveManifest, SetPhase, StoreInv, ThreadTypes
      <3>2. manifest[c] \in {"none", "running"}
        BY <1>0, <2>2 DEF CaptureOK, StatusOK
      <3> QED BY <1>0, <2>1, <3>1, <3>2, ChargeAux
    <2>3. CASE phase[c] # "publish"
      <3>1. manifest[c] = "none"
        BY <1>0, <1>4, <2>3 DEF SaveManifest, CaptureOK, StatusOK, Early
      <3> QED BY <1>0, <2>1, <3>1, ChargeAux
    <2> QED BY <2>2, <2>3
  <1> QED BY <1>1, <1>2, <1>3, <1>4 DEF Ending
LEMMA CapturingAux ==
    ASSUME StoreInv, CountersOK, AuxOK, NEW c \in Captures, NEW s \in StreamSet, Capturing(c, s),
           Only(c), Only(c)'
    PROVE  AuxOK'
  <1>0. /\ phase[c] \in {"capture", "close"} /\ phase'[c] \notin {"judge", "mark", "publishing"}
        /\ phase[c] \notin {"mark", "publishing"} /\ c \in Ids
    BY CapturingMoves DEF Ids
  <1>1. CASE Flush(c, s) \/ Digest(c, s)
    <2>1. AuxCharge(c, s, c, Sidecar[s]) \/ AuxCharge(c, Sidecar[s], c, "digest")
      BY <1>1 DEF Flush, Digest
    <2>2. Sidecar[s] # "manifest" /\ "digest" # "manifest"
      BY StreamFacts DEF Sidecar
    <2> QED BY <1>0, <2>1, <2>2, ChargeAux
  <1>2. CASE ~Flush(c, s) /\ ~Digest(c, s)
    <2>1. aux' = aux \/ aux' = Free
      BY <1>2 DEF Capturing, Claim, ClaimDenied, Write, WriteFails, BeginClose, FlushFails, Unlist,
         Finish, Digested, AuxFails, AuxSettle
    <2> QED BY <1>0, <2>1, SameAux
  <1> QED BY <1>1, <1>2

\* So do the steps of no capture in particular.
LEMMA RestAux ==
    ASSUME StoreInv, CountersOK, AuxOK, Alone,
           AuxReplace \/ Maintain \/ UNCHANGED storeVars \/ \E i \in Ids : ReadPage(i)
    PROVE  AuxOK'
  <1>1. CASE AuxReplace
    <2>1. /\ aux.by \in Captures /\ UNCHANGED phase
          /\ aux' = [aux EXCEPT !.done = TRUE]
      BY <1>1 DEF AuxReplace, StoreInv, AuxTypes, prepare
    <2>2. aux'.by = aux.by /\ aux'.old = aux.old /\ aux'.done
      BY <2>1 DEF StoreInv, AuxTypes
    <2>3. phase[aux.by] \notin Early \ {"mark"}
      <3>1. \/ phase[aux.by] \in {"mark", "registering", "saving", "publishing"}
            \/ \E s \in StreamSet : stream[aux.by][s] \in {"sidecar", "writing"}
        BY <2>1 DEF StoreInv, CaptureOK, HoldsOK
      <3> QED BY <2>1, <3>1, RunningStream DEF Early
    <2>4. \A d \in Captures : phase[d] # "judge"
      BY <2>1, <2>3 DEF Alone, Early
    <2> QED BY <2>1, <2>2, <2>4 DEF AuxOK
  <1>2. CASE Maintain
    <2>1. PICK expired \in SUBSET Deletable : Evict(expired)
      BY <1>2 DEF Maintain
    <2>2. \A i \in Ids : manifest[i] = "running" => manifest'[i] = "running"
      BY <2>1 DEF Evict, Delete, Deletable
    <2>3. UNCHANGED <<aux, phase, look>>
      BY <1>2 DEF Maintain, prepare
    <2>4. \A d \in Captures : phase[d] = "judge" => look[d] \in Ids
      BY DEF StoreInv, CaptureOK, LookOK, Ids, Captures
    <2>5. aux.by # NoId => aux.id \in Ids
      <3>1. aux.by # NoId => aux.by \in Captures
        BY DEF StoreInv, AuxTypes
      <3> QED BY <3>1 DEF StoreInv, CaptureOK, HoldsOK, LookOK, Ids, Captures
    <2> QED BY <2>2, <2>3, <2>4, <2>5 DEF AuxOK
  <1>3. CASE UNCHANGED storeVars \/ \E i \in Ids : ReadPage(i)
    <2>1. UNCHANGED <<aux, phase, look, manifest>>
      BY <1>3 DEF ReadPage, storeVars, disk, group, prepare
    <2> QED BY <2>1 DEF AuxOK
  <1> QED BY <1>1, <1>2, <1>3

-----------------------------------------------------------------------------
(* One capture runs: what the cached total may fall short of.               *)

\* Some stream was let in.
Opened == \E c \in Captures : phase[c] = "enter" \/ \E s \in StreamSet : stream[c][s] # "none"

\* What will be on disk, and what a replacement will have given back by then.
Weight == Cardinality(Future) + aux.old

BudgetOK ==
    /\ usage # Unknown => Weight <= usage + Width
    /\ Opened => Cardinality(Future) <= Quota + Width
    /\ \A c \in Captures : phase[c] = "scanned" => Cardinality(Future) <= scan[c]

\* A chunk on its way is not stored.
LEMMA FlyingApart ==
    ASSUME StoreInv, SizesOK, NEW S
    PROVE  Flying \intersect Stored(S) = {}
  <1> SUFFICES ASSUME NEW u \in Flying, u \in Stored(S) PROVE FALSE
    OBVIOUS
  <1>1. u[1] \in Captures /\ u[2] \in StreamSet /\ u[3] = size[u[1]][u[2]] + 1
    BY DEF Flying
  <1>2. u[3] <= size[u[1]][u[2]]
    BY <1>1 DEF Stored, Length
  <1>3. size[u[1]][u[2]] \in Nat
    BY <1>1, StoreAssumption DEF SizesOK, Ids
  <1> QED BY <1>1, <1>2, <1>3

\* What is on its way or pending is no more than one unit per stream; a replacement
\* is of a manifest that is there.
LEMMA Room ==
    ASSUME StoreInv, SizesOK, CountersOK, AuxOK, Alone
    PROVE  Weight <= DiskTotal + Width
  <1>0. /\ IsFiniteSet(Stored(Ids)) /\ DiskTotal \in Nat /\ Width \in Nat /\ Width >= 1
        /\ Flying \union Pending \subseteq Units /\ Future = Stored(Ids) \union (Flying \union Pending)
    <2>1. Flying \union Pending \subseteq Future /\ Future = Stored(Ids) \union (Flying \union Pending)
      BY DEF Future
    <2> QED BY <2>1, FutureFinite, UnitsFinite DEF DiskTotal, Bytes
  <1>1. CASE \A c \in Captures : phase[c] = "idle"
    <2>1. \A c \in Captures : granted[c] = {} /\ aux.by # c
      BY <1>1, OthersRest DEF Only, StoreInv, CaptureOK, GrantsOK, Early
    <2>2. aux.by = NoId
      BY <2>1 DEF StoreInv, AuxTypes
    <2>3. Flying = {} /\ Pending = {} /\ aux.old = 0
      BY <2>1, <2>2 DEF Flying, Pending, AuxOK
    <2>4. Future = Stored(Ids)
      BY <1>0, <2>3
    <2> QED BY <1>0, <2>3, <2>4 DEF Weight, DiskTotal, Bytes
  <1>2. ASSUME NEW c \in Captures, phase[c] # "idle" PROVE Weight <= DiskTotal + Width
    <2>0. Only(c) /\ CaptureOK(c) /\ GrantsOK(c) /\ HoldsOK(c)
      BY <1>2 DEF Only, Alone, StoreInv, CaptureOK
    <2>1. CASE aux.old = 1
      <3>1. aux.by = c /\ phase[c] \in {"mark", "publishing"}
        BY <2>0, <2>1, OldAux
      <3>2. \A d \in Captures : granted[d] = {}
        BY <2>0, <3>1, OthersRest DEF GrantsOK
      <3>3. Flying = {}
        BY <3>2 DEF Flying
      <3>4. Pending \subseteq Stored(Ids)
        <4> SUFFICES ASSUME ~aux.done PROVE <<aux.id, AuxName, 1>> \in Stored(Ids)
          BY DEF Pending
        <4>1. aux.by # NoId /\ manifest[aux.id] = "running"
          BY <2>1, <3>1, StoreAssumption DEF AuxOK, Ids
        <4>2. aux.for \in {"failed", "completed"} /\ aux.id \in Ids
          BY <2>0, <3>1 DEF HoldsOK, CaptureOK, LookOK, Ids, Captures
        <4>3. AuxName = "manifest" /\ "manifest" \notin StreamSet
          BY <4>2, StreamFacts DEF AuxName, Sidecars, Sidecar
        <4>4. "manifest" \in Held(aux.id) /\ Length(aux.id, "manifest") = 1
          BY <4>1, <4>3 DEF Held, Length
        <4> QED BY <4>2, <4>3, <4>4, StoreAssumption DEF Stored
      <3>5. Future = Stored(Ids)
        BY <1>0, <3>3, <3>4
      <3>6. Weight = DiskTotal + 1
        BY <2>1, <3>5 DEF Weight, DiskTotal, Bytes
      <3> QED BY <1>0, <3>6
    <2>2. CASE aux.old = 0
      <3> DEFINE unit(s) == IF s \in granted[c] THEN <<c, s, size[c][s] + 1>> ELSE <<aux.id, AuxName, 1>>
                 image == {unit(s) : s \in StreamSet}
                 g == [s \in StreamSet |-> unit(s)]
      <3>1. g \in Surjection(StreamSet, image)
        BY DEF Surjection
      <3>2. IsFiniteSet(image) /\ Cardinality(image) <= Width
        BY <3>1, StreamFacts, FS_Surjection DEF Width
      <3>3. Flying \subseteq image
        <4> SUFFICES ASSUME NEW u \in Flying PROVE u \in image
          OBVIOUS
        <4>1. /\ u = <<u[1], u[2], u[3]>> /\ u[1] \in Captures /\ u[2] \in StreamSet
              /\ u[2] \in granted[u[1]] /\ u[3] = size[u[1]][u[2]] + 1
          BY DEF Flying
        <4>2. u[1] = c
          BY <2>0, <4>1, OthersRest
        <4>3. unit(u[2]) = u
          BY <4>1, <4>2
        <4> QED BY <4>1, <4>3
      <3>4. Pending \subseteq image
        <4> SUFFICES ASSUME aux.by # NoId PROVE <<aux.id, AuxName, 1>> \in image
          BY DEF Pending
        <4>1. aux.by = c
          BY <2>0, OthersRest
        <4>2. \E s \in StreamSet : s \notin granted[c]
          <5>1. CASE phase[c] \in {"mark", "registering", "saving", "publishing"}
            BY <2>0, <5>1, StreamFacts DEF GrantsOK
          <5>2. CASE \E s \in StreamSet : stream[c][s] \in {"sidecar", "writing"}
            BY <2>0, <5>2 DEF GrantsOK
          <5> QED BY <2>0, <4>1, <5>1, <5>2 DEF HoldsOK
        <4>3. PICK s \in StreamSet : s \notin granted[c]
          BY <4>2
        <4>4. unit(s) = <<aux.id, AuxName, 1>>
          BY <4>3
        <4> QED BY <4>4
      <3> HIDE DEF image
      <3>5. IsFiniteSet(Flying \union Pending) /\ Cardinality(Flying \union Pending) \in Nat
            /\ Cardinality(Flying \union Pending) <= Width
        <4>1. Flying \union Pending \subseteq image
          BY <3>3, <3>4
        <4>2. IsFiniteSet(Flying \union Pending) /\ Cardinality(Flying \union Pending) <= Cardinality(image)
          BY <3>2, <4>1, FS_Subset
        <4> QED BY <1>0, <3>2, <4>2, FS_CardinalityType
      <3>6. Cardinality(Future) <= DiskTotal + Cardinality(Flying \union Pending) /\ Cardinality(Future) \in Nat
        <4> DEFINE T == Flying \union Pending
        <4>1. IsFiniteSet(Stored(Ids) \intersect T)
          BY <1>0, FS_Subset
        <4>2. Cardinality(Stored(Ids) \intersect T) \in Nat
          BY <4>1, FS_CardinalityType
        <4>3. /\ IsFiniteSet(Stored(Ids) \union T)
              /\ Cardinality(Stored(Ids) \union T)
                    = Cardinality(Stored(Ids)) + Cardinality(T) - Cardinality(Stored(Ids) \intersect T)
          BY <1>0, <3>5, FS_Union
        <4>4. Cardinality(Future) \in Nat
          BY <1>0, <4>3, FS_CardinalityType
        <4> QED BY <1>0, <3>5, <4>2, <4>3, <4>4 DEF DiskTotal, Bytes
      <3> QED BY <1>0, <2>2, <3>5, <3>6 DEF Weight
    <2> QED BY <2>1, <2>2 DEF CountersOK
  <1> QED BY <1>1, <1>2

\* While one capture runs, the total that a step starts from falls short by no more.
LEMMA Short ==
    ASSUME StoreInv, SizesOK, CountersOK, Alone, AuxOK, BudgetOK
    PROVE  /\ Weight <= Total + Width /\ Weight \in Nat /\ Total \in Nat /\ Width \in Nat
           /\ Cardinality(Future) \in Nat /\ aux.old \in Nat
  <1>1. Weight <= Total + Width
    BY Room DEF BudgetOK, Total
  <1>2. Cardinality(Future) \in Nat
    BY FutureFinite
  <1>3. aux.old \in Nat
    BY DEF CountersOK
  <1>4. Weight \in Nat
    BY <1>2, <1>3 DEF Weight
  <1> QED BY <1>1, <1>2, <1>3, <1>4, CountsTyped, UnitsFinite

\* The step of a capture that is let in comes after its admission.
LEMMA OpenedStep ==
    ASSUME StoreInv, [StoreNext]_storeVars, Opened'
    PROVE  Opened \/ \E c \in Captures : Admit(c)
  <1>0. StreamTypes
    BY DEF StoreInv
  <1>1. ASSUME NEW c \in Captures, MovesOK(c), ~Admit(c),
               \A d \in Captures : \A s \in StreamSet : stream'[d][s] # "none" => Opened
        PROVE  Opened
    BY <1>1 DEF Opened, MovesOK
  <1>2. ASSUME NEW c \in Captures, Opening(c), ~Admit(c) PROVE Opened
    <2>1. CASE \/ Start(c) \/ ReadManifest(c) \/ Spare(c) \/ MarkStale(c) \/ Marked(c) \/ Cleanup(c)
      <3>1. UNCHANGED stream
        BY <2>1 DEF Start, ReadManifest, Spare, MarkStale, Marked, Cleanup, capture
      <3> QED BY <1>1, <1>2, <3>1, OpeningMoves DEF Opened
    <2>2. CASE \E s \in StreamSet : OpenStream(c, s)
      BY <2>2 DEF OpenStream, Opened
    <2>3. CASE OpenFails(c)
      <3>1. \A d \in Captures : \A s \in StreamSet : stream'[d][s] # "none" => Opened
        BY <1>0, <2>3 DEF OpenFails, Opened, StreamTypes
      <3> QED BY <1>1, <1>2, <3>1, OpeningMoves
    <2> QED BY <1>2, <2>1, <2>2, <2>3 DEF Opening
  <1>3. ASSUME NEW c \in Captures, Ending(c) PROVE Opened
    <2>1. CASE ProcessEnds(c) \/ SaveManifest(c) \/ Saved(c) \/ SaveFails(c) \/ Release(c)
      <3>1. UNCHANGED stream
        BY <2>1 DEF ProcessEnds, SaveManifest, Saved, SaveFails, Release, capture
      <3>2. ~Admit(c)
        BY <2>1 DEF ProcessEnds, SaveManifest, Saved, SaveFails, Release, Admit, Advance, AuxFails
      <3> QED BY <1>1, <1>3, <3>1, <3>2, EndingMoves DEF Opened
    <2>2. CASE Unwind(c) \/ Decide(c)
      <3>1. phase[c] \in {"unwind", "close", "capture"}
        BY <2>2 DEF Unwind, Decide
      <3>2. \A s \in StreamSet : stream[c][s] # "none"
        BY <3>1 DEF StoreInv, CaptureOK, StagesOK
      <3> QED BY <3>2, StreamFacts DEF Opened
    <2> QED BY <1>3, <2>1, <2>2 DEF Ending
  <1>4. ASSUME NEW c \in Captures, NEW s \in StreamSet, Capturing(c, s) PROVE Opened
    <2>1. phase[c] \in {"close", "capture"}
      BY <1>4, CapturingMoves
    <2>2. stream[c][s] # "none"
      BY <2>1 DEF StoreInv, CaptureOK, StagesOK
    <2> QED BY <2>2 DEF Opened
  <1>5. CASE AuxReplace \/ Maintain \/ UNCHANGED storeVars \/ \E i \in Ids : ReadPage(i)
    <2>1. UNCHANGED <<phase, stream>>
      BY <1>5 DEF AuxReplace, Maintain, ReadPage, storeVars, capture
    <2> QED BY <2>1 DEF Opened
  <1> QED BY <1>2, <1>3, <1>4, <1>5 DEF StoreNext

\* No step but Cleanup leads to a count that waits.
Counting == \A c \in Captures : phase'[c] = "scanned" => phase[c] = "scanned" /\ scan'[c] = scan[c]

\* A step that takes away, and keeps the total or forgets it.
LEMMA Lighter ==
    ASSUME StoreInv, SizesOK, CountersOK, BudgetOK, Future' \subseteq Future,
           aux'.old \in Nat, aux'.old <= aux.old, usage' = usage \/ usage' = Unknown, Opened' => Opened, Counting
    PROVE  BudgetOK'
  <1>1. /\ Cardinality(Future)' <= Cardinality(Future)
        /\ Cardinality(Future)' \in Nat /\ Cardinality(Future) \in Nat
    BY FutureFinite
  <1>2. Width \in Nat /\ aux.old \in Nat /\ Quota \in Nat
    BY UnitsFinite, StoreAssumption DEF CountersOK
  <1>3. Weight' <= Weight /\ Weight' \in Nat /\ Weight \in Nat
    BY <1>1, <1>2 DEF Weight
  <1>4. usage' # Unknown => Weight' <= usage' + Width
    BY <1>2, <1>3 DEF BudgetOK, CountersOK
  <1>5. Opened' => Cardinality(Future)' <= Quota + Width
    BY <1>1, <1>2 DEF BudgetOK
  <1>6. \A c \in Captures : phase'[c] = "scanned" => Cardinality(Future)' <= scan'[c]
    BY <1>1 DEF Counting, BudgetOK, CountersOK
  <1> QED BY <1>4, <1>5, <1>6 DEF BudgetOK, Width

\* A step that counts: it takes k units away and brings m.
LEMMA Reckoned ==
    ASSUME StoreInv, SizesOK, CountersOK, Alone, AuxOK, BudgetOK, NEW k \in Nat, NEW m \in Nat,
           usage' = Monus(Total, k) + m,
           Cardinality(Future)' \in Nat, aux'.old \in Nat, Weight' <= Weight - k + m,
           usage' <= Quota \/ (Opened' => Opened /\ Future' \subseteq Future), Counting,
           \A c \in Captures : phase'[c] # "scanned"
    PROVE  BudgetOK'
  <1>1. /\ Weight <= Total + Width /\ Weight \in Nat /\ Total \in Nat /\ Width \in Nat
        /\ Cardinality(Future) \in Nat
    BY Short
  <1>2. Weight' \in Nat /\ Cardinality(Future)' <= Weight' /\ usage' \in Nat
    BY <1>1 DEF Weight, Monus
  <1>3. Weight' <= usage' + Width
    BY <1>1, <1>2 DEF Monus
  <1>4. Opened' => Cardinality(Future)' <= Quota + Width
    <2>1. CASE usage' <= Quota
      BY <1>1, <1>2, <1>3, <2>1, StoreAssumption
    <2>2. CASE Opened' => Opened /\ Future' \subseteq Future
      <3>1. Opened' => Cardinality(Future)' <= Cardinality(Future)
        BY <2>2, FutureFinite
      <3> QED BY <1>1, <1>2, <2>2, <3>1, StoreAssumption DEF BudgetOK
    <2> QED BY <2>1, <2>2
  <1> QED BY <1>3, <1>4 DEF BudgetOK, Width

\* A step that adds no file and begins no write.
LEMMA ShrinkFuture ==
    ASSUME Shrinks, \A d \in Captures : granted'[d] \subseteq granted[d], aux' = aux \/ aux' = Free
    PROVE  Future' \subseteq Future
  <1>1. Stored(Ids)' \subseteq Stored(Ids)
    <2>1. \A i \in Ids : Held(i)' \subseteq Held(i)
      BY DEF Shrinks, Held
    <2>2. \A i, x : Length(i, x)' = Length(i, x)
      BY DEF Shrinks, Length
    <2> QED BY <2>1, <2>2 DEF Stored
  <1>2. Flying' \subseteq Flying
    BY DEF Flying, Shrinks
  <1>3. Pending' \subseteq Pending
    BY DEF Pending, AuxName, Free
  <1> QED BY <1>1, <1>2, <1>3 DEF Future

\* What an eviction takes from it.
LEMMA EvictFuture ==
    ASSUME StoreInv, SizesOK, NEW gone \in SUBSET Ids, Evict(gone), UNCHANGED size,
           aux.by = NoId \/ aux.id \notin gone
    PROVE  /\ Stored(Ids)' \union Flying \union Pending \subseteq Future \ Stored(gone)
           /\ IsFiniteSet(Future \ Stored(gone)) /\ Bytes(gone) \in Nat /\ Cardinality(Future) \in Nat
           /\ Cardinality(Future \ Stored(gone)) = Cardinality(Future) - Bytes(gone)
  <1>1. Stored(Ids)' = Stored(Ids) \ Stored(gone) /\ Bytes(gone) \in Nat
    BY EvictUnits
  <1>2. Flying \intersect Stored(gone) = {}
    BY FlyingApart
  <1>3. Pending \intersect Stored(gone) = {}
    BY DEF Pending, Stored
  <1>4. Stored(Ids)' \union Flying \union Pending \subseteq Future \ Stored(gone)
    BY <1>1, <1>2, <1>3 DEF Future
  <1>5. Stored(gone) \subseteq Future /\ Future \subseteq Units
    BY FutureFinite DEF Future
  <1>6. IsFiniteSet(Future) /\ IsFiniteSet(Stored(gone)) /\ Cardinality(Future) \in Nat
    BY <1>5, FutureFinite
  <1>7. Future \intersect Stored(gone) = Stored(gone)
    BY <1>5
  <1>8. /\ IsFiniteSet(Future \ Stored(gone))
        /\ Cardinality(Future \ Stored(gone)) = Cardinality(Future) - Cardinality(Stored(gone))
    BY <1>6, <1>7, FS_Difference
  <1> QED BY <1>1, <1>4, <1>6, <1>8 DEF Bytes

\* A charge that is refused.
LEMMA DenyBudget ==
    ASSUME StoreInv, SizesOK, CountersOK, Alone, AuxOK, BudgetOK, NEW id, Deny(1, id),
           UNCHANGED <<size, granted, aux>>, aux.by = NoId \/ aux.id = id, Opened' => Opened,
           Counting, \A c \in Captures : phase'[c] # "scanned"
    PROVE  BudgetOK'
  <1> DEFINE gone == Gone(1, id)
             X == Future \ Stored(gone)
  <1>1. gone \in SUBSET Ids /\ id \notin gone
    BY GoneFacts
  <1>2. Evict(gone) /\ usage' = Monus(Total, Bytes(gone))
    BY DEF Deny, Left
  <1>3. /\ Stored(Ids)' \union Flying \union Pending \subseteq X
        /\ IsFiniteSet(X) /\ Bytes(gone) \in Nat /\ Cardinality(Future) \in Nat
        /\ Cardinality(X) = Cardinality(Future) - Bytes(gone)
    BY <1>1, <1>2, EvictFuture
  <1>4. Flying' = Flying /\ Pending' = Pending
    BY DEF Flying, Pending, AuxName
  <1>5. Future' \subseteq X
    BY <1>3, <1>4 DEF Future
  <1>6. IsFiniteSet(Future') /\ Cardinality(Future') <= Cardinality(X) /\ Cardinality(Future') \in Nat
    BY <1>3, <1>5, FS_Subset, FS_CardinalityType
  <1>7. aux.old \in Nat /\ aux'.old = aux.old /\ Total \in Nat
    BY Short
  <1>8. Weight' <= Weight - Bytes(gone) + 0
    BY <1>3, <1>6, <1>7 DEF Weight
  <1>9. usage' = Monus(Total, Bytes(gone)) + 0
    BY <1>2, <1>3, <1>7 DEF Monus
  <1>10. Future' \subseteq Future
    BY <1>5
  <1> HIDE DEF gone, X
  <1> QED BY <1>3, <1>6, <1>7, <1>8, <1>9, <1>10, Reckoned

\* A charge that is granted, for one unit.
LEMMA ChargeBudget ==
    ASSUME StoreInv, SizesOK, CountersOK, Alone, AuxOK, BudgetOK, NEW id, NEW extra, Charge(1, id, extra),
           UNCHANGED size, aux.by = NoId \/ aux.id = id, NEW u,
           \/ aux'.old = aux.old /\ Future' \subseteq (Future \ Stored(Gone(1, id))) \union {u}
           \/ aux.old = 0 /\ aux'.old = 1 /\ Future' \subseteq Future \ Stored(Gone(1, id)),
           Counting, \A c \in Captures : phase'[c] # "scanned"
    PROVE  BudgetOK'
  <1> DEFINE gone == Gone(1, id)
             X == Future \ Stored(gone)
  <1>1. gone \in SUBSET Ids /\ id \notin gone
    BY GoneFacts
  <1>2. Evict(gone) /\ usage' = Monus(Total, Bytes(gone)) + 1 /\ usage' <= Quota
    BY DEF Charge, Left, Fits
  <1>3. /\ IsFiniteSet(X) /\ Bytes(gone) \in Nat /\ Cardinality(Future) \in Nat
        /\ Cardinality(X) = Cardinality(Future) - Bytes(gone)
    BY <1>1, <1>2, EvictFuture
  <1>4. aux.old \in Nat
    BY Short
  <1> HIDE DEF gone
  <1>5. /\ IsFiniteSet(X \union {u}) /\ Cardinality(X \union {u}) <= Cardinality(X) + 1
        /\ Cardinality(X) \in Nat
    <2>1. IsFiniteSet(X \union {u}) /\ Cardinality(X) \in Nat
      BY <1>3, FS_AddElement, FS_CardinalityType
    <2>2. CASE u \in X
      <3>1. X \union {u} = X
        BY <2>2
      <3>2. Cardinality(X) <= Cardinality(X) + 1
        BY <2>1
      <3> HIDE DEF X
      <3> QED BY <2>1, <3>1, <3>2
    <2>3. CASE u \notin X
      BY <1>3, <2>1, <2>3, FS_AddElement
    <2> QED BY <2>1, <2>2, <2>3
  <1>6. Future' \subseteq X \union {u}
    BY DEF gone
  <1>7. Cardinality(Future') \in Nat /\ Cardinality(Future') <= Cardinality(X) + 1
    <2>1. Cardinality(Future') <= Cardinality(X \union {u}) /\ IsFiniteSet(Future')
      BY <1>5, <1>6, FS_Subset
    <2>2. Cardinality(Future') \in Nat /\ Cardinality(X \union {u}) \in Nat
      BY <1>5, <2>1, FS_CardinalityType
    <2> QED BY <1>5, <2>1, <2>2
  <1>8. Weight' <= Weight - Bytes(gone) + 1 /\ aux'.old \in Nat
    <2>1. CASE aux'.old = aux.old
      BY <1>3, <1>4, <1>5, <1>7, <2>1 DEF Weight
    <2>2. CASE aux.old = 0 /\ aux'.old = 1 /\ Future' \subseteq X
      <3>1. Cardinality(Future') <= Cardinality(X)
        BY <1>3, <2>2, FS_Subset
      <3> QED BY <1>3, <1>5, <1>7, <2>2, <3>1 DEF Weight
    <2> QED BY <2>1, <2>2 DEF gone
  <1> QED BY <1>2, <1>3, <1>7, <1>8, Reckoned

\* The charge of a metadata file: a manifest that it replaces is there already.
LEMMA AuxChargeBudget ==
    ASSUME StoreInv, SizesOK, CountersOK, Alone, AuxOK, BudgetOK, NEW by, NEW for, NEW id \in Ids, NEW name,
           AuxCharge(by, for, id, name), name = "manifest" => for \in Statuses, UNCHANGED <<size, granted>>,
           Counting, \A c \in Captures : phase'[c] # "scanned"
    PROVE  BudgetOK'
  <1> DEFINE gone == Gone(1, id)
             u == <<id, AuxName', 1>>
  <1>1. /\ aux.by = NoId /\ aux.old = 0 /\ Charge(1, id, 0)
        /\ aux'.id = id /\ aux'.for = for
        /\ aux'.old = IF name = "manifest" /\ manifest[id] # "none" THEN 1 ELSE 0
    BY DEF AuxCharge, AuxOK
  <1>2. gone \in SUBSET Ids /\ id \notin gone /\ Evict(gone)
    BY <1>1, GoneFacts DEF Charge
  <1>3. Stored(Ids)' \union Flying \subseteq Future \ Stored(gone) /\ Stored(Ids)' = Stored(Ids) \ Stored(gone)
    BY <1>1, <1>2, EvictFuture, EvictUnits
  <1>4. Flying' = Flying /\ Pending' \subseteq {u}
    BY <1>1 DEF Flying, Pending
  <1>5. CASE aux'.old = 0
    <2>1. Future' \subseteq (Future \ Stored(gone)) \union {u}
      BY <1>3, <1>4 DEF Future
    <2> HIDE DEF u
    <2> QED BY <1>1, <1>5, <2>1, ChargeBudget
  <1>6. CASE name = "manifest" /\ manifest[id] # "none"
    <2>1. AuxName' = "manifest" /\ "manifest" \notin StreamSet
      <3>1. for \notin StreamSet /\ for \notin Sidecars
        BY <1>6, SidecarFacts DEF Sidecars
      <3> QED BY <1>1, <3>1, StreamFacts DEF AuxName
    <2>2. "manifest" \in Held(id)' /\ Length(id, "manifest")' = 1
      <3>1. manifest'[id] = manifest[id]
        BY <1>2 DEF Evict, Delete
      <3> QED BY <1>6, <2>1, <3>1 DEF Held, Length
    <2>3. u \in Stored(Ids)'
      BY <2>1, <2>2, StoreAssumption DEF Stored
    <2>4. Future' \subseteq Future \ Stored(gone)
      BY <1>3, <1>4, <2>3 DEF Future
    <2> HIDE DEF u
    <2> QED BY <1>1, <1>6, <2>4, ChargeBudget
  <1> QED BY <1>1, <1>5, <1>6

\* It is settled: the total gives back what the replaced manifest took.
LEMMA SettleBudget ==
    ASSUME StoreInv, SizesOK, CountersOK, Alone, AuxOK, BudgetOK, NEW by, NEW for, AuxSettle(by, for),
           UNCHANGED <<files, manifest, size, granted>>, Opened' => Opened,
           Counting, \A c \in Captures : phase'[c] # "scanned"
    PROVE  BudgetOK'
  <1>1. /\ Weight \in Nat /\ Total \in Nat /\ Cardinality(Future) \in Nat /\ aux.old \in Nat
    BY Short
  <1>2. usage' = Monus(Total, aux.old) /\ aux' = Free
    BY DEF AuxSettle
  <1>3. Future' \subseteq Future
    BY <1>2, SameShrinks, ShrinkFuture
  <1>4. Cardinality(Future)' <= Cardinality(Future) /\ Cardinality(Future)' \in Nat
    BY <1>3, FutureFinite
  <1>5. aux'.old = 0
    BY <1>2 DEF Free
  <1>6. Weight' <= Weight - aux.old + 0
    BY <1>1, <1>4, <1>5 DEF Weight
  <1>7. usage' = Monus(Total, aux.old) + 0
    BY <1>1, <1>2 DEF Monus
  <1> QED BY <1>1, <1>3, <1>4, <1>5, <1>6, <1>7, Reckoned

\* A count is taken while nothing is on its way, and the admission starts from it.
LEMMA NothingFlies ==
    ASSUME StoreInv, CountersOK, AuxOK, NEW c \in Captures, Only(c), phase[c] \in Early \ {"mark"}
    PROVE  Flying = {} /\ Pending = {} /\ aux.by = NoId /\ aux.old = 0 /\ Future = Stored(Ids)
  <1>1. granted[c] = {}
    BY DEF StoreInv, CaptureOK, GrantsOK, Early
  <1>2. \A d \in Captures : granted[d] = {}
    BY <1>1, OthersRest
  <1>3. aux.by = NoId
    BY OthersRest
  <1> QED BY <1>2, <1>3 DEF Flying, Pending, AuxOK, Future
LEMMA CleanupBudget ==
    ASSUME StoreInv, SizesOK, CountersOK, AuxOK, BudgetOK, NEW c \in Captures, Only(c), Only(c)', Cleanup(c),
           Opened' => Opened
    PROVE  BudgetOK'
  <1>0. phase[c] = "reconcile" /\ usage' = Unknown /\ UNCHANGED <<size, granted, aux>>
    BY DEF Cleanup, Advance, capture
  <1>1. PICK expired \in SUBSET Deletable :
          Evict(expired) /\ scan' = [scan EXCEPT ![c] = DiskTotal - Bytes(expired)]
    BY DEF Cleanup
  <1>2. expired \in SUBSET Ids
    BY DEF Deletable
  <1>3. Future = Stored(Ids) /\ Flying = {} /\ Pending = {}
    BY <1>0, NothingFlies DEF Early
  <1>4. Future' = Stored(Ids)'
    BY <1>0, <1>3 DEF Future, Flying, Pending, AuxName
  <1>5. Cardinality(Stored(Ids)') = DiskTotal - Bytes(expired)
    BY <1>0, <1>1, <1>2, EvictUnits
  <1>6. scan'[c] = Cardinality(Future')
    BY <1>1, <1>4, <1>5 DEF CountersOK
  <1>7. Future' \subseteq Future
    BY <1>0, <1>1, EvictShrinks, ShrinkFuture
  <1>8. /\ Cardinality(Future') <= Cardinality(Future)
        /\ Cardinality(Future') \in Nat /\ Cardinality(Future) \in Nat
    BY <1>7, FutureFinite
  <1>9. Opened' => Cardinality(Future') <= Quota + Width
    BY <1>8, UnitsFinite, StoreAssumption DEF BudgetOK
  <1>10. \A d \in Captures : phase'[d] = "scanned" => Cardinality(Future') <= scan'[d]
    BY <1>6, <1>8 DEF Only
  <1> QED BY <1>0, <1>9, <1>10 DEF BudgetOK, Width
LEMMA AdmitBudget ==
    ASSUME StoreInv, SizesOK, CountersOK, AuxOK, BudgetOK, NEW c \in Captures, Only(c), Only(c)',
           phase[c] = "scanned", phase'[c] # "scanned", NEW gone \in SUBSET Ids, Evict(gone),
           usage' = Monus(scan[c], Bytes(gone)), UNCHANGED <<size, granted, aux>>,
           usage' < Quota \/ (Opened' => Opened)
    PROVE  BudgetOK'
  <1>1. Future = Stored(Ids) /\ Flying = {} /\ Pending = {} /\ aux.by = NoId /\ aux.old = 0
    BY NothingFlies DEF Early
  <1>2. Future' = Stored(Ids)'
    BY <1>1 DEF Future, Flying, Pending, AuxName
  <1>3. /\ Cardinality(Stored(Ids)') = DiskTotal - Bytes(gone) /\ Bytes(gone) \in Nat /\ DiskTotal \in Nat
        /\ Stored(Ids)' \subseteq Stored(Ids)
    BY EvictUnits
  <1>4. DiskTotal <= scan[c] /\ scan[c] \in Nat
    BY <1>1 DEF BudgetOK, DiskTotal, Bytes, CountersOK
  <1>5. Cardinality(Future') <= usage' /\ usage' \in Nat /\ Cardinality(Future') \in Nat
        /\ Cardinality(Future') <= Cardinality(Future) /\ Cardinality(Future) \in Nat
    <2>1. /\ Cardinality(Future') <= Cardinality(Future)
          /\ Cardinality(Future') \in Nat /\ Cardinality(Future) \in Nat
      BY <1>1, <1>2, <1>3, FutureFinite
    <2> QED BY <1>2, <1>3, <1>4, <2>1 DEF Monus
  <1>6. Weight' = Cardinality(Future')
    BY <1>1, <1>5 DEF Weight
  <1>7. Width \in Nat /\ Quota \in Nat
    BY UnitsFinite, StoreAssumption
  <1>8. Opened' => Cardinality(Future') <= Quota + Width
    <2>1. CASE usage' < Quota
      BY <1>5, <1>7, <2>1
    <2>2. CASE Opened' => Opened
      BY <1>5, <1>7, <2>2 DEF BudgetOK
    <2> QED BY <2>1, <2>2
  <1>9. \A d \in Captures : phase'[d] # "scanned"
    BY DEF Only
  <1>10. Weight' <= usage' + Width
    BY <1>5, <1>6, <1>7
  <1> QED BY <1>8, <1>9, <1>10 DEF BudgetOK, Width

\* What the lemmas on one step of the capture that runs assume.
Budgeted(c) ==
    /\ StoreInv /\ SizesOK /\ CountersOK /\ Alone /\ AuxOK /\ BudgetOK
    /\ Only(c) /\ Only(c)' /\ MovesOK(c)
    /\ Opened' => Opened \/ Admit(c)

\* A step other than an admission or a count.
LEMMA Uncounted ==
    ASSUME NEW c \in Captures, Budgeted(c), phase[c] # "scanned" \/ phase'[c] # "enter", phase'[c] # "scanned"
    PROVE  (Opened' => Opened) /\ Counting /\ \A d \in Captures : phase'[d] # "scanned"
  <1>1. ~Admit(c)
    BY DEF Admit, Advance, SetPhase, Budgeted, StoreInv, ThreadTypes
  <1> QED BY <1>1 DEF Budgeted, Only, Counting

\* A step that takes away and leaves the metadata write alone, or ends it.
LEMMA TakesBudget ==
    ASSUME NEW c \in Captures, Budgeted(c), phase[c] # "scanned" \/ phase'[c] # "enter", phase'[c] # "scanned",
           usage' = usage \/ usage' = Unknown, aux' = aux \/ aux' = Free, Shrinks,
           \A d \in Captures : granted'[d] \subseteq granted[d]
    PROVE  BudgetOK'
  <1>1. Future' \subseteq Future
    BY ShrinkFuture
  <1>2. aux'.old \in Nat /\ aux'.old <= aux.old
    BY DEF Free, Budgeted, CountersOK
  <1> QED BY <1>1, <1>2, Uncounted, Lighter DEF Budgeted

\* A capture that opens keeps to the budget.
LEMMA OpenFailsBudget ==
    ASSUME NEW c \in Captures, Budgeted(c), OpenFails(c)
    PROVE  BudgetOK'
  <1>1. /\ UNCHANGED <<size, granted>> /\ OpenRefused(c)
        /\ phase'[c] \in {"failed", "unwind", "close"}
    BY DEF OpenFails, SetPhase, Budgeted, StoreInv, ThreadTypes
  <1>2. (Opened' => Opened) /\ Counting /\ \A d \in Captures : phase'[d] # "scanned"
    BY <1>1, Uncounted
  <1>3. CASE AuxDenied(look[c])
    BY <1>1, <1>2, <1>3, DenyBudget DEF AuxDenied, Budgeted
  <1>4. CASE AuxFails(c, "failed") /\ usage' = Unknown /\ UNCHANGED <<group, logical>>
    BY <1>1, <1>4, SameShrinks, TakesBudget DEF AuxFails, group
  <1>5. CASE /\ phase[c] = "scanned" /\ usage' = Monus(scan[c], Bytes(Victims(1, NoId)))
             /\ Evict(Victims(1, NoId)) /\ UNCHANGED <<aux, faults>>
    <2>1. Victims(1, NoId) \in SUBSET Ids
      BY DEF Victims
    <2> QED BY <1>1, <1>2, <1>5, <2>1, AdmitBudget DEF Budgeted
  <1>6. CASE Fault /\ usage' = Unknown /\ UNCHANGED <<group, logical, aux>>
    BY <1>1, <1>6, SameShrinks, TakesBudget DEF group
  <1> QED BY <1>1, <1>3, <1>4, <1>5, <1>6 DEF OpenRefused
LEMMA OpeningBudget ==
    ASSUME NEW c \in Captures, Budgeted(c), Opening(c)
    PROVE  BudgetOK'
  <1>0. c \in Ids /\ phase \in [Captures -> Phases] /\ StreamTypes
    BY DEF Ids, Budgeted, StoreInv, ThreadTypes
  <1>1. CASE Start(c) \/ ReadManifest(c) \/ Spare(c)
    <2>1. /\ UNCHANGED <<files, manifest, size, usage, aux, granted>>
          /\ phase[c] # "scanned" /\ phase'[c] \in {"reconcile", "judge"}
      BY <1>0, <1>1 DEF Start, ReadManifest, Spare, Advance, SetPhase, disk, group, accounts, capture
    <2> QED BY <2>1, SameShrinks, TakesBudget
  <1>2. CASE MarkStale(c)
    <2>1. /\ phase[c] = "judge" /\ phase'[c] = "mark" /\ AuxCharge(c, "failed", look[c], "manifest")
          /\ UNCHANGED <<size, granted>>
      BY <1>0, <1>2 DEF MarkStale, Advance, SetPhase, capture
    <2>2. look[c] \in Ids
      BY <2>1 DEF Budgeted, StoreInv, CaptureOK, LookOK, Ids, Captures
    <2>3. "failed" \in Statuses
      BY DEF Statuses
    <2> QED BY <2>1, <2>2, <2>3, Uncounted, AuxChargeBudget DEF Budgeted
  <1>3. CASE Marked(c)
    <2>1. /\ phase[c] = "mark" /\ phase'[c] = "reconcile" /\ AuxSettle(c, "failed")
          /\ UNCHANGED <<files, manifest, size, granted>>
      BY <1>0, <1>3 DEF Marked, Advance, SetPhase, disk, group, capture
    <2> QED BY <2>1, Uncounted, SettleBudget DEF Budgeted
  <1>4. CASE Cleanup(c)
    <2>1. phase[c] = "reconcile"
      BY <1>4 DEF Cleanup, Advance
    <2>2. Opened' => Opened
      BY <2>1 DEF Budgeted, Admit, Advance
    <2> QED BY <1>4, <2>2, CleanupBudget DEF Budgeted
  <1>5. CASE Admit(c)
    <2>1. PICK gone \in SUBSET Ids : usage' = Monus(scan[c], Bytes(gone)) /\ Evict(gone)
      BY <1>5 DEF Admit, Victims
    <2>2. /\ phase[c] = "scanned" /\ phase'[c] = "enter" /\ usage' < Quota /\ UNCHANGED <<size, granted, aux>>
      BY <1>0, <1>5 DEF Admit, Advance, SetPhase, capture
    <2> QED BY <2>1, <2>2, AdmitBudget DEF Budgeted
  <1>6. ASSUME NEW s \in StreamSet, OpenStream(c, s) PROVE BudgetOK'
    <2>1. /\ phase[c] = "enter" /\ phase'[c] \in {"reconcile", "register", "capture"} /\ stream[c][s] = "none"
          /\ files' = [files EXCEPT ![c] = @ \union {s}]
          /\ UNCHANGED <<size, manifest, usage, aux, granted>>
      BY <1>0, <1>6 DEF OpenStream, IsNext, SetPhase, accounts
    <2>2. size[c][s] = 0
      BY <2>1 DEF Budgeted, SizesOK
    <2>3. Stored(Ids)' \subseteq Stored(Ids)
      <3> SUFFICES ASSUME NEW u \in Stored(Ids)' PROVE u \in Stored(Ids)
        OBVIOUS
      <3>1. /\ u \in Ids \X (Names \union {"manifest"}) \X (1..Chunks + 1)
            /\ u[2] \in Held(u[1])' /\ u[3] <= Length(u[1], u[2])'
        BY DEF Stored
      <3>2. u[3] <= Length(u[1], u[2])
        BY <2>1, <3>1 DEF Length
      <3>3. u[1] # c \/ u[2] # s
        <4>1. u[3] \in Nat /\ u[3] >= 1
          BY <3>1, StoreAssumption
        <4> QED BY <2>2, <3>2, <4>1 DEF Length
      <3>4. u[2] \in Held(u[1])
        BY <2>1, <3>1, <3>3 DEF Held, Budgeted, StoreInv, DataTypes
      <3> QED BY <3>1, <3>2, <3>4 DEF Stored
    <2>4. Future' \subseteq Future
      BY <2>1, <2>3 DEF Future, Flying, Pending, AuxName
    <2> QED BY <2>1, <2>4, Uncounted, Lighter DEF Budgeted, CountersOK
  <1> QED BY <1>1, <1>2, <1>3, <1>4, <1>5, <1>6, OpenFailsBudget DEF Opening

\* So does one that ends.
LEMMA EndingBudget ==
    ASSUME NEW c \in Captures, Budgeted(c), Ending(c)
    PROVE  BudgetOK'
  <1>0. c \in Ids /\ phase \in [Captures -> Phases] /\ StreamTypes
    BY DEF Ids, Budgeted, StoreInv, ThreadTypes
  <1>1. phase[c] \notin {"scanned", "reconcile"} /\ phase'[c] # "scanned"
    <2>1. phase[c] \notin {"scanned", "reconcile"}
      BY DEF Ending, ProcessEnds, SaveManifest, Saved, SaveFails, Unwind, Decide, Release, Advance
    <2> QED BY <2>1 DEF Budgeted, MovesOK, Cleanup, Advance
  <1>2. (Opened' => Opened) /\ Counting /\ \A d \in Captures : phase'[d] # "scanned"
    BY <1>1, Uncounted
  <1>3. CASE ProcessEnds(c) \/ Release(c)
    <2>1. UNCHANGED <<files, manifest, size, usage, aux, granted>>
      BY <1>3 DEF ProcessEnds, Release, disk, group, accounts, capture
    <2> QED BY <1>1, <2>1, SameShrinks, TakesBudget
  <1>4. CASE SaveManifest(c)
    <2>1. PICK for \in Statuses : AuxCharge(c, for, c, "manifest")
      BY <1>4 DEF SaveManifest, Statuses
    <2>2. UNCHANGED <<size, granted>>
      BY <1>4 DEF SaveManifest, capture
    <2> QED BY <1>0, <1>2, <2>1, <2>2, AuxChargeBudget DEF Budgeted
  <1>5. CASE Saved(c)
    <2>1. AuxSettle(c, aux.for) /\ UNCHANGED <<files, manifest, size, granted>>
      BY <1>5 DEF Saved, disk, group, capture
    <2> QED BY <1>2, <2>1, SettleBudget DEF Budgeted
  <1>6. CASE SaveFails(c)
    <2>1. UNCHANGED <<size, granted>>
      BY <1>6 DEF SaveFails, capture
    <2>2. CASE AuxFails(c, aux.for) /\ usage' = Unknown /\ UNCHANGED <<group, logical>>
      BY <1>1, <2>1, <2>2, SameShrinks, TakesBudget DEF AuxFails, group
    <2>3. CASE AuxDenied(c)
      BY <1>2, <2>1, <2>3, DenyBudget DEF AuxDenied, Budgeted
    <2> QED BY <1>6, <2>2, <2>3 DEF SaveFails
  <1>7. CASE Unwind(c)
    <2>1. /\ Delete({}, {c}, {}) /\ usage' = Unknown /\ UNCHANGED <<size, aux>>
          /\ \A d \in Captures : granted'[d] \subseteq granted[d]
      BY <1>0, <1>7 DEF Unwind, Abort, StreamTypes
    <2> QED BY <1>1, <2>1, DeleteShrinks, TakesBudget
  <1>8. CASE Decide(c)
    <2>1. /\ UNCHANGED <<size, aux, granted>>
          /\ \/ UNCHANGED <<group, usage>>
             \/ Delete({}, {c}, {c}) /\ usage' = Unknown
      BY <1>8 DEF Decide, Abort, accounts
    <2> QED BY <1>1, <2>1, DeleteShrinks, SameShrinks, TakesBudget DEF group
  <1> QED BY <1>3, <1>4, <1>5, <1>6, <1>7, <1>8 DEF Ending

\* So do those of its streams.  The metadata write they may find is one of theirs.
LEMMA CapturingBudget ==
    ASSUME NEW c \in Captures, NEW s \in StreamSet, Budgeted(c), Capturing(c, s)
    PROVE  BudgetOK'
  <1>0. /\ c \in Ids /\ StreamTypes /\ StoreInv /\ SizesOK /\ CountersOK /\ Only(c) /\ CaptureOK(c)
        /\ size[c][s] \in Nat
    BY StoreAssumption DEF Ids, Budgeted, StoreInv, SizesOK
  <1>1. phase[c] \in {"capture", "close"} /\ phase'[c] \notin {"scanned", "enter"}
    BY <1>0, CapturingMoves
  <1>2. (Opened' => Opened) /\ Counting /\ \A d \in Captures : phase'[d] # "scanned"
    BY <1>1, Uncounted
  <1>3. aux.by = NoId \/ aux.id = c
    <2>1. aux.by \in {NoId, c}
      BY <1>0, OthersRest
    <2> QED BY <1>0, <1>1, <2>1 DEF CaptureOK, HoldsOK
  <1>4. ASSUME NEW gone, CloseFails(c, s, gone), aux' = aux \/ aux' = Free,
               \A d \in Captures : granted'[d] \subseteq granted[d]
        PROVE  BudgetOK'
    <2>1. Delete(gone, {c}, {}) /\ usage' = Unknown /\ UNCHANGED size
      BY <1>4 DEF CloseFails, Abort
    <2> QED BY <1>1, <1>4, <2>1, DeleteShrinks, TakesBudget
  <1>5. CASE Claim(c, s)
    <2> DEFINE u == <<c, s, size[c][s] + 1>>
    <2>1. /\ Charge(1, c, 1) /\ granted' = [granted EXCEPT ![c] = @ \union {s}] /\ UNCHANGED <<size, aux>>
      BY <1>5 DEF Claim
    <2>2. Gone(1, c) \in SUBSET Ids /\ c \notin Gone(1, c)
      BY GoneFacts
    <2>3. Stored(Ids)' \union Flying \union Pending \subseteq Future \ Stored(Gone(1, c))
      BY <1>0, <1>3, <2>1, <2>2, EvictFuture DEF Charge
    <2>4. Pending' = Pending
      BY <2>1 DEF Pending, AuxName
    <2>5. Flying' \subseteq Flying \union {u}
      <3> SUFFICES ASSUME NEW v \in Flying' PROVE v \in Flying \union {u}
        OBVIOUS
      <3>1. /\ v \in Captures \X StreamSet \X (1..Chunks + 1) /\ v = <<v[1], v[2], v[3]>>
            /\ v[2] \in granted'[v[1]] /\ v[3] = size[v[1]][v[2]] + 1
        BY <2>1 DEF Flying
      <3>2. v[2] \in granted[v[1]] \/ (v[1] = c /\ v[2] = s)
        BY <1>0, <2>1, <3>1 DEF StreamTypes
      <3> QED BY <3>1, <3>2 DEF Flying
    <2>6. Future' \subseteq (Future \ Stored(Gone(1, c))) \union {u}
      BY <2>3, <2>4, <2>5 DEF Future
    <2> HIDE DEF u
    <2> QED BY <1>2, <1>3, <2>1, <2>6, ChargeBudget DEF Budgeted
  <1>6. CASE ClaimDenied(c, s)
    <2>0. UNCHANGED <<aux, granted>>
      BY <1>6 DEF ClaimDenied
    <2>1. CASE \E gone : CloseFails(c, s, gone)
      BY <1>4, <2>0, <2>1
    <2>2. CASE Stops(c, s) /\ UNCHANGED <<group, accounts>>
      BY <1>1, <2>0, <2>2, SameShrinks, TakesBudget DEF Stops, group, accounts
    <2>3. CASE Stops(c, s) /\ Deny(1, c)
      BY <1>2, <1>3, <2>0, <2>3, DenyBudget DEF Stops, Budgeted
    <2> QED BY <1>6, <2>1, <2>2, <2>3 DEF ClaimDenied
  <1>7. CASE Write(c, s)
    <2>1. /\ s \in granted[c] /\ granted' = [granted EXCEPT ![c] = @ \ {s}]
          /\ size' = [size EXCEPT ![c][s] = @ + 1] /\ UNCHANGED <<files, manifest, usage, aux>>
      BY <1>7 DEF Write, accounts
    <2>2. \A d \in Ids, r \in StreamSet : size'[d][r] = IF d = c /\ r = s THEN size[d][r] + 1 ELSE size[d][r]
      BY <1>0, <2>1 DEF SizesOK
    <2>3. Stored(Ids)' \subseteq Stored(Ids) \union Flying
      <3> SUFFICES ASSUME NEW u \in Stored(Ids)' PROVE u \in Stored(Ids) \union Flying
        OBVIOUS
      <3>1. /\ u \in Ids \X (Names \union {"manifest"}) \X (1..Chunks + 1) /\ u = <<u[1], u[2], u[3]>>
            /\ u[2] \in Held(u[1])' /\ u[3] <= Length(u[1], u[2])'
        BY DEF Stored
      <3>2. u[2] \in Held(u[1]) /\ u[3] \in Nat
        BY <2>1, <3>1, StoreAssumption DEF Held
      <3>3. CASE u[1] = c /\ u[2] = s
        <4>1. u[3] <= size[c][s] + 1
          BY <2>2, <3>1, <3>3, <1>0 DEF Length
        <4>2. CASE u[3] <= size[c][s]
          BY <3>1, <3>2, <3>3, <4>2 DEF Stored, Length
        <4>3. CASE u[3] = size[c][s] + 1
          BY <2>1, <3>1, <3>3, <4>3 DEF Flying
        <4> QED BY <1>0, <3>2, <4>1, <4>2, <4>3
      <3>4. CASE ~(u[1] = c /\ u[2] = s)
        <4>1. Length(u[1], u[2])' = Length(u[1], u[2])
          BY <2>2, <3>1, <3>4 DEF Length
        <4> QED BY <3>1, <3>2, <4>1 DEF Stored
      <3> QED BY <3>3, <3>4
    <2>4. Flying' \subseteq Flying
      <3> SUFFICES ASSUME NEW v \in Flying' PROVE v \in Flying
        OBVIOUS
      <3>1. /\ v \in Captures \X StreamSet \X (1..Chunks + 1)
            /\ v[2] \in granted'[v[1]] /\ v[3] = size'[v[1]][v[2]] + 1
        BY DEF Flying
      <3>2. v[2] \in granted[v[1]] /\ ~(v[1] = c /\ v[2] = s)
        BY <1>0, <2>1, <3>1 DEF StreamTypes
      <3>3. size'[v[1]][v[2]] = size[v[1]][v[2]]
        BY <2>2, <3>1, <3>2 DEF Ids
      <3> QED BY <3>1, <3>2, <3>3 DEF Flying
    <2>5. Future' \subseteq Future
      BY <2>1, <2>3, <2>4 DEF Future, Pending, AuxName
    <2> QED BY <1>2, <2>1, <2>5, Lighter DEF Budgeted, CountersOK
  <1>8. CASE WriteFails(c, s)
    <2>0. s \in granted[c] /\ granted' = [granted EXCEPT ![c] = @ \ {s}] /\ UNCHANGED aux
      BY <1>8 DEF WriteFails
    <2>1. \A d \in Captures : granted'[d] \subseteq granted[d]
      BY <1>0, <2>0 DEF StreamTypes
    <2>2. CASE CloseFails(c, s, {})
      BY <1>4, <2>0, <2>1, <2>2
    <2>3. CASE Stops(c, s) /\ Refund(c) /\ UNCHANGED <<group, owners>>
      <3> DEFINE u == <<c, s, size[c][s] + 1>>
      <3>1. UNCHANGED <<files, manifest, size>> /\ usage' = Monus(Total, 1)
        BY <2>3 DEF Stops, Refund, group
      <3>2. Future' \subseteq Future
        BY <2>0, <2>1, <3>1, SameShrinks, ShrinkFuture
      <3>3. u \in Flying
        <4>1. size[c][s] + 1 \in 1..Chunks + 1
          BY <1>0, <2>0, StoreAssumption DEF SizesOK
        <4> QED BY <2>0, <4>1 DEF Flying
      <3>4. u \notin Stored(Ids)
        BY <1>0, <3>3, FlyingApart
      <3>5. u \notin Flying'
        BY <1>0, <2>0 DEF Flying, StreamTypes
      <3>6. u \notin Pending
        <4>1. AuxName \notin StreamSet
          <5>1. aux.for \in StreamSet => Sidecar[aux.for] \notin StreamSet
            BY SidecarFacts
          <5>2. "digest" \notin StreamSet /\ "manifest" \notin StreamSet
            BY StreamFacts
          <5> QED BY <5>1, <5>2 DEF AuxName
        <4> QED BY <4>1 DEF Pending
      <3>7. Stored(Ids)' = Stored(Ids) /\ Pending' = Pending
        BY <2>0, <3>1 DEF Stored, Held, Length, Pending, AuxName
      <3>8. Future' \subseteq Future \ {u} /\ u \in Future
        BY <3>2, <3>3, <3>4, <3>5, <3>6, <3>7 DEF Future
      <3> HIDE DEF u
      <3>9. /\ Cardinality(Future)' <= Cardinality(Future) - 1
            /\ Cardinality(Future)' \in Nat
        <4>1. IsFiniteSet(Future)
          BY <1>0, FutureFinite
        <4>2. IsFiniteSet(Future \ {u}) /\ Cardinality(Future \ {u}) = Cardinality(Future) - 1
          BY <3>8, <4>1, FS_RemoveElement
        <4> QED BY <3>8, <4>2, FS_Subset, FS_CardinalityType
      <3>10. /\ aux.old \in Nat /\ aux'.old = aux.old /\ Total \in Nat /\ Cardinality(Future) \in Nat
        BY <2>0, Short DEF Budgeted
      <3>11. Weight' <= Weight - 1 + 0
        BY <3>9, <3>10 DEF Weight
      <3>12. usage' = Monus(Total, 1) + 0
        BY <3>1, <3>10 DEF Monus
      <3> QED BY <1>2, <3>2, <3>9, <3>10, <3>11, <3>12, Reckoned DEF Budgeted
    <2> QED BY <1>8, <2>2, <2>3 DEF WriteFails
  <1>9. CASE BeginClose(c, s) \/ Finish(c, s) \/ Digested(c, s)
    <2>1. /\ UNCHANGED <<files, manifest, size, granted>> /\ (usage' = usage \/ usage' = Unknown)
          /\ aux' = aux \/ aux' = Free
      BY <1>9 DEF BeginClose, Finish, Digested, disk, group, accounts
    <2> QED BY <1>1, <2>1, SameShrinks, TakesBudget
  <1>10. CASE Flush(c, s)
    <2>1. AuxCharge(c, s, c, Sidecar[s]) /\ UNCHANGED <<size, granted>>
      BY <1>10 DEF Flush
    <2>2. Sidecar[s] # "manifest"
      BY StreamFacts DEF Sidecar
    <2> QED BY <1>0, <1>2, <2>1, <2>2, AuxChargeBudget DEF Budgeted
  <1>11. CASE Digest(c, s)
    <2>1. AuxCharge(c, Sidecar[s], c, "digest") /\ UNCHANGED <<size, granted>>
      BY <1>11 DEF Digest
    <2> QED BY <1>0, <1>2, <2>1, AuxChargeBudget DEF Budgeted
  <1>12. CASE FlushFails(c, s)
    <2>1. PICK gone : CloseFails(c, s, gone)
      BY <1>12 DEF FlushFails
    <2>2. (aux' = aux \/ aux' = Free) /\ UNCHANGED granted
      BY <1>12 DEF FlushFails, AuxFails
    <2> QED BY <1>4, <2>1, <2>2
  <1>13. CASE Unlist(c, s)
    <2>1. AuxSettle(c, s) /\ UNCHANGED <<files, manifest, size, granted>>
      BY <1>13 DEF Unlist, disk, group
    <2> QED BY <1>2, <2>1, SettleBudget DEF Budgeted
  <1> QED BY <1>5, <1>6, <1>7, <1>8, <1>9, <1>10, <1>11, <1>12, <1>13 DEF Capturing

\* The steps of no capture in particular: a metadata file reaches the disk, the
\* maintenance thread counts afresh, a reader reads.
LEMMA RestBudget ==
    ASSUME StoreInv, SizesOK, CountersOK, AuxOK, BudgetOK,
           AuxReplace \/ Maintain \/ UNCHANGED storeVars \/ \E i \in Ids : ReadPage(i)
    PROVE  BudgetOK'
  <1>1. (Opened' => Opened) /\ Counting /\ UNCHANGED granted
    BY DEF AuxReplace, Maintain, ReadPage, storeVars, capture, prepare, Opened, Counting
  <1>2. CASE AuxReplace
    <2>1. /\ aux.by \in Captures /\ ~aux.done /\ aux' = [aux EXCEPT !.done = TRUE]
          /\ UNCHANGED <<size, usage>>
          /\ \/ AuxName = "manifest" /\ manifest' = [manifest EXCEPT ![aux.id] = aux.for] /\ UNCHANGED files
             \/ files' = [files EXCEPT ![aux.id] = @ \union {AuxName}] /\ UNCHANGED manifest
      BY <1>2 DEF AuxReplace, StoreInv, AuxTypes, accounts
    <2>2. Pending = {<<aux.id, AuxName, 1>>} /\ Pending' = {}
      BY <2>1, StoreAssumption DEF Pending, StoreInv, AuxTypes, Ids
    <2>3. AuxName \notin StreamSet
      <3>1. aux.for \in StreamSet => Sidecar[aux.for] \notin StreamSet
        BY SidecarFacts
      <3>2. "digest" \notin StreamSet /\ "manifest" \notin StreamSet
        BY StreamFacts
      <3> QED BY <3>1, <3>2 DEF AuxName
    <2>4. Stored(Ids)' \subseteq Stored(Ids) \union Pending
      <3> SUFFICES ASSUME NEW u \in Stored(Ids)' PROVE u \in Stored(Ids) \union Pending
        OBVIOUS
      <3>1. /\ u \in Ids \X (Names \union {"manifest"}) \X (1..Chunks + 1) /\ u = <<u[1], u[2], u[3]>>
            /\ u[2] \in Held(u[1])' /\ u[3] <= Length(u[1], u[2])'
        BY DEF Stored
      <3>2. Length(u[1], u[2])' = Length(u[1], u[2])
        BY <2>1 DEF Length
      <3>3. CASE u[2] \in Held(u[1])
        BY <3>1, <3>2, <3>3 DEF Stored
      <3>4. CASE u[2] \notin Held(u[1])
        <4>1. u[1] = aux.id /\ u[2] = AuxName
          BY <2>1, <3>1, <3>4 DEF Held, StoreInv, DataTypes
        <4>2. u[3] = 1
          BY <2>3, <3>1, <3>2, <4>1, StoreAssumption DEF Length
        <4> QED BY <2>2, <3>1, <4>1, <4>2
      <3> QED BY <3>3, <3>4
    <2>5. Flying' = Flying
      BY <1>1, <2>1 DEF Flying
    <2>6. Future' \subseteq Future
      BY <2>2, <2>4, <2>5 DEF Future
    <2>7. aux'.old = aux.old
      BY <2>1 DEF StoreInv, AuxTypes
    <2> QED BY <1>1, <2>1, <2>6, <2>7, Lighter DEF CountersOK
  <1>3. CASE Maintain \/ UNCHANGED storeVars \/ \E i \in Ids : ReadPage(i)
    <2>1. Shrinks /\ aux' = aux /\ (usage' = usage \/ usage' = Unknown)
      BY <1>3, EvictShrinks, SameShrinks DEF Maintain, ReadPage, storeVars, disk, group, accounts
    <2>2. Future' \subseteq Future
      BY <1>1, <2>1, ShrinkFuture
    <2> QED BY <1>1, <2>1, <2>2, Lighter DEF CountersOK
  <1> QED BY <1>2, <1>3

\* Each step keeps the budget of the capture that runs, as long as it is the only one.
LEMMA AloneStep ==
    ASSUME StoreInv, SizesOK, CountersOK, Alone => AuxOK /\ BudgetOK, Alone', [StoreNext]_storeVars
    PROVE  AuxOK' /\ BudgetOK'
  <1>1. ASSUME NEW c \in Captures, MovesOK(c) PROVE Budgeted(c)
    <2>1. Only(c) /\ Only(c)' /\ Alone
      BY <1>1, OneRuns
    <2>2. \A d \in Captures : Admit(d) => d = c
      BY <2>1 DEF Admit, Advance, Only
    <2> QED BY <1>1, <2>1, <2>2, OpenedStep DEF Budgeted
  <1>2. ASSUME NEW c \in Captures, Opening(c) PROVE AuxOK' /\ BudgetOK'
    <2>1. Budgeted(c)
      BY <1>1, <1>2, OpeningMoves
    <2> QED BY <1>2, <2>1, OpeningAux, OpeningBudget DEF Budgeted
  <1>3. ASSUME NEW c \in Captures, Ending(c) PROVE AuxOK' /\ BudgetOK'
    <2>1. Budgeted(c)
      BY <1>1, <1>3, EndingMoves
    <2> QED BY <1>3, <2>1, EndingAux, EndingBudget DEF Budgeted
  <1>4. ASSUME NEW c \in Captures, NEW s \in StreamSet, Capturing(c, s) PROVE AuxOK' /\ BudgetOK'
    <2>1. Budgeted(c)
      BY <1>1, <1>4, CapturingMoves
    <2> QED BY <1>4, <2>1, CapturingAux, CapturingBudget DEF Budgeted
  <1>5. CASE AuxReplace \/ Maintain \/ UNCHANGED storeVars \/ \E i \in Ids : ReadPage(i)
    <2>1. UNCHANGED phase
      BY <1>5 DEF AuxReplace, Maintain, ReadPage, storeVars
    <2>2. Alone
      BY <2>1 DEF Alone
    <2> QED BY <1>5, <2>2, RestAux, RestBudget
  <1> QED BY <1>2, <1>3, <1>4, <1>5 DEF StoreNext

\* The inductive invariant of the accounts, beside StoreInv.
AccountInv ==
    /\ SizesOK /\ CountersOK /\ LogicalIsBytes /\ OrderOK(recent, Present)
    /\ Alone => AuxOK /\ BudgetOK

\* It holds at the start and each step keeps it.
LEMMA AccountInit ==
    ASSUME StoreInit
    PROVE  AccountInv
  <1>1. SizesOK
    BY StoreAssumption DEF StoreInit, SizesOK, Ids
  <1>2. CountersOK
    BY UnitsFinite, StoreAssumption DEF StoreInit, CountersOK, Free, Unknown
  <1>3. LogicalIsBytes
    BY DEF StoreInit, LogicalIsBytes, Ids
  <1>4. OrderOK(recent, Present)
    <2>1. Present \subseteq Old
      BY DEF Present, Exists, StoreInit
    <2> QED BY <2>1 DEF StoreInit, OrderOK, Compares, Ids
  <1>5. AuxOK
    BY DEF StoreInit, AuxOK, Free
  <1>6. BudgetOK
    BY DEF StoreInit, BudgetOK, Opened
  <1> QED BY <1>1, <1>2, <1>3, <1>4, <1>5, <1>6 DEF AccountInv
LEMMA AccountStep ==
    ASSUME StoreInv, AccountInv, [StoreNext]_storeVars
    PROVE  AccountInv'
  <1>1. SizesOK' /\ CountersOK' /\ LogicalIsBytes' /\ OrderOK(recent', Present')
    BY SizesStep, CountersStep, LogicalStep, OrderStep DEF AccountInv
  <1>2. Alone' => AuxOK' /\ BudgetOK'
    BY AloneStep DEF AccountInv
  <1> QED BY <1>1, <1>2 DEF AccountInv

\* It says what is charged.
LEMMA AccountsFollow ==
    ASSUME StoreInv, AccountInv
    PROVE  AccountsSafe
  <1>1. StoreTypeOK
    <2>1. recent \subseteq Ids \X Ids /\ Strict(recent) /\ Compares(recent, {i \in Ids : Exists(i)})
      BY DEF AccountInv, OrderOK, Present
    <2>2. active \in [Ids -> 0..Cardinality(StreamSet)]
      BY UnitsFinite DEF AccountInv, CountersOK, StoreInv, OwnerTypes, Width
    <2>3. /\ usage \in Nat \union {Unknown} /\ aux.old \in {0, 1} /\ faults \in 0..Faults
          /\ size \in [Ids -> [StreamSet -> 0..Chunks + 1]]
      BY DEF AccountInv, CountersOK, SizesOK
    <2>4. aux.by \in Captures \union {NoId} /\ aux.id \in Ids \union {NoId} /\ aux.done \in BOOLEAN
      BY DEF StoreInv, AuxTypes
    <2>5. leased \subseteq Ids
      BY DEF StoreInv, OwnerTypes, Ids, Captures
    <2> QED BY <2>1, <2>2, <2>3, <2>4, <2>5 DEF StoreTypeOK, StoreInv, DataTypes, ThreadTypes, StreamTypes
  <1>2. AccountedAlone
    <2> SUFFICES ASSUME Alone, aux = Free PROVE
            /\ usage # Unknown => Cardinality(Stored(Ids) \union Flying) <= usage + Cardinality(StreamSet)
            /\ (\E c \in Captures, s \in StreamSet : stream[c][s] # "none")
                  => Cardinality(Stored(Ids) \union Flying) <= Quota + Cardinality(StreamSet)
      BY DEF AccountedAlone
    <2>1. Pending = {} /\ aux.old = 0 /\ BudgetOK
      BY DEF Pending, Free, AccountInv
    <2>2. Future = Stored(Ids) \union Flying
      BY <2>1 DEF Future
    <2>3. Cardinality(Future) \in Nat
      BY FutureFinite DEF AccountInv
    <2>4. Weight = Cardinality(Future)
      BY <2>1, <2>3 DEF Weight
    <2> QED BY <2>1, <2>2, <2>4 DEF BudgetOK, Opened, Width
  <1> QED BY <1>1, <1>2 DEF AccountsSafe, AccountInv

\* What the store has charged to an artifact is what its streams have written or
\* are about to write, within the limit of one artifact; and while one capture
\* runs, the cached total falls short of what is on disk by one chunk or metadata
\* file per stream at most, and the disk exceeds the quota by no more, through
\* eviction, rollback, replaced manifests and a maintenance pass at any moment
\* (output_store.py:363, 401, 418, 436, 521).
THEOREM AccountsAreSafe == StoreSpec => []AccountsSafe
  <1>1. StoreInv /\ AccountInv /\ [StoreNext]_storeVars => AccountInv'
    BY AccountStep
  <1>2. StoreInv /\ AccountInv => AccountsSafe
    BY AccountsFollow
  <1> QED BY <1>1, <1>2, AccountInit, StoreInvHolds, PTL DEF StoreSpec

=============================================================================
