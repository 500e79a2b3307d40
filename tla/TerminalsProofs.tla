--------------------------- MODULE TerminalsProofs ---------------------------
(* Theorems about terminal sessions, for every number of sessions, closing    *)
(* threads, writers and descriptors, and every limit.                         *)
EXTENDS Terminals, FiniteSetTheorems, TLAPS

\* What a session has on the way from its start to the end of its reader: the lease from Lease to
\* Release, the descriptor from Spawn until the reader closes it, the status from Insert on.
PhasesOK ==
    \A s \in Sessions :
        /\ start[s] \in {"idle", "refused", "checked"} => s \notin leases
        /\ start[s] \in {"leased", "leaked", "spawned", "listed", "armed", "orphaned"} => s \in leases
        /\ start[s] = "started" => (s \in leases <=> reader[s] # "done")
        /\ start[s] \in {"idle", "refused", "checked", "leased", "leaked"} => ~ alive[s] /\ fd[s] = 0
        /\ start[s] \in {"listed", "armed", "orphaned", "started"} <=> status[s] # "none"
        /\ start[s] = "started" <=> reader[s] # "none"

\* The reader sets the last status, and closes the descriptor, when the shell is gone.
ReadersOK ==
    \A s \in Sessions :
        /\ reader[s] \in {"ending", "releasing", "done"} => ~ alive[s] /\ status[s] \in Final
        /\ reader[s] \in {"releasing", "done"} => fd[s] = 0

\* Only sessions that are in the table are closed, and a thread writes "closed" when the shell of
\* the session is gone.
ClosersOK ==
    \A k \in Agents :
        /\ at[k] # "idle" => on[k] \in Sessions /\ status[on[k]] # "none"
        /\ at[k] = "finish" => ~ alive[on[k]]
        /\ \A s \in todo[k] : status[s] # "none"

\* A live shell has its descriptor, and what a writer has read of it is still true.
DescriptorsOK ==
    /\ \A s \in Sessions : alive[s] => fd[s] # 0
    /\ \A w \in Writers : number[w] # 0 =>
          /\ wrote[w] \in Sessions
          /\ status[wrote[w]] # "none"
          /\ alive[wrote[w]] => fd[wrote[w]] = number[w]

SessionInv == TypeOK /\ PhasesOK /\ ReadersOK /\ ClosersOK /\ DescriptorsOK /\ DescriptorIsOwn

\* An open descriptor belongs to a session that holds a lease, so that no more pseudo terminals are
\* open than the limiter admits.
DescriptorsAreLeased == \A s \in Sessions : fd[s] # 0 => s \in leases

-----------------------------------------------------------------------------
(* Every step keeps the invariant.                                             *)

\* The shell of s has ended or was not there, and what is left of it keeps its type.
Ends(s) ==
    /\ alive' = [alive EXCEPT ![s] = FALSE]
    /\ left' \in [Sessions -> SUBSET {"group", "own"}]

\* A shell that ends leaves what it has started, in its process group or out of it.
LEMMA LeavesEnds ==
    ASSUME TypeOK, NEW s \in Sessions, NEW kept \in SUBSET {"group", "own"}, Leaves(s, kept)
    PROVE  Ends(s)
<1>1. PICK some \in SUBSET kept : left' = [left EXCEPT ![s] = some]
  BY DEF Leaves
<1>2. some \in SUBSET {"group", "own"}
  OBVIOUS
<1>. QED
  BY <1>1, <1>2 DEF Leaves, Ends, TypeOK

\* After a kill of the process group there is no shell, whether or not it was there before.
LEMMA KillEnds ==
    ASSUME TypeOK, NEW s \in Sessions, KillGroup(s)
    PROVE  Ends(s)
<1>1. CASE alive[s]
  <2>1. Leaves(s, {"own"})
    BY <1>1 DEF KillGroup
  <2>2. {"own"} \in SUBSET {"group", "own"}
    OBVIOUS
  <2>. QED
    BY <2>1, <2>2, LeavesEnds
<1>2. CASE ~ alive[s]
  <2>1. left' = [left EXCEPT ![s] = @ \ {"group"}] /\ alive' = alive
    BY <1>2 DEF KillGroup
  <2>. QED
    BY <1>2, <2>1 DEF Ends, TypeOK
<1>. QED
  BY <1>1, <1>2

\* The thread that starts a session keeps the invariant.
LEMMA StarterKeeps ==
    ASSUME SessionInv, NEW s \in Sessions, StarterStep(s)
    PROVE  SessionInv'
<1>. USE DEF SessionInv, TypeOK, Agents, Fds, Active, Final, threads, closing, writing, fds, shell
<1>1. CASE CheckLimit(s)
  <2>1. TypeOK'
    BY <1>1 DEF CheckLimit
  <2>2. PhasesOK' /\ ReadersOK'
    BY <1>1 DEF CheckLimit, PhasesOK, ReadersOK
  <2>3. ClosersOK'
    BY <1>1 DEF CheckLimit, PhasesOK, ReadersOK, ClosersOK
  <2>4. DescriptorsOK' /\ DescriptorIsOwn'
    BY <1>1 DEF CheckLimit, PhasesOK, ReadersOK, ClosersOK, DescriptorsOK, DescriptorIsOwn
  <2>. QED
    BY <2>1, <2>2, <2>3, <2>4
<1>2. CASE Lease(s)
  <2>1. TypeOK'
    BY <1>2 DEF Lease, Pool!Take
  <2>2. PhasesOK' /\ ReadersOK'
    BY <1>2 DEF Lease, Pool!Take, PhasesOK, ReadersOK
  <2>3. ClosersOK'
    BY <1>2 DEF Lease, Pool!Take, PhasesOK, ReadersOK, ClosersOK
  <2>4. DescriptorsOK' /\ DescriptorIsOwn'
    BY <1>2 DEF Lease, Pool!Take, PhasesOK, ReadersOK, ClosersOK, DescriptorsOK, DescriptorIsOwn
  <2>. QED
    BY <2>1, <2>2, <2>3, <2>4
<1>3. CASE Spawn(s)
  <2>1. TypeOK'
    BY <1>3 DEF Spawn
  <2>2. PhasesOK' /\ ReadersOK'
    BY <1>3 DEF Spawn, PhasesOK, ReadersOK
  <2>3. ClosersOK'
    BY SMTT(40), <1>3 DEF Spawn, PhasesOK, ReadersOK, ClosersOK
  <2>4. PICK n \in Fds : owner[n] = NoSession /\ fd' = [fd EXCEPT ![s] = n] /\ owner' = [owner EXCEPT ![n] = s]
    BY <1>3 DEF Spawn
  <2>5. status[s] = "none" /\ fd[s] = 0 /\ n # 0
    BY <1>3 DEF Spawn, PhasesOK
  <2>6. DescriptorsOK'
    BY <1>3, <2>4, <2>5 DEF Spawn, DescriptorsOK
  <2>7. DescriptorIsOwn'
    BY <2>4, <2>5, TerminalsAssumption DEF DescriptorIsOwn, TerminalsAssumption
  <2>. QED
    BY <2>1, <2>2, <2>3, <2>6, <2>7
<1>4. CASE SpawnFails(s)
  <2>1. TypeOK'
    BY <1>4 DEF SpawnFails, Pool!Give
  <2>2. PhasesOK' /\ ReadersOK'
    BY <1>4 DEF SpawnFails, Pool!Give, PhasesOK, ReadersOK
  <2>3. ClosersOK'
    BY <1>4 DEF SpawnFails, Pool!Give, PhasesOK, ReadersOK, ClosersOK
  <2>4. DescriptorsOK' /\ DescriptorIsOwn'
    BY <1>4 DEF SpawnFails, Pool!Give, PhasesOK, ReadersOK, ClosersOK, DescriptorsOK, DescriptorIsOwn
  <2>. QED
    BY <2>1, <2>2, <2>3, <2>4
<1>5. CASE Insert(s)
  <2>1. TypeOK'
    BY <1>5 DEF Insert
  <2>2. PhasesOK' /\ ReadersOK'
    BY <1>5 DEF Insert, PhasesOK, ReadersOK
  <2>3. ClosersOK'
    BY <1>5 DEF Insert, PhasesOK, ReadersOK, ClosersOK
  <2>4. DescriptorsOK' /\ DescriptorIsOwn'
    BY <1>5 DEF Insert, PhasesOK, ReadersOK, ClosersOK, DescriptorsOK, DescriptorIsOwn
  <2>. QED
    BY <2>1, <2>2, <2>3, <2>4
<1>6. CASE SetCancel(s)
  <2>1. TypeOK'
    <3>1. start' \in [Sessions -> {"idle", "refused", "checked", "leased", "leaked", "spawned",
                                   "listed", "armed", "started", "orphaned"}]
      BY <1>6 DEF SetCancel
    <3>2. at' \in [Agents -> {"idle", "enter", "signal", "escalate", "finish"}]
      BY <1>6 DEF SetCancel
    <3>3. on' \in [Agents -> Sessions \union {NoSession}]
      BY <1>6 DEF SetCancel
    <3>. QED
      BY <1>6, <3>1, <3>2, <3>3 DEF SetCancel
  <2>2. PhasesOK' /\ ReadersOK'
    BY <1>6 DEF SetCancel, PhasesOK, ReadersOK
  <2>3. ClosersOK'
    BY <1>6 DEF SetCancel, PhasesOK, ReadersOK, ClosersOK
  <2>4. DescriptorsOK' /\ DescriptorIsOwn'
    BY <1>6 DEF SetCancel, PhasesOK, ReadersOK, ClosersOK, DescriptorsOK, DescriptorIsOwn
  <2>. QED
    BY <2>1, <2>2, <2>3, <2>4
<1>7. CASE StartThreads(s)
  <2>1. TypeOK'
    <3>1. start' \in [Sessions -> {"idle", "refused", "checked", "leased", "leaked", "spawned",
                                   "listed", "armed", "started", "orphaned"}]
      BY <1>7 DEF StartThreads
    <3>2. reader' \in [Sessions -> {"none", "reading", "waiting", "ending", "releasing", "done"}]
      BY <1>7 DEF StartThreads
    <3>. QED
      BY <1>7, <3>1, <3>2 DEF StartThreads
  <2>2. PhasesOK' /\ ReadersOK'
    BY <1>7 DEF StartThreads, PhasesOK, ReadersOK
  <2>3. ClosersOK'
    BY <1>7 DEF StartThreads, PhasesOK, ReadersOK, ClosersOK
  <2>4. DescriptorsOK' /\ DescriptorIsOwn'
    BY <1>7 DEF StartThreads, PhasesOK, ReadersOK, ClosersOK, DescriptorsOK, DescriptorIsOwn
  <2>. QED
    BY <2>1, <2>2, <2>3, <2>4
<1>. QED
  BY <1>1, <1>2, <1>3, <1>4, <1>5, <1>6, <1>7 DEF StarterStep

\* The reader of a session keeps it.
LEMMA ReaderKeeps ==
    ASSUME SessionInv, NEW s \in Sessions, ReaderStep(s)
    PROVE  SessionInv'
<1>. USE DEF SessionInv, TypeOK, Agents, Fds, Active, Final, threads, closing, writing, fds, shell
<1>1. CASE ReadEnds(s)
  <2>1. TypeOK'
    BY <1>1 DEF ReadEnds
  <2>2. PhasesOK' /\ ReadersOK'
    BY <1>1 DEF ReadEnds, PhasesOK, ReadersOK
  <2>3. ClosersOK'
    BY <1>1 DEF ReadEnds, PhasesOK, ReadersOK, ClosersOK
  <2>4. DescriptorsOK' /\ DescriptorIsOwn'
    BY <1>1 DEF ReadEnds, PhasesOK, ReadersOK, ClosersOK, DescriptorsOK, DescriptorIsOwn
  <2>. QED
    BY <2>1, <2>2, <2>3, <2>4
<1>2. CASE CaptureFails(s)
  <2>0. Ends(s)
    BY <1>2, KillEnds DEF CaptureFails
  <2>1. TypeOK'
    BY <1>2, <2>0 DEF CaptureFails, CloseFd, Ends
  <2>2. PhasesOK' /\ ReadersOK'
    BY <1>2, <2>0 DEF CaptureFails, CloseFd, Ends, PhasesOK, ReadersOK
  <2>3. ClosersOK'
    BY <1>2, <2>0 DEF CaptureFails, CloseFd, Ends, PhasesOK, ReadersOK, ClosersOK
  <2>4. DescriptorsOK' /\ DescriptorIsOwn'
    BY <1>2, <2>0 DEF CaptureFails, CloseFd, Ends, PhasesOK, ReadersOK, ClosersOK, DescriptorsOK, DescriptorIsOwn
  <2>. QED
    BY <2>1, <2>2, <2>3, <2>4
<1>3. CASE ReaderRaises(s)
  <2>0. Ends(s)
    BY <1>3, KillEnds DEF ReaderRaises
  <2>1. TypeOK'
    BY <1>3, <2>0 DEF ReaderRaises, CloseFd, Ends
  <2>2. PhasesOK' /\ ReadersOK'
    BY <1>3, <2>0 DEF ReaderRaises, CloseFd, Ends, PhasesOK, ReadersOK
  <2>3. ClosersOK'
    BY <1>3, <2>0 DEF ReaderRaises, CloseFd, Ends, PhasesOK, ReadersOK, ClosersOK
  <2>4. DescriptorsOK' /\ DescriptorIsOwn'
    BY <1>3, <2>0 DEF ReaderRaises, CloseFd, Ends, PhasesOK, ReadersOK, ClosersOK, DescriptorsOK, DescriptorIsOwn
  <2>. QED
    BY <2>1, <2>2, <2>3, <2>4
<1>4. CASE SetStatus(s)
  <2>1. TypeOK'
    BY <1>4 DEF SetStatus
  <2>2. PhasesOK' /\ ReadersOK'
    BY <1>4 DEF SetStatus, PhasesOK, ReadersOK
  <2>3. ClosersOK'
    BY <1>4 DEF SetStatus, PhasesOK, ReadersOK, ClosersOK
  <2>4. DescriptorsOK' /\ DescriptorIsOwn'
    BY <1>4 DEF SetStatus, PhasesOK, ReadersOK, ClosersOK, DescriptorsOK, DescriptorIsOwn
  <2>. QED
    BY <2>1, <2>2, <2>3, <2>4
<1>5. CASE ReaderEnds(s)
  <2>1. TypeOK'
    BY <1>5 DEF ReaderEnds, CloseFd
  <2>2. PhasesOK' /\ ReadersOK'
    BY <1>5 DEF ReaderEnds, CloseFd, PhasesOK, ReadersOK
  <2>3. ClosersOK'
    BY <1>5 DEF ReaderEnds, CloseFd, PhasesOK, ReadersOK, ClosersOK
  <2>4. DescriptorsOK' /\ DescriptorIsOwn'
    BY <1>5 DEF ReaderEnds, CloseFd, PhasesOK, ReadersOK, ClosersOK, DescriptorsOK, DescriptorIsOwn
  <2>. QED
    BY <2>1, <2>2, <2>3, <2>4
<1>6. CASE Release(s)
  <2>1. TypeOK'
    BY <1>6 DEF Release, Pool!Give
  <2>2. PhasesOK' /\ ReadersOK'
    BY <1>6 DEF Release, Pool!Give, PhasesOK, ReadersOK
  <2>3. ClosersOK'
    BY <1>6 DEF Release, Pool!Give, PhasesOK, ReadersOK, ClosersOK
  <2>4. DescriptorsOK' /\ DescriptorIsOwn'
    BY <1>6 DEF Release, Pool!Give, PhasesOK, ReadersOK, ClosersOK, DescriptorsOK, DescriptorIsOwn
  <2>. QED
    BY <2>1, <2>2, <2>3, <2>4
<1>. QED
  BY <1>1, <1>2, <1>3, <1>4, <1>5, <1>6 DEF ReaderStep, ReaderGoes

\* A thread that closes a session keeps it, the one of shutdown as well.
LEMMA CloserKeeps ==
    ASSUME SessionInv, NEW k \in Agents, CloseStep(k) \/ Shutdown(k)
    PROVE  SessionInv'
<1>. USE DEF SessionInv, TypeOK, Agents, Fds, Active, Final, threads, closing, writing, fds, shell
<1>1. CASE ShutdownNext(k)
  <2>1. TypeOK'
    BY <1>1 DEF ShutdownNext
  <2>2. PhasesOK' /\ ReadersOK'
    BY <1>1 DEF ShutdownNext, PhasesOK, ReadersOK
  <2>3. ClosersOK'
    BY <1>1 DEF ShutdownNext, PhasesOK, ReadersOK, ClosersOK
  <2>4. DescriptorsOK' /\ DescriptorIsOwn'
    BY <1>1 DEF ShutdownNext, PhasesOK, ReadersOK, ClosersOK, DescriptorsOK, DescriptorIsOwn
  <2>. QED
    BY <2>1, <2>2, <2>3, <2>4
<1>2. CASE EnterClose(k)
  <2>0. on[k] \in Sessions /\ status[on[k]] # "none"
    BY <1>2 DEF EnterClose, ClosersOK
  <2>1. TypeOK'
    <3>1. CASE status[on[k]] \in Final
      BY SMTT(40), <1>2, <2>0, <3>1 DEF EnterClose
    <3>2. CASE status[on[k]] \notin Final
      BY ZenonT(60), <1>2, <2>0, <3>2 DEF EnterClose
    <3>. QED
      BY <3>1, <3>2
  <2>2. PhasesOK' /\ ReadersOK'
    BY <1>2, <2>0 DEF EnterClose, PhasesOK, ReadersOK
  <2>3. ClosersOK'
    BY <1>2, <2>0 DEF EnterClose, PhasesOK, ReadersOK, ClosersOK
  <2>4. DescriptorsOK' /\ DescriptorIsOwn'
    BY <1>2, <2>0 DEF EnterClose, PhasesOK, ReadersOK, ClosersOK, DescriptorsOK, DescriptorIsOwn
  <2>. QED
    BY <2>1, <2>2, <2>3, <2>4
<1>3. CASE Signal(k)
  <2>0. on[k] \in Sessions /\ status[on[k]] # "none"
    BY <1>3 DEF Signal, ClosersOK
  <2>e. Ends(on[k]) \/ UNCHANGED shell
    BY <1>3, <2>0, KillEnds, LeavesEnds DEF Signal
  <2>1. TypeOK'
    BY <1>3, <2>0, <2>e DEF Signal, Ends
  <2>2. PhasesOK' /\ ReadersOK'
    BY <1>3, <2>0, <2>e DEF Signal, Ends, PhasesOK, ReadersOK
  <2>3. ClosersOK'
    BY <1>3, <2>0, <2>e DEF Signal, Ends, PhasesOK, ReadersOK, ClosersOK
  <2>4. DescriptorsOK' /\ DescriptorIsOwn'
    BY SMTT(40), <1>3, <2>0, <2>e DEF Signal, Ends, PhasesOK, ReadersOK, ClosersOK, DescriptorsOK, DescriptorIsOwn
  <2>. QED
    BY <2>1, <2>2, <2>3, <2>4
<1>4. CASE Escalate(k)
  <2>0. on[k] \in Sessions /\ status[on[k]] # "none"
    BY <1>4 DEF Escalate, ClosersOK
  <2>e. Ends(on[k])
    <3>1. Ends(on[k]) \/ (~ alive[on[k]] /\ UNCHANGED shell)
      BY <1>4, <2>0, KillEnds DEF Escalate
    <3>. QED
      BY <2>0, <3>1 DEF Ends
  <2>f. at[k] = "escalate" /\ at' = [at EXCEPT ![k] = "finish"]
        /\ UNCHANGED <<threads, status, event, leases, fds, on, todo, writing>>
    BY <1>4 DEF Escalate
  <2>1. TypeOK'
    BY <2>0, <2>e, <2>f DEF Ends
  <2>2. PhasesOK' /\ ReadersOK'
    BY <2>0, <2>e, <2>f DEF Ends, PhasesOK, ReadersOK
  <2>3. ClosersOK'
    BY <2>0, <2>e, <2>f DEF Ends, PhasesOK, ReadersOK, ClosersOK
  <2>4. DescriptorsOK' /\ DescriptorIsOwn'
    BY <2>0, <2>e, <2>f DEF Ends, PhasesOK, ReadersOK, ClosersOK, DescriptorsOK, DescriptorIsOwn
  <2>. QED
    BY <2>1, <2>2, <2>3, <2>4
<1>5. CASE FinishClose(k)
  <2>0. on[k] \in Sessions /\ status[on[k]] # "none"
    BY <1>5 DEF FinishClose, ClosersOK
  <2>1. TypeOK'
    BY <1>5, <2>0 DEF FinishClose
  <2>2. PhasesOK' /\ ReadersOK'
    BY <1>5, <2>0 DEF FinishClose, PhasesOK, ReadersOK
  <2>3. ClosersOK'
    BY <1>5, <2>0 DEF FinishClose, PhasesOK, ReadersOK, ClosersOK
  <2>4. DescriptorsOK' /\ DescriptorIsOwn'
    BY <1>5, <2>0 DEF FinishClose, PhasesOK, ReadersOK, ClosersOK, DescriptorsOK, DescriptorIsOwn
  <2>. QED
    BY <2>1, <2>2, <2>3, <2>4
<1>6. CASE Shutdown(k)
  <2>1. TypeOK'
    BY <1>6 DEF Shutdown, ActiveSessions
  <2>2. PhasesOK' /\ ReadersOK'
    BY <1>6 DEF Shutdown, ActiveSessions, PhasesOK, ReadersOK
  <2>3. ClosersOK'
    BY <1>6 DEF Shutdown, ActiveSessions, PhasesOK, ReadersOK, ClosersOK
  <2>4. DescriptorsOK' /\ DescriptorIsOwn'
    BY <1>6 DEF Shutdown, ActiveSessions, PhasesOK, ReadersOK, ClosersOK, DescriptorsOK, DescriptorIsOwn
  <2>. QED
    BY <2>1, <2>2, <2>3, <2>4
<1>. QED
  BY <1>1, <1>2, <1>3, <1>4, <1>5, <1>6 DEF CloseStep

\* So do those who ask for a close, and the processes that exit.
LEMMA CallerKeeps ==
    ASSUME SessionInv, NEW s \in Sessions,
           ShellExits(s) \/ OthersExit(s)
           \/ \E k \in Closers : StartClose(k, s) \/ IdleExpires(k, s) \/ CancelOperation(k, s)
    PROVE  SessionInv'
<1>. USE DEF SessionInv, TypeOK, Agents, Fds, Active, Final, threads, closing, writing, fds, shell
<1>1. CASE ShellExits(s)
  <2>0. Ends(s)
    BY <1>1, LeavesEnds DEF ShellExits
  <2>1. TypeOK'
    BY <1>1, <2>0 DEF ShellExits, Ends
  <2>2. PhasesOK' /\ ReadersOK'
    BY <1>1, <2>0 DEF ShellExits, Ends, PhasesOK, ReadersOK
  <2>3. ClosersOK'
    BY <1>1, <2>0 DEF ShellExits, Ends, PhasesOK, ReadersOK, ClosersOK
  <2>4. DescriptorsOK' /\ DescriptorIsOwn'
    BY <1>1, <2>0 DEF ShellExits, Ends, PhasesOK, ReadersOK, ClosersOK, DescriptorsOK, DescriptorIsOwn
  <2>. QED
    BY <2>1, <2>2, <2>3, <2>4
<1>2. CASE \E k \in Closers : StartClose(k, s) \/ IdleExpires(k, s)
  <2>1. PICK k \in Closers : StartClose(k, s)
    BY <1>2 DEF IdleExpires
  <2>2. TypeOK'
    BY <2>1 DEF StartClose
  <2>3. PhasesOK' /\ ReadersOK'
    BY <2>1 DEF StartClose, PhasesOK, ReadersOK
  <2>4. ClosersOK'
    BY <2>1 DEF StartClose, ClosersOK
  <2>5. DescriptorsOK' /\ DescriptorIsOwn'
    BY <2>1 DEF StartClose, DescriptorsOK, DescriptorIsOwn
  <2>. QED
    BY <2>2, <2>3, <2>4, <2>5
<1>3. CASE \E k \in Closers : CancelOperation(k, s)
  <2>1. TypeOK'
    BY SMTT(40), <1>3 DEF CancelOperation
  <2>2. PhasesOK' /\ ReadersOK'
    BY <1>3 DEF CancelOperation, PhasesOK, ReadersOK
  <2>3. ClosersOK'
    BY <1>3 DEF CancelOperation, PhasesOK, ReadersOK, ClosersOK
  <2>4. DescriptorsOK' /\ DescriptorIsOwn'
    BY <1>3 DEF CancelOperation, PhasesOK, ReadersOK, ClosersOK, DescriptorsOK, DescriptorIsOwn
  <2>. QED
    BY <2>1, <2>2, <2>3, <2>4
<1>4. CASE OthersExit(s)
  <2>1. TypeOK'
    BY <1>4 DEF OthersExit
  <2>2. PhasesOK' /\ ReadersOK' /\ ClosersOK'
    BY <1>4 DEF OthersExit, PhasesOK, ReadersOK, ClosersOK
  <2>3. DescriptorsOK' /\ DescriptorIsOwn'
    BY <1>4 DEF OthersExit, DescriptorsOK, DescriptorIsOwn
  <2>. QED
    BY <2>1, <2>2, <2>3
<1>. QED
  BY <1>1, <1>2, <1>3, <1>4

\* And the writers, who change nothing but their own locals.
LEMMA WriterKeeps ==
    ASSUME SessionInv, NEW w \in Writers, Write(w) \/ \E s \in Sessions : WriteReadFd(w, s)
    PROVE  SessionInv'
<1>. USE DEF SessionInv, TypeOK, Agents, Fds, Active, Final, threads, closing, writing, fds, shell
<1>1. CASE Write(w)
  <2>1. TypeOK'
    BY <1>1 DEF Write
  <2>2. PhasesOK' /\ ReadersOK'
    BY <1>1 DEF Write, PhasesOK, ReadersOK
  <2>3. ClosersOK'
    BY <1>1 DEF Write, PhasesOK, ReadersOK, ClosersOK
  <2>4. DescriptorsOK' /\ DescriptorIsOwn'
    BY <1>1 DEF Write, PhasesOK, ReadersOK, ClosersOK, DescriptorsOK, DescriptorIsOwn
  <2>. QED
    BY <2>1, <2>2, <2>3, <2>4
<1>2. CASE \E s \in Sessions : WriteReadFd(w, s)
  <2>1. TypeOK'
    BY <1>2 DEF WriteReadFd
  <2>2. PhasesOK' /\ ReadersOK'
    BY <1>2 DEF WriteReadFd, PhasesOK, ReadersOK
  <2>3. ClosersOK'
    BY <1>2 DEF WriteReadFd, PhasesOK, ReadersOK, ClosersOK
  <2>4. DescriptorsOK' /\ DescriptorIsOwn'
    BY <1>2 DEF WriteReadFd, PhasesOK, ReadersOK, ClosersOK, DescriptorsOK, DescriptorIsOwn
  <2>. QED
    BY <2>1, <2>2, <2>3, <2>4
<1>. QED
  BY <1>1, <1>2

-----------------------------------------------------------------------------
(* What follows from it.                                                       *)

\* Every step of the specification keeps the invariant.
LEMMA StepKeeps == SessionInv /\ [Next]_vars => SessionInv'
<1>1. CASE UNCHANGED vars
  BY <1>1 DEF vars, SessionInv, TypeOK, PhasesOK, ReadersOK, ClosersOK, DescriptorsOK, DescriptorIsOwn
<1>2. ASSUME SessionInv, NEW s \in Sessions,
             StarterStep(s) \/ ReaderStep(s) \/ ShellExits(s) \/ OthersExit(s)
      PROVE  SessionInv'
  BY <1>2, StarterKeeps, ReaderKeeps, CallerKeeps
<1>3. ASSUME SessionInv, NEW k \in Agents, CloseStep(k) \/ Shutdown(k)
      PROVE  SessionInv'
  BY <1>3, CloserKeeps
<1>4. ASSUME SessionInv, NEW k \in Closers, NEW s \in Sessions,
             StartClose(k, s) \/ IdleExpires(k, s) \/ CancelOperation(k, s)
      PROVE  SessionInv'
  BY <1>4, CallerKeeps
<1>5. ASSUME SessionInv, NEW w \in Writers, Write(w) \/ \E s \in Sessions : WriteReadFd(w, s)
      PROVE  SessionInv'
  BY <1>5, WriterKeeps
<1>. QED
  BY <1>1, <1>2, <1>3, <1>4, <1>5 DEF Next

\* The invariant holds at the start, when no session has been started.
LEMMA InitInv == Init => SessionInv
<1>. USE DEF Init, Pool!Init
<1>1. Init => TypeOK
  BY DEF TypeOK, Fds, Agents, Active, Final
<1>2. Init => PhasesOK /\ ReadersOK /\ ClosersOK
  BY DEF PhasesOK, ReadersOK, ClosersOK, Final
<1>3. Init => DescriptorsOK /\ DescriptorIsOwn
  BY DEF DescriptorsOK, DescriptorIsOwn
<1>. QED
  BY <1>1, <1>2, <1>3 DEF SessionInv

\* The inductive invariant of the terminal sessions: where the starter, the reader, the closers and
\* the writers are tells who has the lease and the descriptor.
THEOREM SessionInvHolds == Spec => []SessionInv
  BY InitInv, StepKeeps, PTL DEF Spec

\* Type correctness: every variable keeps its type, whatever the threads of terminal_tools.py do.
THEOREM TypesHold == Spec => []TypeOK
<1>1. SessionInv => TypeOK
  BY DEF SessionInv
<1>. QED
  BY <1>1, SessionInvHolds, PTL

\* The types hold; a session that is listed as active, and a live shell, holds its lease; the
\* descriptor of a session is its own pseudo terminal; a writer without a lock writes to a stranger
\* only when the shell it meant is gone.
THEOREM SessionsAreSafe == Spec => []SessionsSafe
<1>. USE DEF SessionInv
<1>1. SessionInv => ActiveHoldsLease
  BY DEF ActiveHoldsLease, PhasesOK, ReadersOK, TypeOK, Active, Final
<1>2. SessionInv => StrayOnlyAfterEnd
  BY DEF StrayOnlyAfterEnd, DescriptorsOK, DescriptorIsOwn, TypeOK
<1>3. SessionInv => SessionsSafe
  BY <1>1, <1>2 DEF SessionsSafe
<1>. QED
  BY <1>3, SessionInvHolds, PTL

\* An open pseudo terminal belongs to a session that still holds its lease: the reader closes the
\* descriptor before it releases, on the way through its failures as well.
THEOREM DescriptorsLeased == Spec => []DescriptorsAreLeased
<1>1. SessionInv => DescriptorsAreLeased
  BY DEF SessionInv, DescriptorsAreLeased, PhasesOK, ReadersOK, TypeOK
<1>. QED
  BY <1>1, SessionInvHolds, PTL

\* No thread brings a session that has ended back to life: neither Insert, nor a closer that has
\* passed its check before the reader ended; nor one that is closing.
THEOREM EndIsFinal == Spec => EndedStaysEnded
<1>1. SessionInv /\ [Next]_vars => \A s \in Sessions : EndIsEnd(s)
  <2>. SUFFICES ASSUME SessionInv, [Next]_vars, NEW s \in Sessions
                PROVE  EndIsEnd(s)
    OBVIOUS
  <2>. USE DEF EndIsEnd, SessionInv, TypeOK, Final, Active, threads, closing, writing, fds, shell
  <2>1. CASE UNCHANGED vars
    BY <2>1 DEF vars
  <2>2. ASSUME NEW t \in Sessions, StarterStep(t) \/ ReaderStep(t) \/ ShellExits(t) \/ OthersExit(t)
        PROVE  EndIsEnd(s)
    <3>1. CASE Insert(t)
      BY <3>1 DEF Insert, PhasesOK
    <3>2. CASE StarterStep(t) /\ ~ Insert(t)
      BY <3>2 DEF StarterStep, CheckLimit, Lease, Spawn, SpawnFails, SetCancel, StartThreads
    <3>3. CASE SetStatus(t) \/ ReaderRaises(t)
      BY <3>3 DEF SetStatus, ReaderRaises
    <3>4. CASE ReadEnds(t) \/ CaptureFails(t) \/ ReaderEnds(t) \/ Release(t) \/ ShellExits(t) \/ OthersExit(t)
      BY <3>4 DEF ReadEnds, CaptureFails, ReaderEnds, Release, ShellExits, OthersExit
    <3>. QED
      BY <2>2, <3>1, <3>2, <3>3, <3>4 DEF ReaderStep, ReaderGoes
  <2>3. ASSUME NEW k \in Agents, CloseStep(k) \/ Shutdown(k)
        PROVE  EndIsEnd(s)
    <3>1. CASE EnterClose(k)
      BY <3>1 DEF EnterClose
    <3>2. CASE FinishClose(k)
      BY <3>2 DEF FinishClose
    <3>3. CASE ShutdownNext(k) \/ Signal(k) \/ Escalate(k) \/ Shutdown(k)
      BY <3>3 DEF ShutdownNext, Signal, Escalate, Shutdown
    <3>. QED
      BY <2>3, <3>1, <3>2, <3>3 DEF CloseStep
  <2>4. ASSUME NEW k \in Closers, NEW t \in Sessions,
               StartClose(k, t) \/ IdleExpires(k, t) \/ CancelOperation(k, t)
        PROVE  EndIsEnd(s)
    BY <2>4 DEF StartClose, IdleExpires, CancelOperation
  <2>5. ASSUME NEW w \in Writers, Write(w) \/ \E t \in Sessions : WriteReadFd(w, t)
        PROVE  EndIsEnd(s)
    BY <2>5 DEF Write, WriteReadFd
  <2>. QED
    BY <2>1, <2>2, <2>3, <2>4, <2>5 DEF Next
<1>. QED
  BY <1>1, SessionInvHolds, PTL DEF Spec, EndedStaysEnded

-----------------------------------------------------------------------------
(* The leases are a pool.                                                      *)

\* Every step takes one lease from the pool, gives one back, or leaves the pool alone.
LEMMA StepUsesPool == [Next]_vars => [Pool!Next]_leases
<1>. SUFFICES ASSUME [Next]_vars PROVE [Pool!Next]_leases
  OBVIOUS
<1>. USE DEF Pool!Next
<1>1. CASE UNCHANGED vars
  BY <1>1 DEF vars
<1>2. ASSUME NEW s \in Sessions,
             StarterStep(s) \/ ReaderStep(s) \/ ShellExits(s) \/ OthersExit(s)
      PROVE  [Pool!Next]_leases
  <2>1. CASE StarterStep(s)
    BY <2>1 DEF StarterStep, CheckLimit, Lease, Spawn, SpawnFails, Insert, SetCancel, StartThreads
  <2>2. CASE ReaderStep(s)
    BY <2>2 DEF ReaderStep, ReaderGoes, ReadEnds, CaptureFails, ReaderRaises, SetStatus, ReaderEnds, Release
  <2>. QED
    BY <1>2, <2>1, <2>2 DEF ShellExits, OthersExit
<1>3. ASSUME NEW k \in Agents, CloseStep(k) \/ Shutdown(k)
      PROVE  [Pool!Next]_leases
  BY <1>3 DEF CloseStep, ShutdownNext, EnterClose, Signal, Escalate, FinishClose, Shutdown
<1>4. ASSUME NEW k \in Closers, NEW s \in Sessions,
             StartClose(k, s) \/ IdleExpires(k, s) \/ CancelOperation(k, s)
      PROVE  [Pool!Next]_leases
  BY <1>4 DEF StartClose, IdleExpires, CancelOperation
<1>5. ASSUME NEW w \in Writers, Write(w) \/ \E s \in Sessions : WriteReadFd(w, s)
      PROVE  [Pool!Next]_leases
  BY <1>5 DEF Write, WriteReadFd
<1>. QED
  BY <1>1, <1>2, <1>3, <1>4, <1>5 DEF Next

\* Terminal sessions use the lease pool as it is meant to be used: a start takes a lease, a start
\* that fails or the reader gives it back, and nobody gives back what he does not hold.
THEOREM SessionsUsePool == Spec => Pool!Spec
  BY StepUsesPool, PTL DEF Spec, Init, Pool!Spec

\* One step of the pool keeps the number of leases within the capacity.
LEMMA PoolStepKeeps ==
    ASSUME Pool!WithinCapacity, [Pool!Next]_leases
    PROVE  Pool!WithinCapacity'
<1>. USE DEF Pool!WithinCapacity
<1>1. \A S : Pool!Cardinality(S) = Cardinality(S)
  BY DEF Pool!Cardinality, Cardinality
<1>2. IsFiniteSet(leases) /\ Cardinality(leases) \in Nat
  BY FS_Subset, FS_CardinalityType, TerminalsAssumption DEF TerminalsAssumption
<1>3. ASSUME NEW s \in Sessions, Pool!Take(s)
      PROVE  Pool!WithinCapacity'
  <2>1. Cardinality(leases') = Cardinality(leases) + 1
    BY <1>2, <1>3, FS_AddElement DEF Pool!Take
  <2>. QED
    BY <1>1, <1>2, <1>3, <2>1, TerminalsAssumption DEF Pool!Take, TerminalsAssumption
<1>4. ASSUME NEW s \in Sessions, Pool!Give(s)
      PROVE  Pool!WithinCapacity'
  <2>1. Cardinality(leases') = Cardinality(leases) - 1
    BY <1>2, <1>4, FS_RemoveElement DEF Pool!Give
  <2>. QED
    BY <1>1, <1>2, <1>4, <2>1, TerminalsAssumption DEF Pool!Give, TerminalsAssumption
<1>5. CASE UNCHANGED leases
  BY <1>1, <1>5
<1>. QED
  BY <1>3, <1>4, <1>5 DEF Pool!Next

\* However many starts pass the check of max_terminal_sessions at the same time, no more sessions
\* are active, and no more pseudo terminals are open, than the heavy limit admits.
ActiveWithinPool ==
    /\ Cardinality(ActiveSessions) <= Capacity
    /\ Cardinality({s \in Sessions : fd[s] # 0}) <= Capacity

\* The bound on the sessions that the check of the session limit does not give.
THEOREM ActiveAreBounded == Spec => []ActiveWithinPool
<1>. USE TerminalsAssumption DEF TerminalsAssumption
<1>1. \A S : Pool!Cardinality(S) = Cardinality(S)
  BY DEF Pool!Cardinality, Cardinality
<1>2. Init => Pool!WithinCapacity
  BY <1>1, FS_EmptySet DEF Init, Pool!Init, Pool!WithinCapacity
<1>3. Pool!WithinCapacity /\ [Next]_vars => Pool!WithinCapacity'
  BY StepUsesPool, PoolStepKeeps
<1>4. ASSUME SessionInv, Pool!WithinCapacity
      PROVE  ActiveWithinPool
  <2>1. ActiveSessions \subseteq leases /\ {s \in Sessions : fd[s] # 0} \subseteq leases
    BY <1>4 DEF SessionInv, ActiveSessions, PhasesOK, ReadersOK, TypeOK, Active, Final
  <2>2. IsFiniteSet(leases) /\ Cardinality(leases) <= Capacity /\ Cardinality(leases) \in Nat
    BY <1>1, <1>4, FS_Subset, FS_CardinalityType DEF Pool!WithinCapacity
  <2>3. \A S : S \subseteq leases => Cardinality(S) \in Nat /\ Cardinality(S) <= Cardinality(leases)
    BY <2>2, FS_Subset, FS_CardinalityType
  <2>. QED
    BY <2>1, <2>2, <2>3 DEF ActiveWithinPool
<1>. QED
  BY <1>2, <1>3, <1>4, SessionInvHolds, PTL DEF Spec
=============================================================================
