-------------------------- MODULE OperationsProofs --------------------------
(* Theorems about the operation registry, for every set of operations, every *)
(* parent relation, any number of clients and any history length: its records *)
(* and its audit log first, then what a cancellation promises and what the   *)
(* pruning of the history keeps.                                             *)
EXTENDS Operations, FiniteSetTheorems, TLAPS

\* The kinds of operations and threads.
LEMMA Kinds ==
    /\ Requests \subseteq Ops /\ Children \subseteq Ops /\ Detached \subseteq Ops
    /\ Requests \subseteq Threads /\ Clients \subseteq Threads
  BY DEF Ops, Threads

\* Overwriting an entry keeps a Boolean function Boolean.
LEMMA BooleanUpdate ==
    ASSUME NEW S, NEW f \in [S -> BOOLEAN], NEW x, NEW b \in BOOLEAN
    PROVE  [f EXCEPT ![x] = b] \in [S -> BOOLEAN]
  BY Zenon

\* A worker that reached finish carries a terminal status, and a thread that
\* is past the locked region of a cancellation knows its operation.
LocalsReady ==
    /\ \A o \in Ops : pc[o] \in {"deciding", "auditing", "publishing"} => verdict[o] \in Terminal
    /\ \A t \in Threads : cpc[t] \in {"audit", "spawn", "note", "note_audit", "kill"} => cop[t] \in Ops

TypeInv == TypeOK /\ LocalsReady

\* Every status a worker may settle on is terminal.
LEMMA VerdictsAreTerminal ==
    ASSUME NEW o \in Ops PROVE Verdicts(o) \subseteq Terminal
  BY DEF Verdicts, RequestVerdict, ChildVerdict, DetachedVerdicts, Terminal

\* What a tool function returns has the type of a result.
LEMMA ResultsAreTyped ==
    ASSUME TypeOK, NEW o \in Ops
    PROVE  Results(o) \subseteq {"none", "ok", "bad", "timed_out", "error", "stopped"}
  BY SMTT(40), Kinds DEF Results, FailedLaunches, TypeOK

\* The type invariant is inductive.
LEMMA TypeStep == TypeInv /\ [Next]_vars => TypeInv'
<1>. SUFFICES ASSUME TypeInv, [Next]_vars PROVE TypeInv'
  OBVIOUS
<1>. USE Kinds DEF TypeInv, LocalsReady, TypeOK, Control, PreStart, Launching, Working, Finalizing, ACTIVE, Terminal
<1>1. ASSUME NEW k \in 0..clock, Inspect(k) PROVE TypeInv'
  BY <1>1 DEF Inspect, regVars, auditVars, workVars, procVars, cancelVars
<1>2. ASSUME NEW r \in Requests, NEW k \in 0..clock, StartRequest(r, k) PROVE TypeInv'
  BY <1>2 DEF StartRequest, Start, SetPc, regVars, auditVars, workVars, procVars, cancelVars
<1>3. ASSUME NEW d \in Detached, NEW k \in 0..clock, StartDetached(d, k) PROVE TypeInv'
  BY <1>3 DEF StartDetached, Start, SetPc, InBody, regVars, auditVars, workVars, procVars, cancelVars
<1>4. ASSUME NEW c \in Children, AdmitChild(c) PROVE TypeInv'
  BY <1>4 DEF AdmitChild, SetPc, regVars, auditVars, workVars, procVars, cancelVars
<1>5. ASSUME NEW r \in Requests, Abandon(r) PROVE TypeInv'
  BY <1>5 DEF Abandon, SetPc, regVars, auditVars, workVars, procVars, cancelVars
<1>6. ASSUME NEW o \in Ops, ProcessExit(o) PROVE TypeInv'
  BY <1>6 DEF ProcessExit, regVars, auditVars, workVars, procVars, cancelVars
<1>7. ASSUME NEW t \in Clients, Shutdown(t) PROVE TypeInv'
  BY <1>7 DEF Shutdown, Continue, regVars, auditVars, workVars, procVars, cancelVars
<1>8. ASSUME NEW t \in Clients, NEW o \in Ops, ClientCancel(t, o) PROVE TypeInv'
  BY <1>8 DEF ClientCancel, regVars, auditVars, workVars, procVars, cancelVars
<1>9. ASSUME NEW t \in Clients, NEW d \in Detached, NativeCancel(t, d) PROVE TypeInv'
  BY <1>9 DEF NativeCancel, regVars, auditVars, workVars, procVars, cancelVars
<1>10. ASSUME NEW r \in Requests, Enqueue(r) PROVE TypeInv'
  BY <1>10 DEF Enqueue, SetPc, regVars, auditVars, workVars, procVars, cancelVars
<1>11. ASSUME NEW r \in Requests, Dispatch(r) PROVE TypeInv'
  BY <1>11 DEF Dispatch, SetPc, regVars, auditVars, workVars, procVars, cancelVars
<1>12. ASSUME NEW r \in Requests, SetStarted(r) PROVE TypeInv'
  BY <1>12 DEF SetStarted, SetPc, regVars, auditVars, workVars, procVars, cancelVars
<1>13. ASSUME NEW r \in Requests, CheckFinished(r) PROVE TypeInv'
  BY <1>13 DEF CheckFinished, SetPc, regVars, auditVars, workVars, procVars, cancelVars
<1>14. ASSUME NEW r \in Requests, SetRunning(r) PROVE TypeInv'
  BY <1>14 DEF SetRunning, SetPc, regVars, auditVars, workVars, procVars, cancelVars
<1>15. ASSUME NEW r \in Requests, Resume(r) PROVE TypeInv'
  BY <1>15 DEF Resume, regVars, auditVars, workVars, procVars, cancelVars
<1>16. ASSUME NEW r \in Requests, CheckStarted(r) PROVE TypeInv'
  BY <1>16 DEF CheckStarted, Started, regVars, auditVars, workVars, procVars, cancelVars
<1>17. ASSUME NEW r \in Requests, CoroSetEvent(r) PROVE TypeInv'
  BY <1>17 DEF CoroSetEvent, regVars, auditVars, workVars, procVars, cancelVars
<1>18. ASSUME NEW r \in Requests, CoroFinish(r) PROVE TypeInv'
  <2>1. CASE FinishClosed(r)
    BY <1>18, <2>1 DEF CoroFinish, FinishEnter, regVars, auditVars, workVars, procVars, cancelVars
  <2>2. CASE ~FinishClosed(r)
    <3>1. /\ finishing' = [finishing EXCEPT ![r] = TRUE]
          /\ callbacks' = [callbacks EXCEPT ![r] = FALSE]
          /\ coro' = [coro EXCEPT ![r] = "auditing"]
          /\ UNCHANGED <<listed, status, event, finishedAt, clock, auditVars, workVars, procVars, cancelVars>>
      BY <1>18, <2>2 DEF CoroFinish, FinishEnter
    <3>2. finishing' \in [Ops -> BOOLEAN] /\ callbacks' \in [Ops -> BOOLEAN]
      BY <3>1, BooleanUpdate
    <3>. QED BY <3>1, <3>2 DEF regVars, auditVars, workVars, procVars, cancelVars
  <2>. QED BY <1>18, <2>1, <2>2
<1>19. ASSUME NEW r \in Requests, CoroAudit(r) PROVE TypeInv'
  BY <1>19 DEF CoroAudit, regVars, auditVars, workVars, procVars, cancelVars
<1>20. ASSUME NEW r \in Requests, CoroPublish(r) PROVE TypeInv'
  BY <1>20 DEF CoroPublish, FinishPublish, regVars, auditVars, workVars, procVars, cancelVars
<1>21. ASSUME NEW r \in Requests, Join(r) PROVE TypeInv'
  BY <1>21 DEF Join, regVars, auditVars, workVars, procVars, cancelVars
<1>22. ASSUME NEW c \in Children, NEW k \in 0..clock, StartChild(c, k) PROVE TypeInv'
  BY <1>22 DEF StartChild, Start, SetPc, regVars, auditVars, workVars, procVars, cancelVars
<1>23. ASSUME NEW o \in Ops, Gate(o) PROVE TypeInv'
  <2>1. CASE Stop(o)
    <3>1. /\ event' = [event EXCEPT ![o] = TRUE]
          /\ pc' = [pc EXCEPT ![o] = "returned"]
          /\ res' = [res EXCEPT ![o] = "stopped"]
          /\ UNCHANGED <<listed, status, finishing, finishedAt, clock, callbacks,
                         auditVars, verdict, procVars, coro, cancelVars>>
      BY <2>1 DEF Stop, SetPc
    <3>2. event' \in [Ops -> BOOLEAN]
      BY <3>1, BooleanUpdate
    <3>. QED BY <3>1, <3>2 DEF regVars, auditVars, workVars, procVars, cancelVars
  <2>2. CASE ~Stop(o)
    <3>1. /\ \E x \in {"starting", "body"} : pc' = [pc EXCEPT ![o] = x]
          /\ UNCHANGED <<regVars, auditVars, res, verdict, procVars, coro, cancelVars>>
      BY <1>23, <2>2 DEF Gate, SetPc
    <3>. QED BY <3>1 DEF regVars, auditVars, workVars, procVars, cancelVars
  <2>. QED BY <2>1, <2>2
<1>24. ASSUME NEW o \in Ops, StartProcess(o) PROVE TypeInv'
  BY <1>24 DEF StartProcess, SetPc, InBody, regVars, auditVars, workVars, procVars, cancelVars
<1>25. ASSUME NEW o \in Ops, Popen(o) PROVE TypeInv'
  <2>1. CASE pc' = [pc EXCEPT ![o] = "spawned"] /\ proc' = [proc EXCEPT ![o] = "alive"] /\ UNCHANGED res
    BY <1>25, <2>1 DEF Popen, regVars, auditVars, workVars, procVars, cancelVars
  <2>2. CASE pc' = [pc EXCEPT ![o] = "returned"] /\ res' = [res EXCEPT ![o] = "error"] /\ UNCHANGED proc
    BY <1>25, <2>2 DEF Popen, regVars, auditVars, workVars, procVars, cancelVars
  <2>. QED BY <1>25, <2>1, <2>2 DEF Popen, SetPc
<1>26. ASSUME NEW o \in Ops, AddCancel(o) PROVE TypeInv'
  BY <1>26 DEF AddCancel, SetPc, regVars, auditVars, workVars, procVars, cancelVars
<1>27. ASSUME NEW o \in Ops, CallReturns(o) PROVE TypeInv'
  BY <1>27 DEF CallReturns, SetPc, regVars, auditVars, workVars, procVars, cancelVars
<1>28. ASSUME NEW o \in Ops, Reap(o) PROVE TypeInv'
  <2>1. CASE o \in Detached
    <3>1. /\ pc' = [pc EXCEPT ![o] = "returned"]
          /\ \E x \in {"ok", "bad", "timed_out"} : res' = [res EXCEPT ![o] = x]
          /\ UNCHANGED <<callbacks, listed, status, event, finishing, finishedAt, clock,
                         auditVars, verdict, procVars, coro, cancelVars>>
      BY <1>28, <2>1 DEF Reap, SetPc
    <3>. QED BY <3>1 DEF regVars, auditVars, workVars, procVars, cancelVars
  <2>2. CASE o \notin Detached
    <3>1. /\ pc' = [pc EXCEPT ![o] = "body"]
          /\ callbacks' = [callbacks EXCEPT ![o] = FALSE]
          /\ UNCHANGED <<res, listed, status, event, finishing, finishedAt, clock,
                         auditVars, verdict, procVars, coro, cancelVars>>
      BY <1>28, <2>2 DEF Reap, SetPc
    <3>2. callbacks' \in [Ops -> BOOLEAN]
      BY <3>1, BooleanUpdate
    <3>. QED BY <1>28, <3>1, <3>2 DEF Reap, regVars, auditVars, workVars, procVars, cancelVars
  <2>. QED BY <1>28, <2>1, <2>2
<1>29. ASSUME NEW o \in Ops, Return(o) PROVE TypeInv'
  BY <1>29, ResultsAreTyped DEF Return, SetPc, regVars, auditVars, workVars, procVars, cancelVars
<1>30. ASSUME NEW o \in Ops, StopBody(o) PROVE TypeInv'
  BY <1>30 DEF StopBody, Stop, SetPc, InBody, regVars, auditVars, workVars, procVars, cancelVars
<1>31. ASSUME NEW o \in Ops, Decide(o) PROVE TypeInv'
  BY <1>31, VerdictsAreTerminal DEF Decide, SetPc, regVars, auditVars, workVars, procVars, cancelVars
<1>32. ASSUME NEW o \in Ops, WorkerFinish(o) PROVE TypeInv'
  <2>1. CASE FinishClosed(o)
    BY <1>32, <2>1 DEF WorkerFinish, SetPc, regVars, auditVars, workVars, procVars, cancelVars
  <2>2. CASE ~FinishClosed(o)
    <3>1. /\ pc' = [pc EXCEPT ![o] = "auditing"]
          /\ finishing' = [finishing EXCEPT ![o] = TRUE]
          /\ callbacks' = [callbacks EXCEPT ![o] = FALSE]
          /\ UNCHANGED <<listed, status, event, finishedAt, clock,
                         auditVars, res, verdict, procVars, coro, cancelVars>>
      BY <1>32, <2>2 DEF WorkerFinish, FinishEnter, SetPc
    <3>2. finishing' \in [Ops -> BOOLEAN] /\ callbacks' \in [Ops -> BOOLEAN]
      BY <3>1, BooleanUpdate
    <3>. QED BY <1>32, <3>1, <3>2 DEF WorkerFinish, regVars, auditVars, workVars, procVars, cancelVars
  <2>. QED BY <1>32, <2>1, <2>2
<1>33. ASSUME NEW o \in Ops, WorkerAudit(o) PROVE TypeInv'
  BY <1>33 DEF WorkerAudit, SetPc, regVars, auditVars, workVars, procVars, cancelVars
<1>34. ASSUME NEW o \in Ops, WorkerPublish(o) PROVE TypeInv'
  BY <1>34 DEF WorkerPublish, SetPc, FinishPublish, regVars, auditVars, workVars, procVars, cancelVars
<1>35. ASSUME NEW o \in Ops, CallbackPoll(o) PROVE TypeInv'
  BY <1>35 DEF CallbackPoll, regVars, auditVars, workVars, procVars, cancelVars
<1>36. ASSUME NEW o \in Ops, CallbackAck(o) PROVE TypeInv'
  BY <1>36 DEF CallbackAck, regVars, auditVars, workVars, procVars, cancelVars
<1>37. ASSUME NEW o \in Ops, CallbackKill(o) PROVE TypeInv'
  BY <1>37 DEF CallbackKill, regVars, auditVars, workVars, procVars, cancelVars
<1>38. ASSUME NEW t \in Threads, NEW o \in Ops, CancelLocked(t, o) PROVE TypeInv'
  <2>1. CASE ~Accepts(o)
    <3>1. /\ ctodo' = [ctodo EXCEPT ![t] = ctodo[t] \ {o}]
          /\ \E x \in {"idle", "cancel"} : cpc' = [cpc EXCEPT ![t] = x]
          /\ UNCHANGED <<regVars, auditVars, workVars, procVars, coro, cop, ccb, asked>>
      BY <1>38, <2>1 DEF CancelLocked, Continue, regVars
    <3>2. /\ cpc' \in [Threads -> {"idle", "cancel", "audit", "spawn", "note", "note_audit", "kill"}]
          /\ \A u \in Threads : cpc'[u] \in {"audit", "spawn", "note", "note_audit", "kill"} => cop'[u] \in Ops
      BY <3>1
    <3>3. ctodo' \in [Threads -> SUBSET Ops]
      BY <3>1
    <3>. QED BY <3>1, <3>2, <3>3 DEF regVars, auditVars, workVars, procVars, cancelVars
  <2>2. CASE Accepts(o)
    <3>1. /\ event' = [event EXCEPT ![o] = TRUE]
          /\ status' = [status EXCEPT ![o] = "cancelling"]
          /\ ctodo' = [ctodo EXCEPT ![t] = (ctodo[t] \ {o}) \cup LiveChildren(o)]
          /\ UNCHANGED <<listed, finishing, finishedAt, clock, callbacks,
                         auditVars, workVars, procVars, coro, asked>>
      BY <1>38, <2>2 DEF CancelLocked
    <3>2. \/ /\ cpc' = [cpc EXCEPT ![t] = "audit"]
             /\ cop' = [cop EXCEPT ![t] = o]
             /\ ccb' = [ccb EXCEPT ![t] = callbacks[o]]
          \/ /\ \E x \in {"idle", "cancel"} : cpc' = [cpc EXCEPT ![t] = x]
             /\ UNCHANGED <<cop, ccb>>
      BY <1>38, <2>2 DEF CancelLocked, Continue
    <3>3. event' \in [Ops -> BOOLEAN] /\ ccb' \in [Threads -> BOOLEAN]
      <4>1. callbacks[o] \in BOOLEAN
        OBVIOUS
      <4>2. event' \in [Ops -> BOOLEAN]
        BY <3>1, BooleanUpdate
      <4>3. CASE ccb' = [ccb EXCEPT ![t] = callbacks[o]]
        BY <4>1, <4>2, <4>3, BooleanUpdate
      <4>4. CASE UNCHANGED ccb
        BY <4>2, <4>4
      <4>. QED BY <3>2, <4>3, <4>4
    <3>4. ctodo' \in [Threads -> SUBSET Ops]
      BY <3>1 DEF LiveChildren
    <3>5. /\ cpc' \in [Threads -> {"idle", "cancel", "audit", "spawn", "note", "note_audit", "kill"}]
          /\ cop' \in [Threads -> Ops \cup {NoOp}]
          /\ \A u \in Threads : cpc'[u] \in {"audit", "spawn", "note", "note_audit", "kill"} => cop'[u] \in Ops
      <4>1. CASE cpc' = [cpc EXCEPT ![t] = "audit"] /\ cop' = [cop EXCEPT ![t] = o]
        BY <4>1
      <4>2. CASE (\E x \in {"idle", "cancel"} : cpc' = [cpc EXCEPT ![t] = x]) /\ UNCHANGED cop
        BY <4>2
      <4>. QED BY <3>2, <4>1, <4>2
    <3>. QED BY <3>1, <3>3, <3>4, <3>5 DEF regVars, auditVars, workVars, procVars, cancelVars
  <2>. QED BY <2>1, <2>2
<1>39. ASSUME NEW t \in Threads, CancelAudit(t) PROVE TypeInv'
  BY <1>39 DEF CancelAudit, regVars, auditVars, workVars, procVars, cancelVars
<1>40. ASSUME NEW t \in Threads, CancelSpawn(t) PROVE TypeInv'
  BY <1>40 DEF CancelSpawn, Continue, regVars, auditVars, workVars, procVars, cancelVars
<1>41. ASSUME NEW t \in Clients, NoteCancel(t) PROVE TypeInv'
  <2>. cop[t] \in Ops
    BY <1>41 DEF NoteCancel
  <2>1. CASE ~NoteTarget(cop[t])
    BY <1>41, <2>1 DEF NoteCancel, regVars, auditVars, workVars, procVars, cancelVars
  <2>2. CASE NoteTarget(cop[t])
    <3>1. /\ event' = [event EXCEPT ![cop[t]] = TRUE]
          /\ status' = [status EXCEPT ![cop[t]] = "cancelling"]
          /\ cpc' = [cpc EXCEPT ![t] = "note_audit"]
          /\ UNCHANGED <<listed, finishing, finishedAt, clock, callbacks, auditVars,
                         workVars, procVars, coro, cop, ccb, ctodo, asked>>
      BY <1>41, <2>2 DEF NoteCancel
    <3>2. event' \in [Ops -> BOOLEAN]
      BY <3>1, BooleanUpdate
    <3>. QED BY <1>41, <3>1, <3>2 DEF NoteCancel, regVars, auditVars, workVars, procVars, cancelVars
  <2>. QED BY <2>1, <2>2
<1>42. ASSUME NEW t \in Clients, NoteAudit(t) PROVE TypeInv'
  BY <1>42 DEF NoteAudit, regVars, auditVars, workVars, procVars, cancelVars
<1>43. ASSUME NEW t \in Clients, NativeKill(t) PROVE TypeInv'
  <2>1. CASE UNCHANGED proc
    BY <1>43, <2>1 DEF NativeKill, regVars, auditVars, workVars, procVars, cancelVars
  <2>2. CASE proc' = [proc EXCEPT ![cop[t]] = "dead"]
    BY <1>43, <2>2 DEF NativeKill, regVars, auditVars, workVars, procVars, cancelVars
  <2>. QED BY <1>43, <2>1, <2>2 DEF NativeKill
<1>44. CASE UNCHANGED vars
  BY <1>44 DEF vars, regVars, auditVars, workVars, procVars, cancelVars
<1>. QED
  BY ZenonT(60), <1>1, <1>2, <1>3, <1>4, <1>5, <1>6, <1>7, <1>8, <1>9, <1>10, <1>11, <1>12, <1>13, <1>14, <1>15,
     <1>16, <1>17, <1>18, <1>19, <1>20, <1>21, <1>22, <1>23, <1>24, <1>25, <1>26, <1>27, <1>28, <1>29, <1>30,
     <1>31, <1>32, <1>33, <1>34, <1>35, <1>36, <1>37, <1>38, <1>39, <1>40, <1>41, <1>42, <1>43, <1>44
  DEF Next, Environment, WrapperStep, CoroStep, ChildStart,
     BodyStep, EndStep, CallbackStep, CancelStep, NativeStep

\* Type correctness: every variable keeps its type and every thread the
\* locals its next step needs.
THEOREM TypeCorrect == Spec => []TypeOK
<1>1. Init => TypeInv
  BY Kinds DEF Init, TypeInv, TypeOK, LocalsReady, Control, PreStart, Launching, Working,
     Finalizing, ACTIVE, Terminal
<1>2. TypeInv /\ [Next]_vars => TypeInv'
  BY TypeStep
<1>3. TypeInv => TypeOK
  BY DEF TypeInv
<1>. QED
  BY <1>1, <1>2, <1>3, PTL DEF Spec

-----------------------------------------------------------------------------
(* One thread finishes an operation.                                       *)

WorkerFinishing(o) == pc[o] \in {"auditing", "publishing"}
CoroFinishing(o) == o \in Requests /\ coro[o] \in {"auditing", "publishing"}

\* "finishing" says that some thread is inside finish or has published, never
\* two; the audit line, the published status and the verdict of the thread
\* agree; and a record is finished under a worker that has not ended only
\* when its event is set, which keeps the worker from writing "running".
RecordOK(o) ==
    /\ finishing[o] <=> Finished(o) \/ WorkerFinishing(o) \/ CoroFinishing(o)
    /\ Finished(o) => ~WorkerFinishing(o) /\ ~CoroFinishing(o)
    /\ ~(WorkerFinishing(o) /\ CoroFinishing(o))
    /\ pc[o] = "publishing" => auditFin[o] = verdict[o]
    /\ CoroFinishing(o) /\ coro[o] = "publishing" => auditFin[o] = "cancelled"
    /\ Finished(o) => auditFin[o] = status[o] /\ status[o] \in Terminal
    /\ pc[o] \in {"none", "admitted", "registered"} =>
          ~Finished(o) /\ (o \in Requests => coro[o] = "none")
    /\ o \in Requests /\ coro[o] \in {"finish", "auditing", "publishing"} => event[o]
    /\ Finished(o) /\ pc[o] # "exit" => event[o]

RecordInv == clock > 0 /\ \A o \in Ops : RecordOK(o)

LEMMA RecordStep == TypeInv /\ RecordInv /\ [Next]_vars => RecordInv'
<1>. SUFFICES ASSUME TypeInv, RecordInv, [Next]_vars PROVE RecordInv'
  OBVIOUS
<1>. USE Kinds DEF TypeInv, LocalsReady, TypeOK, Terminal, RecordInv, RecordOK, Finished,
         WorkerFinishing, CoroFinishing
<1>1. ASSUME NEW k \in 0..clock, Inspect(k) PROVE RecordInv'
  BY <1>1 DEF Inspect, regVars, auditVars, workVars, procVars, cancelVars
<1>2. ASSUME NEW r \in Requests, NEW k \in 0..clock, StartRequest(r, k) PROVE RecordInv'
  BY <1>2 DEF StartRequest, Start, SetPc, regVars, auditVars, workVars, procVars, cancelVars
<1>3. ASSUME NEW d \in Detached, NEW k \in 0..clock, StartDetached(d, k) PROVE RecordInv'
  BY <1>3 DEF StartDetached, Start, SetPc, InBody, regVars, auditVars, workVars, procVars, cancelVars
<1>4. ASSUME NEW c \in Children, AdmitChild(c) PROVE RecordInv'
  BY <1>4 DEF AdmitChild, SetPc, regVars, auditVars, workVars, procVars, cancelVars
<1>5. ASSUME NEW r \in Requests, Abandon(r) PROVE RecordInv'
  BY <1>5 DEF Abandon, SetPc, regVars, auditVars, workVars, procVars, cancelVars
<1>6. ASSUME NEW o \in Ops, ProcessExit(o) PROVE RecordInv'
  BY <1>6 DEF ProcessExit, regVars, auditVars, workVars, procVars, cancelVars
<1>7. ASSUME NEW t \in Clients, Shutdown(t) PROVE RecordInv'
  BY <1>7 DEF Shutdown, Continue, regVars, auditVars, workVars, procVars, cancelVars
<1>8. ASSUME NEW t \in Clients, NEW o \in Ops, ClientCancel(t, o) PROVE RecordInv'
  BY <1>8 DEF ClientCancel, regVars, auditVars, workVars, procVars, cancelVars
<1>9. ASSUME NEW t \in Clients, NEW d \in Detached, NativeCancel(t, d) PROVE RecordInv'
  BY <1>9 DEF NativeCancel, regVars, auditVars, workVars, procVars, cancelVars
<1>10. ASSUME NEW r \in Requests, Enqueue(r) PROVE RecordInv'
  BY <1>10 DEF Enqueue, SetPc, regVars, auditVars, workVars, procVars, cancelVars
<1>11. ASSUME NEW r \in Requests, Dispatch(r) PROVE RecordInv'
  BY <1>11 DEF Dispatch, SetPc, regVars, auditVars, workVars, procVars, cancelVars
<1>12. ASSUME NEW r \in Requests, SetStarted(r) PROVE RecordInv'
  BY <1>12 DEF SetStarted, SetPc, regVars, auditVars, workVars, procVars, cancelVars
<1>13. ASSUME NEW r \in Requests, CheckFinished(r) PROVE RecordInv'
  BY <1>13 DEF CheckFinished, SetPc, regVars, auditVars, workVars, procVars, cancelVars
<1>14. ASSUME NEW r \in Requests, SetRunning(r) PROVE RecordInv'
  BY <1>14 DEF SetRunning, SetPc, regVars, auditVars, workVars, procVars, cancelVars
<1>15. ASSUME NEW r \in Requests, Resume(r) PROVE RecordInv'
  BY <1>15 DEF Resume, regVars, auditVars, workVars, procVars, cancelVars
<1>16. ASSUME NEW r \in Requests, CheckStarted(r) PROVE RecordInv'
  BY <1>16 DEF CheckStarted, Started, regVars, auditVars, workVars, procVars, cancelVars
<1>17. ASSUME NEW r \in Requests, CoroSetEvent(r) PROVE RecordInv'
  BY <1>17 DEF CoroSetEvent, regVars, auditVars, workVars, procVars, cancelVars
<1>18. ASSUME NEW r \in Requests, CoroFinish(r) PROVE RecordInv'
  BY <1>18 DEF CoroFinish, FinishEnter, FinishClosed, regVars, auditVars, workVars, procVars, cancelVars
<1>19. ASSUME NEW r \in Requests, CoroAudit(r) PROVE RecordInv'
  BY <1>19 DEF CoroAudit, regVars, auditVars, workVars, procVars, cancelVars
<1>20. ASSUME NEW r \in Requests, CoroPublish(r) PROVE RecordInv'
  BY <1>20 DEF CoroPublish, FinishPublish, regVars, auditVars, workVars, procVars, cancelVars
<1>21. ASSUME NEW r \in Requests, Join(r) PROVE RecordInv'
  BY <1>21 DEF Join, regVars, auditVars, workVars, procVars, cancelVars
<1>22. ASSUME NEW c \in Children, NEW k \in 0..clock, StartChild(c, k) PROVE RecordInv'
  BY <1>22 DEF StartChild, Start, SetPc, regVars, auditVars, workVars, procVars, cancelVars
<1>23. ASSUME NEW o \in Ops, Gate(o) PROVE RecordInv'
  BY <1>23 DEF Gate, Stop, SetPc, regVars, auditVars, workVars, procVars, cancelVars
<1>24. ASSUME NEW o \in Ops, StartProcess(o) PROVE RecordInv'
  BY <1>24 DEF StartProcess, SetPc, InBody, regVars, auditVars, workVars, procVars, cancelVars
<1>25. ASSUME NEW o \in Ops, Popen(o) PROVE RecordInv'
  BY <1>25 DEF Popen, SetPc, regVars, auditVars, workVars, procVars, cancelVars
<1>26. ASSUME NEW o \in Ops, AddCancel(o) PROVE RecordInv'
  BY <1>26 DEF AddCancel, SetPc, regVars, auditVars, workVars, procVars, cancelVars
<1>27. ASSUME NEW o \in Ops, CallReturns(o) PROVE RecordInv'
  BY <1>27 DEF CallReturns, SetPc, regVars, auditVars, workVars, procVars, cancelVars
<1>28. ASSUME NEW o \in Ops, Reap(o) PROVE RecordInv'
  BY <1>28 DEF Reap, SetPc, regVars, auditVars, workVars, procVars, cancelVars
<1>29. ASSUME NEW o \in Ops, Return(o) PROVE RecordInv'
  BY <1>29 DEF Return, SetPc, regVars, auditVars, workVars, procVars, cancelVars
<1>30. ASSUME NEW o \in Ops, StopBody(o) PROVE RecordInv'
  BY <1>30 DEF StopBody, Stop, SetPc, InBody, regVars, auditVars, workVars, procVars, cancelVars
<1>31. ASSUME NEW o \in Ops, Decide(o) PROVE RecordInv'
  BY <1>31 DEF Decide, SetPc, regVars, auditVars, workVars, procVars, cancelVars
<1>32. ASSUME NEW o \in Ops, WorkerFinish(o) PROVE RecordInv'
  <2>1. CASE FinishClosed(o)
    BY <1>32, <2>1 DEF WorkerFinish, SetPc, FinishClosed, regVars, auditVars, workVars, procVars, cancelVars
  <2>2. CASE ~FinishClosed(o)
    BY <1>32, <2>2 DEF WorkerFinish, SetPc, FinishEnter, FinishClosed, regVars, auditVars, workVars, procVars, cancelVars
  <2>. QED BY <2>1, <2>2
<1>33. ASSUME NEW o \in Ops, WorkerAudit(o) PROVE RecordInv'
  BY <1>33 DEF WorkerAudit, SetPc, regVars, auditVars, workVars, procVars, cancelVars
<1>34. ASSUME NEW o \in Ops, WorkerPublish(o) PROVE RecordInv'
  BY <1>34 DEF WorkerPublish, SetPc, FinishPublish, regVars, auditVars, workVars, procVars, cancelVars
<1>35. ASSUME NEW o \in Ops, CallbackPoll(o) PROVE RecordInv'
  BY <1>35 DEF CallbackPoll, regVars, auditVars, workVars, procVars, cancelVars
<1>36. ASSUME NEW o \in Ops, CallbackAck(o) PROVE RecordInv'
  BY <1>36 DEF CallbackAck, regVars, auditVars, workVars, procVars, cancelVars
<1>37. ASSUME NEW o \in Ops, CallbackKill(o) PROVE RecordInv'
  BY <1>37 DEF CallbackKill, regVars, auditVars, workVars, procVars, cancelVars
<1>38. ASSUME NEW t \in Threads, NEW o \in Ops, CancelLocked(t, o) PROVE RecordInv'
  BY <1>38 DEF CancelLocked, Continue, Accepts, FirstRequest, regVars, auditVars, workVars, procVars, cancelVars
<1>39. ASSUME NEW t \in Threads, CancelAudit(t) PROVE RecordInv'
  BY <1>39 DEF CancelAudit, regVars, auditVars, workVars, procVars, cancelVars
<1>40. ASSUME NEW t \in Threads, CancelSpawn(t) PROVE RecordInv'
  BY <1>40 DEF CancelSpawn, Continue, regVars, auditVars, workVars, procVars, cancelVars
<1>41. ASSUME NEW t \in Clients, NoteCancel(t) PROVE RecordInv'
  <2>1. CASE NoteTarget(cop[t])
    BY <1>41, <2>1 DEF NoteCancel, NoteTarget, regVars, auditVars, workVars, procVars, cancelVars
  <2>2. CASE ~NoteTarget(cop[t])
    BY <1>41, <2>2 DEF NoteCancel, regVars, auditVars, workVars, procVars, cancelVars
  <2>. QED BY <2>1, <2>2
<1>42. ASSUME NEW t \in Clients, NoteAudit(t) PROVE RecordInv'
  BY <1>42 DEF NoteAudit, regVars, auditVars, workVars, procVars, cancelVars
<1>43. ASSUME NEW t \in Clients, NativeKill(t) PROVE RecordInv'
  BY <1>43 DEF NativeKill, regVars, auditVars, workVars, procVars, cancelVars
<1>44. CASE UNCHANGED vars
  BY <1>44 DEF vars, regVars, auditVars, workVars, procVars, cancelVars
<1>. QED
  BY ZenonT(60), <1>1, <1>2, <1>3, <1>4, <1>5, <1>6, <1>7, <1>8, <1>9, <1>10, <1>11, <1>12, <1>13, <1>14, <1>15,
     <1>16, <1>17, <1>18, <1>19, <1>20, <1>21, <1>22, <1>23, <1>24, <1>25, <1>26, <1>27, <1>28, <1>29, <1>30,
     <1>31, <1>32, <1>33, <1>34, <1>35, <1>36, <1>37, <1>38, <1>39, <1>40, <1>41, <1>42, <1>43, <1>44
  DEF Next, Environment, WrapperStep, CoroStep, ChildStart,
     BodyStep, EndStep, CallbackStep, CancelStep, NativeStep

-----------------------------------------------------------------------------
(* The published outcome is final.                                         *)

LEMMA RecordInvariant == Spec => [](TypeInv /\ RecordInv)
<1>1. Init => TypeInv
  BY Kinds DEF Init, TypeInv, TypeOK, LocalsReady, Control, PreStart, Launching, Working,
     Finalizing, ACTIVE, Terminal
<1>2. Init => RecordInv
  BY Kinds DEF Init, RecordInv, RecordOK, Finished, WorkerFinishing, CoroFinishing
<1>. QED
  BY <1>1, <1>2, TypeStep, RecordStep, PTL DEF Spec

\* Of the threads that race to finish an operation one wins, and its audit line
\* and the record carry the same terminal status.
THEOREM AuditAndRecordAgree == Spec => []AuditMatchesRecord
<1>1. RecordInv => AuditMatchesRecord
  BY DEF RecordInv, RecordOK, AuditMatchesRecord
<1>. QED
  BY <1>1, RecordInvariant, PTL

Final(o) ==
    Finished(o) => /\ status'[o] = status[o]
                   /\ finishedAt'[o] = finishedAt[o]
                   /\ auditFin'[o] = auditFin[o]

LEMMA FinalStep == TypeInv /\ RecordInv /\ [Next]_vars => \A o \in Ops : Final(o)
<1>. SUFFICES ASSUME TypeInv, RecordInv, [Next]_vars, NEW p \in Ops PROVE Final(p)
  OBVIOUS
<1>. USE Kinds DEF TypeInv, LocalsReady, TypeOK, RecordInv, RecordOK, Finished,
         WorkerFinishing, CoroFinishing, Final
<1>1. ASSUME NEW k \in 0..clock, Inspect(k) PROVE Final(p)
  BY <1>1 DEF Inspect, regVars, auditVars, workVars, procVars, cancelVars
<1>2. ASSUME NEW r \in Requests, NEW k \in 0..clock, StartRequest(r, k) PROVE Final(p)
  BY <1>2 DEF StartRequest, Start, SetPc, regVars, auditVars, workVars, procVars, cancelVars
<1>3. ASSUME NEW d \in Detached, NEW k \in 0..clock, StartDetached(d, k) PROVE Final(p)
  BY <1>3 DEF StartDetached, Start, SetPc, InBody, regVars, auditVars, workVars, procVars, cancelVars
<1>4. ASSUME NEW c \in Children, AdmitChild(c) PROVE Final(p)
  BY <1>4 DEF AdmitChild, SetPc, regVars, auditVars, workVars, procVars, cancelVars
<1>5. ASSUME NEW r \in Requests, Abandon(r) PROVE Final(p)
  BY <1>5 DEF Abandon, SetPc, regVars, auditVars, workVars, procVars, cancelVars
<1>6. ASSUME NEW o \in Ops, ProcessExit(o) PROVE Final(p)
  BY <1>6 DEF ProcessExit, regVars, auditVars, workVars, procVars, cancelVars
<1>7. ASSUME NEW t \in Clients, Shutdown(t) PROVE Final(p)
  BY <1>7 DEF Shutdown, Continue, regVars, auditVars, workVars, procVars, cancelVars
<1>8. ASSUME NEW t \in Clients, NEW o \in Ops, ClientCancel(t, o) PROVE Final(p)
  BY <1>8 DEF ClientCancel, regVars, auditVars, workVars, procVars, cancelVars
<1>9. ASSUME NEW t \in Clients, NEW d \in Detached, NativeCancel(t, d) PROVE Final(p)
  BY <1>9 DEF NativeCancel, regVars, auditVars, workVars, procVars, cancelVars
<1>10. ASSUME NEW r \in Requests, Enqueue(r) PROVE Final(p)
  BY <1>10 DEF Enqueue, SetPc, regVars, auditVars, workVars, procVars, cancelVars
<1>11. ASSUME NEW r \in Requests, Dispatch(r) PROVE Final(p)
  BY <1>11 DEF Dispatch, SetPc, regVars, auditVars, workVars, procVars, cancelVars
<1>12. ASSUME NEW r \in Requests, SetStarted(r) PROVE Final(p)
  BY <1>12 DEF SetStarted, SetPc, regVars, auditVars, workVars, procVars, cancelVars
<1>13. ASSUME NEW r \in Requests, CheckFinished(r) PROVE Final(p)
  BY <1>13 DEF CheckFinished, SetPc, regVars, auditVars, workVars, procVars, cancelVars
<1>14. ASSUME NEW r \in Requests, SetRunning(r) PROVE Final(p)
  BY <1>14 DEF SetRunning, SetPc, regVars, auditVars, workVars, procVars, cancelVars
<1>15. ASSUME NEW r \in Requests, Resume(r) PROVE Final(p)
  BY <1>15 DEF Resume, regVars, auditVars, workVars, procVars, cancelVars
<1>16. ASSUME NEW r \in Requests, CheckStarted(r) PROVE Final(p)
  BY <1>16 DEF CheckStarted, Started, regVars, auditVars, workVars, procVars, cancelVars
<1>17. ASSUME NEW r \in Requests, CoroSetEvent(r) PROVE Final(p)
  BY <1>17 DEF CoroSetEvent, regVars, auditVars, workVars, procVars, cancelVars
<1>18. ASSUME NEW r \in Requests, CoroFinish(r) PROVE Final(p)
  BY <1>18 DEF CoroFinish, FinishEnter, FinishClosed, regVars, auditVars, workVars, procVars, cancelVars
<1>19. ASSUME NEW r \in Requests, CoroAudit(r) PROVE Final(p)
  BY <1>19 DEF CoroAudit, regVars, auditVars, workVars, procVars, cancelVars
<1>20. ASSUME NEW r \in Requests, CoroPublish(r) PROVE Final(p)
  BY <1>20 DEF CoroPublish, FinishPublish, regVars, auditVars, workVars, procVars, cancelVars
<1>21. ASSUME NEW r \in Requests, Join(r) PROVE Final(p)
  BY <1>21 DEF Join, regVars, auditVars, workVars, procVars, cancelVars
<1>22. ASSUME NEW c \in Children, NEW k \in 0..clock, StartChild(c, k) PROVE Final(p)
  BY <1>22 DEF StartChild, Start, SetPc, regVars, auditVars, workVars, procVars, cancelVars
<1>23. ASSUME NEW o \in Ops, Gate(o) PROVE Final(p)
  BY <1>23 DEF Gate, Stop, SetPc, regVars, auditVars, workVars, procVars, cancelVars
<1>24. ASSUME NEW o \in Ops, StartProcess(o) PROVE Final(p)
  BY <1>24 DEF StartProcess, SetPc, InBody, regVars, auditVars, workVars, procVars, cancelVars
<1>25. ASSUME NEW o \in Ops, Popen(o) PROVE Final(p)
  BY <1>25 DEF Popen, SetPc, regVars, auditVars, workVars, procVars, cancelVars
<1>26. ASSUME NEW o \in Ops, AddCancel(o) PROVE Final(p)
  BY <1>26 DEF AddCancel, SetPc, regVars, auditVars, workVars, procVars, cancelVars
<1>27. ASSUME NEW o \in Ops, CallReturns(o) PROVE Final(p)
  BY <1>27 DEF CallReturns, SetPc, regVars, auditVars, workVars, procVars, cancelVars
<1>28. ASSUME NEW o \in Ops, Reap(o) PROVE Final(p)
  BY <1>28 DEF Reap, SetPc, regVars, auditVars, workVars, procVars, cancelVars
<1>29. ASSUME NEW o \in Ops, Return(o) PROVE Final(p)
  BY <1>29 DEF Return, SetPc, regVars, auditVars, workVars, procVars, cancelVars
<1>30. ASSUME NEW o \in Ops, StopBody(o) PROVE Final(p)
  BY <1>30 DEF StopBody, Stop, SetPc, InBody, regVars, auditVars, workVars, procVars, cancelVars
<1>31. ASSUME NEW o \in Ops, Decide(o) PROVE Final(p)
  BY <1>31 DEF Decide, SetPc, regVars, auditVars, workVars, procVars, cancelVars
<1>32. ASSUME NEW o \in Ops, WorkerFinish(o) PROVE Final(p)
  <2>1. CASE FinishClosed(o)
    BY <1>32, <2>1 DEF WorkerFinish, SetPc, FinishClosed, regVars, auditVars, workVars, procVars, cancelVars
  <2>2. CASE ~FinishClosed(o)
    BY <1>32, <2>2 DEF WorkerFinish, SetPc, FinishEnter, FinishClosed, regVars, auditVars, workVars, procVars, cancelVars
  <2>. QED BY <2>1, <2>2
<1>33. ASSUME NEW o \in Ops, WorkerAudit(o) PROVE Final(p)
  BY <1>33 DEF WorkerAudit, SetPc, regVars, auditVars, workVars, procVars, cancelVars
<1>34. ASSUME NEW o \in Ops, WorkerPublish(o) PROVE Final(p)
  BY <1>34 DEF WorkerPublish, SetPc, FinishPublish, regVars, auditVars, workVars, procVars, cancelVars
<1>35. ASSUME NEW o \in Ops, CallbackPoll(o) PROVE Final(p)
  BY <1>35 DEF CallbackPoll, regVars, auditVars, workVars, procVars, cancelVars
<1>36. ASSUME NEW o \in Ops, CallbackAck(o) PROVE Final(p)
  BY <1>36 DEF CallbackAck, regVars, auditVars, workVars, procVars, cancelVars
<1>37. ASSUME NEW o \in Ops, CallbackKill(o) PROVE Final(p)
  BY <1>37 DEF CallbackKill, regVars, auditVars, workVars, procVars, cancelVars
<1>38. ASSUME NEW t \in Threads, NEW o \in Ops, CancelLocked(t, o) PROVE Final(p)
  BY <1>38 DEF CancelLocked, Continue, Accepts, FirstRequest, regVars, auditVars, workVars, procVars, cancelVars
<1>39. ASSUME NEW t \in Threads, CancelAudit(t) PROVE Final(p)
  BY <1>39 DEF CancelAudit, regVars, auditVars, workVars, procVars, cancelVars
<1>40. ASSUME NEW t \in Threads, CancelSpawn(t) PROVE Final(p)
  BY <1>40 DEF CancelSpawn, Continue, regVars, auditVars, workVars, procVars, cancelVars
<1>41. ASSUME NEW t \in Clients, NoteCancel(t) PROVE Final(p)
  <2>1. CASE NoteTarget(cop[t])
    BY <1>41, <2>1 DEF NoteCancel, NoteTarget, regVars, auditVars, workVars, procVars, cancelVars
  <2>2. CASE ~NoteTarget(cop[t])
    BY <1>41, <2>2 DEF NoteCancel, regVars, auditVars, workVars, procVars, cancelVars
  <2>. QED BY <2>1, <2>2
<1>42. ASSUME NEW t \in Clients, NoteAudit(t) PROVE Final(p)
  BY <1>42 DEF NoteAudit, regVars, auditVars, workVars, procVars, cancelVars
<1>43. ASSUME NEW t \in Clients, NativeKill(t) PROVE Final(p)
  BY <1>43 DEF NativeKill, regVars, auditVars, workVars, procVars, cancelVars
<1>44. CASE UNCHANGED vars
  BY <1>44 DEF vars, regVars, auditVars, workVars, procVars, cancelVars
<1>. QED
  BY <1>1, <1>2, <1>3, <1>4, <1>5, <1>6, <1>7, <1>8, <1>9, <1>10, <1>11, <1>12, <1>13, <1>14, <1>15,
     <1>16, <1>17, <1>18, <1>19, <1>20, <1>21, <1>22, <1>23, <1>24, <1>25, <1>26, <1>27, <1>28, <1>29, <1>30,
     <1>31, <1>32, <1>33, <1>34, <1>35, <1>36, <1>37, <1>38, <1>39, <1>40, <1>41, <1>42, <1>43, <1>44
  DEF Next, Environment, WrapperStep, CoroStep, ChildStart,
     BodyStep, EndStep, CallbackStep, CancelStep, NativeStep

\* Once a record is finished nothing changes its outcome: not a racing cancel,
\* not the worker that writes "running" late, not a second call of finish.
THEOREM OutcomeIsFinal == Spec => FinishedIsFinal
<1>1. TypeInv /\ RecordInv /\ [Next]_vars
        => [\A o \in Ops : Finished(o) =>
              /\ status'[o] = status[o]
              /\ finishedAt'[o] = finishedAt[o]
              /\ auditFin'[o] = auditFin[o]]_vars
  BY FinalStep DEF Final
<1>. QED
  BY <1>1, RecordInvariant, PTL DEF Spec, FinishedIsFinal

-----------------------------------------------------------------------------
(* Finished means stopped.                                                 *)

\* Control points of a worker that does no work for its operation.
Harmless == {"dispatched", "dropped", "entered", "live", "gate", "returned", "deciding",
             "auditing", "publishing", "exit"}

\* The coroutine of r is in, or has left, the branch for a worker that was not
\* started.
Unstarted(r) ==
    \/ coro[r] \in {"unstarted", "finish", "auditing", "publishing"}
    \/ Finished(r) /\ pc[r] # "exit"

\* What holds of every operation: it is listed while active, it has no life
\* before it is registered, and its process lives only while its worker waits.
LifeOK(o) ==
    /\ Born(o) /\ ~Finished(o) => o \in listed
    /\ pc[o] \in {"none", "admitted", "skipped"} => ~event[o] /\ o \notin listed /\ ~Born(o)
    /\ pc[o] \notin {"none", "admitted", "skipped"} => Born(o)
    /\ proc[o] = "alive" => pc[o] \in {"spawned", "calling", "waiting"}
    /\ pc[o] \in {"admitted", "skipped"} => o \in Children
    /\ o \notin Requests /\ Finished(o) => pc[o] = "exit"

\* A call of a batch is on its way only while the batch is in its tool function.
ChildOK(c) == pc[c] \notin {"none", "skipped", "exit"} => pc[Parent[c]] = "body"

\* The coroutine of an abandoned cancellable request has set the event before
\* it looks whether the worker started, so a worker that starts after the look
\* stops at its first checkpoint.
AbandonOK(r) ==
    /\ coro[r] \notin {"none", "awaiting"} => pc[r] \notin {"none", "registered", "queued"}
    /\ coro[r] = "cancelling" /\ ~event[r] /\ pc[r] \in {"dispatched", "dropped"} =>
          cpc[r] = "cancel" /\ ctodo[r] = {r}
    /\ Finished(r) /\ pc[r] # "exit" => coro[r] = "returned"
    /\ Unstarted(r) => event[r] /\ pc[r] \in Harmless

LifeInv == \A o \in Ops : LifeOK(o)
ChildInv == \A c \in Children : ChildOK(c)
AbandonInv == \A r \in Requests \cap Cancellable : AbandonOK(r)
StopInv == LifeInv /\ ChildInv /\ AbandonInv

LEMMA LifeStep == TypeInv /\ RecordInv /\ StopInv /\ [Next]_vars => LifeInv'
<1>. SUFFICES ASSUME TypeInv, RecordInv, StopInv, [Next]_vars PROVE LifeInv'
  OBVIOUS
<1>. USE Kinds, OpsAssumption, ParentAssumption DEF TypeInv, LocalsReady, TypeOK, RecordInv, RecordOK,
         Finished, WorkerFinishing, CoroFinishing, StopInv, LifeInv, ChildInv, AbandonInv, LifeOK, Born, Terminal
<1>1. ASSUME NEW k \in 0..clock, Inspect(k) PROVE LifeInv'
  BY <1>1 DEF Inspect, Pruned, regVars, auditVars, workVars, procVars, cancelVars
<1>2. ASSUME NEW r \in Requests, NEW k \in 0..clock, StartRequest(r, k) PROVE LifeInv'
  BY <1>2 DEF StartRequest, Start, SetPc, Pruned, regVars, auditVars, workVars, procVars, cancelVars
<1>3. ASSUME NEW d \in Detached, NEW k \in 0..clock, StartDetached(d, k) PROVE LifeInv'
  BY <1>3 DEF StartDetached, Start, SetPc, InBody, Pruned, regVars, auditVars, workVars, procVars, cancelVars
<1>4. ASSUME NEW c \in Children, AdmitChild(c) PROVE LifeInv'
  BY <1>4 DEF AdmitChild, SetPc, regVars, auditVars, workVars, procVars, cancelVars
<1>5. ASSUME NEW r \in Requests, Abandon(r) PROVE LifeInv'
  BY <1>5 DEF Abandon, SetPc, regVars, auditVars, workVars, procVars, cancelVars
<1>6. ASSUME NEW o \in Ops, ProcessExit(o) PROVE LifeInv'
  BY <1>6 DEF ProcessExit, regVars, auditVars, workVars, procVars, cancelVars
<1>7. ASSUME NEW t \in Clients, Shutdown(t) PROVE LifeInv'
  BY <1>7 DEF Shutdown, Continue, regVars, auditVars, workVars, procVars, cancelVars
<1>8. ASSUME NEW t \in Clients, NEW o \in Ops, ClientCancel(t, o) PROVE LifeInv'
  BY <1>8 DEF ClientCancel, regVars, auditVars, workVars, procVars, cancelVars
<1>9. ASSUME NEW t \in Clients, NEW d \in Detached, NativeCancel(t, d) PROVE LifeInv'
  BY <1>9 DEF NativeCancel, regVars, auditVars, workVars, procVars, cancelVars
<1>10. ASSUME NEW r \in Requests, Enqueue(r) PROVE LifeInv'
  BY <1>10 DEF Enqueue, SetPc, regVars, auditVars, workVars, procVars, cancelVars
<1>11. ASSUME NEW r \in Requests, Dispatch(r) PROVE LifeInv'
  BY <1>11 DEF Dispatch, SetPc, regVars, auditVars, workVars, procVars, cancelVars
<1>12. ASSUME NEW r \in Requests, SetStarted(r) PROVE LifeInv'
  BY <1>12 DEF SetStarted, SetPc, regVars, auditVars, workVars, procVars, cancelVars
<1>13. ASSUME NEW r \in Requests, CheckFinished(r) PROVE LifeInv'
  BY <1>13 DEF CheckFinished, SetPc, regVars, auditVars, workVars, procVars, cancelVars
<1>14. ASSUME NEW r \in Requests, SetRunning(r) PROVE LifeInv'
  BY <1>14 DEF SetRunning, SetPc, regVars, auditVars, workVars, procVars, cancelVars
<1>15. ASSUME NEW r \in Requests, Resume(r) PROVE LifeInv'
  BY <1>15 DEF Resume, regVars, auditVars, workVars, procVars, cancelVars
<1>16. ASSUME NEW r \in Requests, CheckStarted(r) PROVE LifeInv'
  BY <1>16 DEF CheckStarted, Started, regVars, auditVars, workVars, procVars, cancelVars
<1>17. ASSUME NEW r \in Requests, CoroSetEvent(r) PROVE LifeInv'
  BY <1>17 DEF CoroSetEvent, regVars, auditVars, workVars, procVars, cancelVars
<1>18. ASSUME NEW r \in Requests, CoroFinish(r) PROVE LifeInv'
  BY <1>18 DEF CoroFinish, FinishEnter, FinishClosed, regVars, auditVars, workVars, procVars, cancelVars
<1>19. ASSUME NEW r \in Requests, CoroAudit(r) PROVE LifeInv'
  BY <1>19 DEF CoroAudit, regVars, auditVars, workVars, procVars, cancelVars
<1>20. ASSUME NEW r \in Requests, CoroPublish(r) PROVE LifeInv'
  BY <1>20 DEF CoroPublish, FinishPublish, regVars, auditVars, workVars, procVars, cancelVars
<1>21. ASSUME NEW r \in Requests, Join(r) PROVE LifeInv'
  BY <1>21 DEF Join, regVars, auditVars, workVars, procVars, cancelVars
<1>22. ASSUME NEW c \in Children, NEW k \in 0..clock, StartChild(c, k) PROVE LifeInv'
  BY <1>22 DEF StartChild, Start, SetPc, Pruned, regVars, auditVars, workVars, procVars, cancelVars
<1>23. ASSUME NEW o \in Ops, Gate(o) PROVE LifeInv'
  BY <1>23 DEF Gate, Stop, SetPc, CancelSeen, ChildOK, regVars, auditVars, workVars, procVars, cancelVars
<1>24. ASSUME NEW o \in Ops, StartProcess(o) PROVE LifeInv'
  BY <1>24 DEF StartProcess, SetPc, InBody, regVars, auditVars, workVars, procVars, cancelVars
<1>25. ASSUME NEW o \in Ops, Popen(o) PROVE LifeInv'
  BY <1>25 DEF Popen, SetPc, regVars, auditVars, workVars, procVars, cancelVars
<1>26. ASSUME NEW o \in Ops, AddCancel(o) PROVE LifeInv'
  BY <1>26 DEF AddCancel, SetPc, regVars, auditVars, workVars, procVars, cancelVars
<1>27. ASSUME NEW o \in Ops, CallReturns(o) PROVE LifeInv'
  BY <1>27 DEF CallReturns, SetPc, regVars, auditVars, workVars, procVars, cancelVars
<1>28. ASSUME NEW o \in Ops, Reap(o) PROVE LifeInv'
  BY <1>28 DEF Reap, SetPc, regVars, auditVars, workVars, procVars, cancelVars
<1>29. ASSUME NEW o \in Ops, Return(o) PROVE LifeInv'
  BY <1>29 DEF Return, SetPc, Quiet, regVars, auditVars, workVars, procVars, cancelVars
<1>30. ASSUME NEW o \in Ops, StopBody(o) PROVE LifeInv'
  BY <1>30 DEF StopBody, Stop, SetPc, InBody, CancelSeen, ChildOK, regVars, auditVars, workVars, procVars, cancelVars
<1>31. ASSUME NEW o \in Ops, Decide(o) PROVE LifeInv'
  BY <1>31 DEF Decide, SetPc, regVars, auditVars, workVars, procVars, cancelVars
<1>32. ASSUME NEW o \in Ops, WorkerFinish(o) PROVE LifeInv'
  <2>1. CASE FinishClosed(o)
    BY <1>32, <2>1 DEF WorkerFinish, SetPc, FinishClosed, regVars, auditVars, workVars, procVars, cancelVars
  <2>2. CASE ~FinishClosed(o)
    BY <1>32, <2>2 DEF WorkerFinish, SetPc, FinishEnter, FinishClosed, regVars, auditVars, workVars, procVars, cancelVars
  <2>. QED BY <2>1, <2>2
<1>33. ASSUME NEW o \in Ops, WorkerAudit(o) PROVE LifeInv'
  BY <1>33 DEF WorkerAudit, SetPc, regVars, auditVars, workVars, procVars, cancelVars
<1>34. ASSUME NEW o \in Ops, WorkerPublish(o) PROVE LifeInv'
  BY <1>34 DEF WorkerPublish, SetPc, FinishPublish, regVars, auditVars, workVars, procVars, cancelVars
<1>35. ASSUME NEW o \in Ops, CallbackPoll(o) PROVE LifeInv'
  BY <1>35 DEF CallbackPoll, regVars, auditVars, workVars, procVars, cancelVars
<1>36. ASSUME NEW o \in Ops, CallbackAck(o) PROVE LifeInv'
  BY <1>36 DEF CallbackAck, regVars, auditVars, workVars, procVars, cancelVars
<1>37. ASSUME NEW o \in Ops, CallbackKill(o) PROVE LifeInv'
  BY <1>37 DEF CallbackKill, regVars, auditVars, workVars, procVars, cancelVars
<1>38. ASSUME NEW t \in Threads, NEW o \in Ops, CancelLocked(t, o) PROVE LifeInv'
  BY <1>38 DEF CancelLocked, Continue, Accepts, FirstRequest, regVars, auditVars, workVars, procVars, cancelVars
<1>39. ASSUME NEW t \in Threads, CancelAudit(t) PROVE LifeInv'
  BY <1>39 DEF CancelAudit, regVars, auditVars, workVars, procVars, cancelVars
<1>40. ASSUME NEW t \in Threads, CancelSpawn(t) PROVE LifeInv'
  BY <1>40 DEF CancelSpawn, Continue, regVars, auditVars, workVars, procVars, cancelVars
<1>41. ASSUME NEW t \in Clients, NoteCancel(t) PROVE LifeInv'
  <2>1. CASE NoteTarget(cop[t])
    BY <1>41, <2>1 DEF NoteCancel, NoteTarget, regVars, auditVars, workVars, procVars, cancelVars
  <2>2. CASE ~NoteTarget(cop[t])
    BY <1>41, <2>2 DEF NoteCancel, regVars, auditVars, workVars, procVars, cancelVars
  <2>. QED BY <2>1, <2>2
<1>42. ASSUME NEW t \in Clients, NoteAudit(t) PROVE LifeInv'
  BY <1>42 DEF NoteAudit, regVars, auditVars, workVars, procVars, cancelVars
<1>43. ASSUME NEW t \in Clients, NativeKill(t) PROVE LifeInv'
  BY <1>43 DEF NativeKill, regVars, auditVars, workVars, procVars, cancelVars
<1>44. CASE UNCHANGED vars
  BY <1>44 DEF vars, regVars, auditVars, workVars, procVars, cancelVars
<1>. HIDE DEF TypeInv, LocalsReady, TypeOK, RecordInv, RecordOK, StopInv, LifeInv, LifeOK
<1>. QED
  BY <1>1, <1>2, <1>3, <1>4, <1>5, <1>6, <1>7, <1>8, <1>9, <1>10, <1>11, <1>12, <1>13, <1>14, <1>15,
     <1>16, <1>17, <1>18, <1>19, <1>20, <1>21, <1>22, <1>23, <1>24, <1>25, <1>26, <1>27, <1>28, <1>29, <1>30,
     <1>31, <1>32, <1>33, <1>34, <1>35, <1>36, <1>37, <1>38, <1>39, <1>40, <1>41, <1>42, <1>43, <1>44
  DEF Next, Environment, WrapperStep, CoroStep, ChildStart,
     BodyStep, EndStep, CallbackStep, CancelStep, NativeStep

LEMMA ChildStep == TypeInv /\ RecordInv /\ StopInv /\ [Next]_vars => ChildInv'
<1>. SUFFICES ASSUME TypeInv, RecordInv, StopInv, [Next]_vars PROVE ChildInv'
  OBVIOUS
<1>. USE Kinds, OpsAssumption, ParentAssumption DEF TypeInv, LocalsReady, TypeOK, RecordInv, RecordOK,
         Finished, WorkerFinishing, CoroFinishing, StopInv, LifeInv, ChildInv, AbandonInv, ChildOK, Born
<1>1. ASSUME NEW k \in 0..clock, Inspect(k) PROVE ChildInv'
  BY <1>1 DEF Inspect, regVars, auditVars, workVars, procVars, cancelVars
<1>2. ASSUME NEW r \in Requests, NEW k \in 0..clock, StartRequest(r, k) PROVE ChildInv'
  BY <1>2 DEF StartRequest, Start, SetPc, regVars, auditVars, workVars, procVars, cancelVars
<1>3. ASSUME NEW d \in Detached, NEW k \in 0..clock, StartDetached(d, k) PROVE ChildInv'
  BY <1>3 DEF StartDetached, Start, SetPc, InBody, regVars, auditVars, workVars, procVars, cancelVars
<1>4. ASSUME NEW c \in Children, AdmitChild(c) PROVE ChildInv'
  BY <1>4 DEF AdmitChild, SetPc, regVars, auditVars, workVars, procVars, cancelVars
<1>5. ASSUME NEW r \in Requests, Abandon(r) PROVE ChildInv'
  BY <1>5 DEF Abandon, SetPc, regVars, auditVars, workVars, procVars, cancelVars
<1>6. ASSUME NEW o \in Ops, ProcessExit(o) PROVE ChildInv'
  BY <1>6 DEF ProcessExit, regVars, auditVars, workVars, procVars, cancelVars
<1>7. ASSUME NEW t \in Clients, Shutdown(t) PROVE ChildInv'
  BY <1>7 DEF Shutdown, Continue, regVars, auditVars, workVars, procVars, cancelVars
<1>8. ASSUME NEW t \in Clients, NEW o \in Ops, ClientCancel(t, o) PROVE ChildInv'
  BY <1>8 DEF ClientCancel, regVars, auditVars, workVars, procVars, cancelVars
<1>9. ASSUME NEW t \in Clients, NEW d \in Detached, NativeCancel(t, d) PROVE ChildInv'
  BY <1>9 DEF NativeCancel, regVars, auditVars, workVars, procVars, cancelVars
<1>10. ASSUME NEW r \in Requests, Enqueue(r) PROVE ChildInv'
  BY <1>10 DEF Enqueue, SetPc, regVars, auditVars, workVars, procVars, cancelVars
<1>11. ASSUME NEW r \in Requests, Dispatch(r) PROVE ChildInv'
  BY <1>11 DEF Dispatch, SetPc, regVars, auditVars, workVars, procVars, cancelVars
<1>12. ASSUME NEW r \in Requests, SetStarted(r) PROVE ChildInv'
  BY <1>12 DEF SetStarted, SetPc, regVars, auditVars, workVars, procVars, cancelVars
<1>13. ASSUME NEW r \in Requests, CheckFinished(r) PROVE ChildInv'
  BY <1>13 DEF CheckFinished, SetPc, regVars, auditVars, workVars, procVars, cancelVars
<1>14. ASSUME NEW r \in Requests, SetRunning(r) PROVE ChildInv'
  BY <1>14 DEF SetRunning, SetPc, regVars, auditVars, workVars, procVars, cancelVars
<1>15. ASSUME NEW r \in Requests, Resume(r) PROVE ChildInv'
  BY <1>15 DEF Resume, regVars, auditVars, workVars, procVars, cancelVars
<1>16. ASSUME NEW r \in Requests, CheckStarted(r) PROVE ChildInv'
  BY <1>16 DEF CheckStarted, Started, regVars, auditVars, workVars, procVars, cancelVars
<1>17. ASSUME NEW r \in Requests, CoroSetEvent(r) PROVE ChildInv'
  BY <1>17 DEF CoroSetEvent, regVars, auditVars, workVars, procVars, cancelVars
<1>18. ASSUME NEW r \in Requests, CoroFinish(r) PROVE ChildInv'
  BY <1>18 DEF CoroFinish, FinishEnter, FinishClosed, regVars, auditVars, workVars, procVars, cancelVars
<1>19. ASSUME NEW r \in Requests, CoroAudit(r) PROVE ChildInv'
  BY <1>19 DEF CoroAudit, regVars, auditVars, workVars, procVars, cancelVars
<1>20. ASSUME NEW r \in Requests, CoroPublish(r) PROVE ChildInv'
  BY <1>20 DEF CoroPublish, FinishPublish, regVars, auditVars, workVars, procVars, cancelVars
<1>21. ASSUME NEW r \in Requests, Join(r) PROVE ChildInv'
  BY <1>21 DEF Join, regVars, auditVars, workVars, procVars, cancelVars
<1>22. ASSUME NEW c \in Children, NEW k \in 0..clock, StartChild(c, k) PROVE ChildInv'
  BY <1>22 DEF StartChild, Start, SetPc, regVars, auditVars, workVars, procVars, cancelVars
<1>23. ASSUME NEW o \in Ops, Gate(o) PROVE ChildInv'
  BY <1>23 DEF Gate, Stop, SetPc, CancelSeen, regVars, auditVars, workVars, procVars, cancelVars
<1>24. ASSUME NEW o \in Ops, StartProcess(o) PROVE ChildInv'
  BY <1>24 DEF StartProcess, SetPc, InBody, Quiet, Batches, regVars, auditVars, workVars, procVars, cancelVars
<1>25. ASSUME NEW o \in Ops, Popen(o) PROVE ChildInv'
  BY <1>25 DEF Popen, SetPc, regVars, auditVars, workVars, procVars, cancelVars
<1>26. ASSUME NEW o \in Ops, AddCancel(o) PROVE ChildInv'
  BY <1>26 DEF AddCancel, SetPc, regVars, auditVars, workVars, procVars, cancelVars
<1>27. ASSUME NEW o \in Ops, CallReturns(o) PROVE ChildInv'
  BY <1>27 DEF CallReturns, SetPc, regVars, auditVars, workVars, procVars, cancelVars
<1>28. ASSUME NEW o \in Ops, Reap(o) PROVE ChildInv'
  BY <1>28 DEF Reap, SetPc, regVars, auditVars, workVars, procVars, cancelVars
<1>29. ASSUME NEW o \in Ops, Return(o) PROVE ChildInv'
  BY <1>29 DEF Return, SetPc, Quiet, Batches, regVars, auditVars, workVars, procVars, cancelVars
<1>30. ASSUME NEW o \in Ops, StopBody(o) PROVE ChildInv'
  BY <1>30 DEF StopBody, Stop, SetPc, InBody, InBody, Quiet, Batches, regVars, auditVars, workVars, procVars, cancelVars
<1>31. ASSUME NEW o \in Ops, Decide(o) PROVE ChildInv'
  BY <1>31 DEF Decide, SetPc, regVars, auditVars, workVars, procVars, cancelVars
<1>32. ASSUME NEW o \in Ops, WorkerFinish(o) PROVE ChildInv'
  <2>1. CASE FinishClosed(o)
    BY <1>32, <2>1 DEF WorkerFinish, SetPc, FinishClosed, regVars, auditVars, workVars, procVars, cancelVars
  <2>2. CASE ~FinishClosed(o)
    BY <1>32, <2>2 DEF WorkerFinish, SetPc, FinishEnter, FinishClosed, regVars, auditVars, workVars, procVars, cancelVars
  <2>. QED BY <2>1, <2>2
<1>33. ASSUME NEW o \in Ops, WorkerAudit(o) PROVE ChildInv'
  BY <1>33 DEF WorkerAudit, SetPc, regVars, auditVars, workVars, procVars, cancelVars
<1>34. ASSUME NEW o \in Ops, WorkerPublish(o) PROVE ChildInv'
  BY <1>34 DEF WorkerPublish, SetPc, FinishPublish, regVars, auditVars, workVars, procVars, cancelVars
<1>35. ASSUME NEW o \in Ops, CallbackPoll(o) PROVE ChildInv'
  BY <1>35 DEF CallbackPoll, regVars, auditVars, workVars, procVars, cancelVars
<1>36. ASSUME NEW o \in Ops, CallbackAck(o) PROVE ChildInv'
  BY <1>36 DEF CallbackAck, regVars, auditVars, workVars, procVars, cancelVars
<1>37. ASSUME NEW o \in Ops, CallbackKill(o) PROVE ChildInv'
  BY <1>37 DEF CallbackKill, regVars, auditVars, workVars, procVars, cancelVars
<1>38. ASSUME NEW t \in Threads, NEW o \in Ops, CancelLocked(t, o) PROVE ChildInv'
  BY <1>38 DEF CancelLocked, Continue, Accepts, FirstRequest, regVars, auditVars, workVars, procVars, cancelVars
<1>39. ASSUME NEW t \in Threads, CancelAudit(t) PROVE ChildInv'
  BY <1>39 DEF CancelAudit, regVars, auditVars, workVars, procVars, cancelVars
<1>40. ASSUME NEW t \in Threads, CancelSpawn(t) PROVE ChildInv'
  BY <1>40 DEF CancelSpawn, Continue, regVars, auditVars, workVars, procVars, cancelVars
<1>41. ASSUME NEW t \in Clients, NoteCancel(t) PROVE ChildInv'
  <2>1. CASE NoteTarget(cop[t])
    BY <1>41, <2>1 DEF NoteCancel, NoteTarget, regVars, auditVars, workVars, procVars, cancelVars
  <2>2. CASE ~NoteTarget(cop[t])
    BY <1>41, <2>2 DEF NoteCancel, regVars, auditVars, workVars, procVars, cancelVars
  <2>. QED BY <2>1, <2>2
<1>42. ASSUME NEW t \in Clients, NoteAudit(t) PROVE ChildInv'
  BY <1>42 DEF NoteAudit, regVars, auditVars, workVars, procVars, cancelVars
<1>43. ASSUME NEW t \in Clients, NativeKill(t) PROVE ChildInv'
  BY <1>43 DEF NativeKill, regVars, auditVars, workVars, procVars, cancelVars
<1>44. CASE UNCHANGED vars
  BY <1>44 DEF vars, regVars, auditVars, workVars, procVars, cancelVars
<1>. HIDE DEF TypeInv, LocalsReady, TypeOK, RecordInv, RecordOK, StopInv, ChildInv, ChildOK
<1>. QED
  BY <1>1, <1>2, <1>3, <1>4, <1>5, <1>6, <1>7, <1>8, <1>9, <1>10, <1>11, <1>12, <1>13, <1>14, <1>15,
     <1>16, <1>17, <1>18, <1>19, <1>20, <1>21, <1>22, <1>23, <1>24, <1>25, <1>26, <1>27, <1>28, <1>29, <1>30,
     <1>31, <1>32, <1>33, <1>34, <1>35, <1>36, <1>37, <1>38, <1>39, <1>40, <1>41, <1>42, <1>43, <1>44
  DEF Next, Environment, WrapperStep, CoroStep, ChildStart,
     BodyStep, EndStep, CallbackStep, CancelStep, NativeStep

LEMMA AbandonStep == TypeInv /\ RecordInv /\ StopInv /\ [Next]_vars => AbandonInv'
<1>. SUFFICES ASSUME TypeInv, RecordInv, StopInv, [Next]_vars PROVE AbandonInv'
  OBVIOUS
<1>. USE Kinds, OpsAssumption, ParentAssumption DEF TypeInv, LocalsReady, TypeOK, RecordInv, RecordOK,
         Finished, WorkerFinishing, CoroFinishing, StopInv, LifeInv, ChildInv, AbandonInv, AbandonOK, Born, Unstarted, Harmless, LifeOK, Cancellable
<1>1. ASSUME NEW k \in 0..clock, Inspect(k) PROVE AbandonInv'
  BY <1>1 DEF Inspect, regVars, auditVars, workVars, procVars, cancelVars
<1>2. ASSUME NEW r \in Requests, NEW k \in 0..clock, StartRequest(r, k) PROVE AbandonInv'
  BY <1>2 DEF StartRequest, Start, SetPc, regVars, auditVars, workVars, procVars, cancelVars
<1>3. ASSUME NEW d \in Detached, NEW k \in 0..clock, StartDetached(d, k) PROVE AbandonInv'
  BY <1>3 DEF StartDetached, Start, SetPc, InBody, regVars, auditVars, workVars, procVars, cancelVars
<1>4. ASSUME NEW c \in Children, AdmitChild(c) PROVE AbandonInv'
  BY <1>4 DEF AdmitChild, SetPc, regVars, auditVars, workVars, procVars, cancelVars
<1>5. ASSUME NEW r \in Requests, Abandon(r) PROVE AbandonInv'
  BY <1>5 DEF Abandon, SetPc, regVars, auditVars, workVars, procVars, cancelVars
<1>6. ASSUME NEW o \in Ops, ProcessExit(o) PROVE AbandonInv'
  BY <1>6 DEF ProcessExit, regVars, auditVars, workVars, procVars, cancelVars
<1>7. ASSUME NEW t \in Clients, Shutdown(t) PROVE AbandonInv'
  BY <1>7 DEF Shutdown, Continue, regVars, auditVars, workVars, procVars, cancelVars
<1>8. ASSUME NEW t \in Clients, NEW o \in Ops, ClientCancel(t, o) PROVE AbandonInv'
  BY <1>8 DEF ClientCancel, regVars, auditVars, workVars, procVars, cancelVars
<1>9. ASSUME NEW t \in Clients, NEW d \in Detached, NativeCancel(t, d) PROVE AbandonInv'
  BY <1>9 DEF NativeCancel, regVars, auditVars, workVars, procVars, cancelVars
<1>10. ASSUME NEW r \in Requests, Enqueue(r) PROVE AbandonInv'
  BY <1>10 DEF Enqueue, SetPc, regVars, auditVars, workVars, procVars, cancelVars
<1>11. ASSUME NEW r \in Requests, Dispatch(r) PROVE AbandonInv'
  BY <1>11 DEF Dispatch, SetPc, regVars, auditVars, workVars, procVars, cancelVars
<1>12. ASSUME NEW r \in Requests, SetStarted(r) PROVE AbandonInv'
  BY <1>12 DEF SetStarted, SetPc, regVars, auditVars, workVars, procVars, cancelVars
<1>13. ASSUME NEW r \in Requests, CheckFinished(r) PROVE AbandonInv'
  BY <1>13 DEF CheckFinished, SetPc, regVars, auditVars, workVars, procVars, cancelVars
<1>14. ASSUME NEW r \in Requests, SetRunning(r) PROVE AbandonInv'
  BY <1>14 DEF SetRunning, SetPc, regVars, auditVars, workVars, procVars, cancelVars
<1>15. ASSUME NEW r \in Requests, Resume(r) PROVE AbandonInv'
  BY <1>15 DEF Resume, regVars, auditVars, workVars, procVars, cancelVars
<1>16. ASSUME NEW r \in Requests, CheckStarted(r) PROVE AbandonInv'
  BY <1>16 DEF CheckStarted, Started, PreStart, Control, regVars, auditVars, workVars, procVars, cancelVars
<1>17. ASSUME NEW r \in Requests, CoroSetEvent(r) PROVE AbandonInv'
  BY <1>17 DEF CoroSetEvent, regVars, auditVars, workVars, procVars, cancelVars
<1>18. ASSUME NEW r \in Requests, CoroFinish(r) PROVE AbandonInv'
  BY <1>18 DEF CoroFinish, FinishEnter, FinishClosed, regVars, auditVars, workVars, procVars, cancelVars
<1>19. ASSUME NEW r \in Requests, CoroAudit(r) PROVE AbandonInv'
  BY <1>19 DEF CoroAudit, regVars, auditVars, workVars, procVars, cancelVars
<1>20. ASSUME NEW r \in Requests, CoroPublish(r) PROVE AbandonInv'
  BY <1>20 DEF CoroPublish, FinishPublish, regVars, auditVars, workVars, procVars, cancelVars
<1>21. ASSUME NEW r \in Requests, Join(r) PROVE AbandonInv'
  BY <1>21 DEF Join, regVars, auditVars, workVars, procVars, cancelVars
<1>22. ASSUME NEW c \in Children, NEW k \in 0..clock, StartChild(c, k) PROVE AbandonInv'
  BY <1>22 DEF StartChild, Start, SetPc, regVars, auditVars, workVars, procVars, cancelVars
<1>23. ASSUME NEW o \in Ops, Gate(o) PROVE AbandonInv'
  BY <1>23 DEF Gate, Stop, SetPc, CancelSeen, regVars, auditVars, workVars, procVars, cancelVars
<1>24. ASSUME NEW o \in Ops, StartProcess(o) PROVE AbandonInv'
  BY <1>24 DEF StartProcess, SetPc, InBody, regVars, auditVars, workVars, procVars, cancelVars
<1>25. ASSUME NEW o \in Ops, Popen(o) PROVE AbandonInv'
  BY <1>25 DEF Popen, SetPc, regVars, auditVars, workVars, procVars, cancelVars
<1>26. ASSUME NEW o \in Ops, AddCancel(o) PROVE AbandonInv'
  BY <1>26 DEF AddCancel, SetPc, regVars, auditVars, workVars, procVars, cancelVars
<1>27. ASSUME NEW o \in Ops, CallReturns(o) PROVE AbandonInv'
  BY <1>27 DEF CallReturns, SetPc, regVars, auditVars, workVars, procVars, cancelVars
<1>28. ASSUME NEW o \in Ops, Reap(o) PROVE AbandonInv'
  BY <1>28 DEF Reap, SetPc, regVars, auditVars, workVars, procVars, cancelVars
<1>29. ASSUME NEW o \in Ops, Return(o) PROVE AbandonInv'
  BY <1>29 DEF Return, SetPc, regVars, auditVars, workVars, procVars, cancelVars
<1>30. ASSUME NEW o \in Ops, StopBody(o) PROVE AbandonInv'
  BY <1>30 DEF StopBody, Stop, SetPc, InBody, CancelSeen, regVars, auditVars, workVars, procVars, cancelVars
<1>31. ASSUME NEW o \in Ops, Decide(o) PROVE AbandonInv'
  BY <1>31 DEF Decide, SetPc, regVars, auditVars, workVars, procVars, cancelVars
<1>32. ASSUME NEW o \in Ops, WorkerFinish(o) PROVE AbandonInv'
  <2>1. CASE FinishClosed(o)
    BY <1>32, <2>1 DEF WorkerFinish, SetPc, FinishClosed, regVars, auditVars, workVars, procVars, cancelVars
  <2>2. CASE ~FinishClosed(o)
    BY <1>32, <2>2 DEF WorkerFinish, SetPc, FinishEnter, FinishClosed, regVars, auditVars, workVars, procVars, cancelVars
  <2>. QED BY <2>1, <2>2
<1>33. ASSUME NEW o \in Ops, WorkerAudit(o) PROVE AbandonInv'
  BY <1>33 DEF WorkerAudit, SetPc, regVars, auditVars, workVars, procVars, cancelVars
<1>34. ASSUME NEW o \in Ops, WorkerPublish(o) PROVE AbandonInv'
  BY <1>34 DEF WorkerPublish, SetPc, FinishPublish, regVars, auditVars, workVars, procVars, cancelVars
<1>35. ASSUME NEW o \in Ops, CallbackPoll(o) PROVE AbandonInv'
  BY <1>35 DEF CallbackPoll, regVars, auditVars, workVars, procVars, cancelVars
<1>36. ASSUME NEW o \in Ops, CallbackAck(o) PROVE AbandonInv'
  BY <1>36 DEF CallbackAck, regVars, auditVars, workVars, procVars, cancelVars
<1>37. ASSUME NEW o \in Ops, CallbackKill(o) PROVE AbandonInv'
  BY <1>37 DEF CallbackKill, regVars, auditVars, workVars, procVars, cancelVars
<1>38. ASSUME NEW t \in Threads, NEW o \in Ops, CancelLocked(t, o) PROVE AbandonInv'
  <2>. SUFFICES ASSUME NEW r \in Requests \cap Cancellable PROVE AbandonOK(r)'
    BY DEF AbandonInv
  <2>1. /\ UNCHANGED <<pc, coro, finishedAt, listed>>
        /\ t # r => UNCHANGED <<cpc[r], ctodo[r]>>
    <3>1. CASE Accepts(o) /\ FirstRequest(o)
      BY <1>38, <3>1 DEF CancelLocked, workVars
    <3>2. CASE ~(Accepts(o) /\ FirstRequest(o))
      BY <1>38, <3>2 DEF CancelLocked, workVars
    <3>. QED BY <3>1, <3>2
  <2>2. event[r] => event'[r]
    <3>1. CASE Accepts(o)
      <4>1. event' = [event EXCEPT ![o] = TRUE]
        BY <1>38, <3>1 DEF CancelLocked
      <4>2. event \in [Ops -> BOOLEAN] /\ r \in Ops
        OBVIOUS
      <4>. QED BY <4>1, <4>2
    <3>2. CASE ~Accepts(o)
      BY <1>38, <3>2 DEF CancelLocked
    <3>. QED BY <3>1, <3>2
  <2>3. CASE coro[r] = "cancelling" /\ ~event[r] /\ pc[r] \in {"dispatched", "dropped"} /\ t = r
    <3>1. ctodo[r] = {r} /\ o = r
      BY <1>38, <2>3 DEF CancelLocked
    <3>2. Accepts(r)
      BY <2>3 DEF Accepts
    <3>3. event'[r]
      BY <1>38, <3>1, <3>2 DEF CancelLocked
    <3>. QED BY <2>1, <3>3
  <2>. QED BY <2>1, <2>2, <2>3
<1>39. ASSUME NEW t \in Threads, CancelAudit(t) PROVE AbandonInv'
  BY <1>39 DEF CancelAudit, regVars, auditVars, workVars, procVars, cancelVars
<1>40. ASSUME NEW t \in Threads, CancelSpawn(t) PROVE AbandonInv'
  BY <1>40 DEF CancelSpawn, Continue, regVars, auditVars, workVars, procVars, cancelVars
<1>41. ASSUME NEW t \in Clients, NoteCancel(t) PROVE AbandonInv'
  <2>1. CASE NoteTarget(cop[t])
    BY <1>41, <2>1 DEF NoteCancel, NoteTarget, regVars, auditVars, workVars, procVars, cancelVars
  <2>2. CASE ~NoteTarget(cop[t])
    BY <1>41, <2>2 DEF NoteCancel, regVars, auditVars, workVars, procVars, cancelVars
  <2>. QED BY <2>1, <2>2
<1>42. ASSUME NEW t \in Clients, NoteAudit(t) PROVE AbandonInv'
  BY <1>42 DEF NoteAudit, regVars, auditVars, workVars, procVars, cancelVars
<1>43. ASSUME NEW t \in Clients, NativeKill(t) PROVE AbandonInv'
  BY <1>43 DEF NativeKill, regVars, auditVars, workVars, procVars, cancelVars
<1>44. CASE UNCHANGED vars
  BY <1>44 DEF vars, regVars, auditVars, workVars, procVars, cancelVars
<1>. HIDE DEF TypeInv, LocalsReady, TypeOK, RecordInv, RecordOK, StopInv, AbandonInv, AbandonOK
<1>. QED
  BY <1>1, <1>2, <1>3, <1>4, <1>5, <1>6, <1>7, <1>8, <1>9, <1>10, <1>11, <1>12, <1>13, <1>14, <1>15,
     <1>16, <1>17, <1>18, <1>19, <1>20, <1>21, <1>22, <1>23, <1>24, <1>25, <1>26, <1>27, <1>28, <1>29, <1>30,
     <1>31, <1>32, <1>33, <1>34, <1>35, <1>36, <1>37, <1>38, <1>39, <1>40, <1>41, <1>42, <1>43, <1>44
  DEF Next, Environment, WrapperStep, CoroStep, ChildStart,
     BodyStep, EndStep, CallbackStep, CancelStep, NativeStep

LEMMA StopInvariant == Spec => [](TypeInv /\ RecordInv /\ StopInv)
<1>1. Init => StopInv
  BY Kinds, OpsAssumption, ParentAssumption DEF Init, StopInv, LifeInv, ChildInv, AbandonInv, LifeOK, ChildOK, AbandonOK, Unstarted,
     Harmless, Born, Finished
<1>2. TypeInv /\ RecordInv /\ StopInv /\ [Next]_vars => StopInv'
  BY LifeStep, ChildStep, AbandonStep DEF StopInv
<1>. QED
  BY <1>1, <1>2, RecordInvariant, PTL DEF Spec

\* The record of a cancellable operation is finished only when its worker does
\* nothing for it any more, its process is gone and the same holds of the calls
\* of a batch, whatever the race between the abandoned coroutine and the worker.
THEOREM FinishedIsStopped == Spec => []FinishedMeansStopped
<1>1. TypeInv /\ RecordInv /\ StopInv => FinishedMeansStopped
  <2>. SUFFICES ASSUME TypeInv, RecordInv, StopInv, NEW o \in Cancellable, Finished(o)
                PROVE  ~Active(o)
    BY DEF FinishedMeansStopped
  <2>. USE Kinds, OpsAssumption, ParentAssumption DEF StopInv, LifeInv, ChildInv, AbandonInv, Cancellable
  <2>1. pc[o] \in Harmless
    <3>1. CASE o \in Requests
      BY <3>1 DEF AbandonOK, Unstarted, Harmless
    <3>2. CASE o \notin Requests
      BY <3>2 DEF LifeOK, Harmless
    <3>. QED BY <3>1, <3>2
  <2>2. pc[o] \notin Working /\ proc[o] # "alive"
    BY <2>1 DEF Harmless, Working, LifeOK
  <2>3. ASSUME NEW c \in Children, Parent[c] = o
        PROVE  pc[c] \notin Working /\ proc[c] # "alive"
    <3>1. pc[o] # "body"
      BY <2>1 DEF Harmless
    <3>2. pc[c] \in {"none", "skipped", "exit"}
      BY <2>3, <3>1 DEF ChildOK
    <3>. QED BY <3>2 DEF Working, LifeOK
  <2>. QED BY <2>2, <2>3 DEF Active
<1>. QED
  BY <1>1, StopInvariant, PTL

\* Pruning the history never drops the record of an operation that is not
\* finished.
THEOREM ActiveStaysListed == Spec => []ActiveIsListed
<1>1. StopInv => ActiveIsListed
  BY DEF StopInv, LifeInv, LifeOK, ActiveIsListed
<1>. QED
  BY <1>1, StopInvariant, PTL

-----------------------------------------------------------------------------
(* Where a cancellation reaches, and where it shows.                       *)

\* A thread cancels a detached operation only after a client named it.
AskedInv ==
    /\ \A t \in Threads : ctodo[t] \cap Detached \subseteq asked
    /\ \A t \in Clients : cpc[t] \in {"note", "note_audit", "kill"} => cop[t] \in asked
    /\ \A d \in Detached : event[d] => d \in asked

LEMMA AskedStep == TypeInv /\ AskedInv /\ [Next]_vars => AskedInv'
<1>. SUFFICES ASSUME TypeInv, AskedInv, [Next]_vars PROVE AskedInv'
  OBVIOUS
<1>. USE Kinds, OpsAssumption DEF TypeInv, LocalsReady, TypeOK, AskedInv
<1>1. ASSUME NEW k \in 0..clock, Inspect(k) PROVE AskedInv'
  BY <1>1 DEF Inspect, regVars, auditVars, workVars, procVars, cancelVars
<1>2. ASSUME NEW r \in Requests, NEW k \in 0..clock, StartRequest(r, k) PROVE AskedInv'
  BY <1>2 DEF StartRequest, Start, SetPc, regVars, auditVars, workVars, procVars, cancelVars
<1>3. ASSUME NEW d \in Detached, NEW k \in 0..clock, StartDetached(d, k) PROVE AskedInv'
  BY <1>3 DEF StartDetached, Start, SetPc, InBody, regVars, auditVars, workVars, procVars, cancelVars
<1>4. ASSUME NEW c \in Children, AdmitChild(c) PROVE AskedInv'
  BY <1>4 DEF AdmitChild, SetPc, regVars, auditVars, workVars, procVars, cancelVars
<1>5. ASSUME NEW r \in Requests, Abandon(r) PROVE AskedInv'
  BY <1>5 DEF Abandon, SetPc, regVars, auditVars, workVars, procVars, cancelVars
<1>6. ASSUME NEW o \in Ops, ProcessExit(o) PROVE AskedInv'
  BY <1>6 DEF ProcessExit, regVars, auditVars, workVars, procVars, cancelVars
<1>7. ASSUME NEW t \in Clients, Shutdown(t) PROVE AskedInv'
  BY <1>7 DEF Shutdown, Continue, regVars, auditVars, workVars, procVars, cancelVars
<1>8. ASSUME NEW t \in Clients, NEW o \in Ops, ClientCancel(t, o) PROVE AskedInv'
  BY <1>8 DEF ClientCancel, regVars, auditVars, workVars, procVars, cancelVars
<1>9. ASSUME NEW t \in Clients, NEW d \in Detached, NativeCancel(t, d) PROVE AskedInv'
  BY <1>9 DEF NativeCancel, regVars, auditVars, workVars, procVars, cancelVars
<1>10. ASSUME NEW r \in Requests, Enqueue(r) PROVE AskedInv'
  BY <1>10 DEF Enqueue, SetPc, regVars, auditVars, workVars, procVars, cancelVars
<1>11. ASSUME NEW r \in Requests, Dispatch(r) PROVE AskedInv'
  BY <1>11 DEF Dispatch, SetPc, regVars, auditVars, workVars, procVars, cancelVars
<1>12. ASSUME NEW r \in Requests, SetStarted(r) PROVE AskedInv'
  BY <1>12 DEF SetStarted, SetPc, regVars, auditVars, workVars, procVars, cancelVars
<1>13. ASSUME NEW r \in Requests, CheckFinished(r) PROVE AskedInv'
  BY <1>13 DEF CheckFinished, SetPc, regVars, auditVars, workVars, procVars, cancelVars
<1>14. ASSUME NEW r \in Requests, SetRunning(r) PROVE AskedInv'
  BY <1>14 DEF SetRunning, SetPc, regVars, auditVars, workVars, procVars, cancelVars
<1>15. ASSUME NEW r \in Requests, Resume(r) PROVE AskedInv'
  BY <1>15 DEF Resume, regVars, auditVars, workVars, procVars, cancelVars
<1>16. ASSUME NEW r \in Requests, CheckStarted(r) PROVE AskedInv'
  BY <1>16 DEF CheckStarted, Started, regVars, auditVars, workVars, procVars, cancelVars
<1>17. ASSUME NEW r \in Requests, CoroSetEvent(r) PROVE AskedInv'
  BY <1>17 DEF CoroSetEvent, regVars, auditVars, workVars, procVars, cancelVars
<1>18. ASSUME NEW r \in Requests, CoroFinish(r) PROVE AskedInv'
  BY <1>18 DEF CoroFinish, FinishEnter, FinishClosed, regVars, auditVars, workVars, procVars, cancelVars
<1>19. ASSUME NEW r \in Requests, CoroAudit(r) PROVE AskedInv'
  BY <1>19 DEF CoroAudit, regVars, auditVars, workVars, procVars, cancelVars
<1>20. ASSUME NEW r \in Requests, CoroPublish(r) PROVE AskedInv'
  BY <1>20 DEF CoroPublish, FinishPublish, regVars, auditVars, workVars, procVars, cancelVars
<1>21. ASSUME NEW r \in Requests, Join(r) PROVE AskedInv'
  BY <1>21 DEF Join, regVars, auditVars, workVars, procVars, cancelVars
<1>22. ASSUME NEW c \in Children, NEW k \in 0..clock, StartChild(c, k) PROVE AskedInv'
  BY <1>22 DEF StartChild, Start, SetPc, regVars, auditVars, workVars, procVars, cancelVars
<1>23. ASSUME NEW o \in Ops, Gate(o) PROVE AskedInv'
  BY <1>23 DEF Gate, Stop, SetPc, CancelSeen, regVars, auditVars, workVars, procVars, cancelVars
<1>24. ASSUME NEW o \in Ops, StartProcess(o) PROVE AskedInv'
  BY <1>24 DEF StartProcess, SetPc, InBody, regVars, auditVars, workVars, procVars, cancelVars
<1>25. ASSUME NEW o \in Ops, Popen(o) PROVE AskedInv'
  BY <1>25 DEF Popen, SetPc, regVars, auditVars, workVars, procVars, cancelVars
<1>26. ASSUME NEW o \in Ops, AddCancel(o) PROVE AskedInv'
  BY <1>26 DEF AddCancel, SetPc, regVars, auditVars, workVars, procVars, cancelVars
<1>27. ASSUME NEW o \in Ops, CallReturns(o) PROVE AskedInv'
  BY <1>27 DEF CallReturns, SetPc, regVars, auditVars, workVars, procVars, cancelVars
<1>28. ASSUME NEW o \in Ops, Reap(o) PROVE AskedInv'
  BY <1>28 DEF Reap, SetPc, regVars, auditVars, workVars, procVars, cancelVars
<1>29. ASSUME NEW o \in Ops, Return(o) PROVE AskedInv'
  BY <1>29 DEF Return, SetPc, regVars, auditVars, workVars, procVars, cancelVars
<1>30. ASSUME NEW o \in Ops, StopBody(o) PROVE AskedInv'
  BY <1>30 DEF StopBody, Stop, SetPc, InBody, CancelSeen, regVars, auditVars, workVars, procVars, cancelVars
<1>31. ASSUME NEW o \in Ops, Decide(o) PROVE AskedInv'
  BY <1>31 DEF Decide, SetPc, regVars, auditVars, workVars, procVars, cancelVars
<1>32. ASSUME NEW o \in Ops, WorkerFinish(o) PROVE AskedInv'
  <2>1. CASE FinishClosed(o)
    BY <1>32, <2>1 DEF WorkerFinish, SetPc, FinishClosed, regVars, auditVars, workVars, procVars, cancelVars
  <2>2. CASE ~FinishClosed(o)
    BY <1>32, <2>2 DEF WorkerFinish, SetPc, FinishEnter, FinishClosed, regVars, auditVars, workVars, procVars, cancelVars
  <2>. QED BY <2>1, <2>2
<1>33. ASSUME NEW o \in Ops, WorkerAudit(o) PROVE AskedInv'
  BY <1>33 DEF WorkerAudit, SetPc, regVars, auditVars, workVars, procVars, cancelVars
<1>34. ASSUME NEW o \in Ops, WorkerPublish(o) PROVE AskedInv'
  BY <1>34 DEF WorkerPublish, SetPc, FinishPublish, regVars, auditVars, workVars, procVars, cancelVars
<1>35. ASSUME NEW o \in Ops, CallbackPoll(o) PROVE AskedInv'
  BY <1>35 DEF CallbackPoll, regVars, auditVars, workVars, procVars, cancelVars
<1>36. ASSUME NEW o \in Ops, CallbackAck(o) PROVE AskedInv'
  BY <1>36 DEF CallbackAck, regVars, auditVars, workVars, procVars, cancelVars
<1>37. ASSUME NEW o \in Ops, CallbackKill(o) PROVE AskedInv'
  BY <1>37 DEF CallbackKill, regVars, auditVars, workVars, procVars, cancelVars
<1>38. ASSUME NEW t \in Threads, NEW o \in Ops, CancelLocked(t, o) PROVE AskedInv'
  <2>1. ctodo' = [ctodo EXCEPT ![t] = (ctodo[t] \ {o}) \cup (IF Accepts(o) THEN LiveChildren(o) ELSE {})]
    BY <1>38 DEF CancelLocked
  <2>2. \A u \in Threads : ctodo'[u] \cap Detached \subseteq ctodo[u]
    BY <2>1 DEF LiveChildren
  <2>3. \A d \in Detached : event'[d] => event[d] \/ d = o
    BY <1>38 DEF CancelLocked
  <2>4. o \in ctodo[t] /\ asked' = asked
    BY <1>38 DEF CancelLocked
  <2>5. \A u \in Clients : cpc'[u] \in {"note", "note_audit", "kill"} => u # t
    <3>1. cpc'[t] \in {"idle", "cancel", "audit"}
      BY <1>38 DEF CancelLocked, Continue
    <3>. QED BY <3>1
  <2>6. \A u \in Clients : u # t => cpc'[u] = cpc[u] /\ cop'[u] = cop[u]
    <3>1. CASE Accepts(o) /\ FirstRequest(o)
      BY <1>38, <3>1 DEF CancelLocked
    <3>2. CASE ~(Accepts(o) /\ FirstRequest(o))
      BY <1>38, <3>2 DEF CancelLocked
    <3>. QED BY <3>1, <3>2
  <2>. QED BY <2>2, <2>3, <2>4, <2>5, <2>6
<1>39. ASSUME NEW t \in Threads, CancelAudit(t) PROVE AskedInv'
  BY <1>39 DEF CancelAudit, regVars, auditVars, workVars, procVars, cancelVars
<1>40. ASSUME NEW t \in Threads, CancelSpawn(t) PROVE AskedInv'
  BY <1>40 DEF CancelSpawn, Continue, regVars, auditVars, workVars, procVars, cancelVars
<1>41. ASSUME NEW t \in Clients, NoteCancel(t) PROVE AskedInv'
  <2>1. cop[t] \in asked /\ asked' = asked /\ ctodo' = ctodo
    BY <1>41 DEF NoteCancel
  <2>2. \A d \in Detached : event'[d] => event[d] \/ d = cop[t]
    BY <1>41 DEF NoteCancel
  <2>3. cop' = cop /\ \A u \in Clients : u # t => cpc'[u] = cpc[u]
    BY <1>41 DEF NoteCancel
  <2>. QED BY <2>1, <2>2, <2>3
<1>42. ASSUME NEW t \in Clients, NoteAudit(t) PROVE AskedInv'
  BY <1>42 DEF NoteAudit, regVars, auditVars, workVars, procVars, cancelVars
<1>43. ASSUME NEW t \in Clients, NativeKill(t) PROVE AskedInv'
  BY <1>43 DEF NativeKill, regVars, auditVars, workVars, procVars, cancelVars
<1>44. CASE UNCHANGED vars
  BY <1>44 DEF vars, regVars, auditVars, workVars, procVars, cancelVars
<1>. QED
  BY <1>1, <1>2, <1>3, <1>4, <1>5, <1>6, <1>7, <1>8, <1>9, <1>10, <1>11, <1>12, <1>13, <1>14, <1>15,
     <1>16, <1>17, <1>18, <1>19, <1>20, <1>21, <1>22, <1>23, <1>24, <1>25, <1>26, <1>27, <1>28, <1>29, <1>30,
     <1>31, <1>32, <1>33, <1>34, <1>35, <1>36, <1>37, <1>38, <1>39, <1>40, <1>41, <1>42, <1>43, <1>44
  DEF Next, Environment, WrapperStep, CoroStep, ChildStart,
     BodyStep, EndStep, CallbackStep, CancelStep, NativeStep

\* A detached job or terminal survives the cancellation of the request that
\* launched it: its event is set only when a client asked for it by its own id.
THEOREM DetachedSurvive == Spec => []DetachedSurvives
<1>1. Init => AskedInv
  BY Kinds DEF Init, AskedInv
<1>2. AskedInv => DetachedSurvives
  BY DEF AskedInv, DetachedSurvives
<1>. QED
  BY <1>1, <1>2, AskedStep, RecordInvariant, PTL DEF Spec

LEMMA VisibleStep == TypeInv /\ RecordInv /\ StopInv /\ CancelIsVisible /\ [Next]_vars => CancelIsVisible'
<1>. SUFFICES ASSUME TypeInv, RecordInv, StopInv, CancelIsVisible, [Next]_vars PROVE CancelIsVisible'
  OBVIOUS
<1>. USE Kinds, OpsAssumption DEF TypeInv, LocalsReady, TypeOK, RecordInv, RecordOK, Finished,
         WorkerFinishing, CoroFinishing, StopInv, LifeInv, AbandonInv, LifeOK, CancelIsVisible, Born
<1>1. ASSUME NEW k \in 0..clock, Inspect(k) PROVE CancelIsVisible'
  BY <1>1 DEF Inspect, regVars, auditVars, workVars, procVars, cancelVars
<1>2. ASSUME NEW r \in Requests, NEW k \in 0..clock, StartRequest(r, k) PROVE CancelIsVisible'
  BY <1>2 DEF StartRequest, Start, SetPc, regVars, auditVars, workVars, procVars, cancelVars
<1>3. ASSUME NEW d \in Detached, NEW k \in 0..clock, StartDetached(d, k) PROVE CancelIsVisible'
  BY <1>3 DEF StartDetached, Start, SetPc, InBody, regVars, auditVars, workVars, procVars, cancelVars
<1>4. ASSUME NEW c \in Children, AdmitChild(c) PROVE CancelIsVisible'
  BY <1>4 DEF AdmitChild, SetPc, regVars, auditVars, workVars, procVars, cancelVars
<1>5. ASSUME NEW r \in Requests, Abandon(r) PROVE CancelIsVisible'
  BY <1>5 DEF Abandon, SetPc, regVars, auditVars, workVars, procVars, cancelVars
<1>6. ASSUME NEW o \in Ops, ProcessExit(o) PROVE CancelIsVisible'
  BY <1>6 DEF ProcessExit, regVars, auditVars, workVars, procVars, cancelVars
<1>7. ASSUME NEW t \in Clients, Shutdown(t) PROVE CancelIsVisible'
  BY <1>7 DEF Shutdown, Continue, regVars, auditVars, workVars, procVars, cancelVars
<1>8. ASSUME NEW t \in Clients, NEW o \in Ops, ClientCancel(t, o) PROVE CancelIsVisible'
  BY <1>8 DEF ClientCancel, regVars, auditVars, workVars, procVars, cancelVars
<1>9. ASSUME NEW t \in Clients, NEW d \in Detached, NativeCancel(t, d) PROVE CancelIsVisible'
  BY <1>9 DEF NativeCancel, regVars, auditVars, workVars, procVars, cancelVars
<1>10. ASSUME NEW r \in Requests, Enqueue(r) PROVE CancelIsVisible'
  BY <1>10 DEF Enqueue, SetPc, regVars, auditVars, workVars, procVars, cancelVars
<1>11. ASSUME NEW r \in Requests, Dispatch(r) PROVE CancelIsVisible'
  BY <1>11 DEF Dispatch, SetPc, regVars, auditVars, workVars, procVars, cancelVars
<1>12. ASSUME NEW r \in Requests, SetStarted(r) PROVE CancelIsVisible'
  BY <1>12 DEF SetStarted, SetPc, regVars, auditVars, workVars, procVars, cancelVars
<1>13. ASSUME NEW r \in Requests, CheckFinished(r) PROVE CancelIsVisible'
  BY <1>13 DEF CheckFinished, SetPc, regVars, auditVars, workVars, procVars, cancelVars
<1>14. ASSUME NEW r \in Requests, SetRunning(r) PROVE CancelIsVisible'
  BY <1>14 DEF SetRunning, SetPc, regVars, auditVars, workVars, procVars, cancelVars
<1>15. ASSUME NEW r \in Requests, Resume(r) PROVE CancelIsVisible'
  BY <1>15 DEF Resume, regVars, auditVars, workVars, procVars, cancelVars
<1>16. ASSUME NEW r \in Requests, CheckStarted(r) PROVE CancelIsVisible'
  BY <1>16 DEF CheckStarted, Started, regVars, auditVars, workVars, procVars, cancelVars
<1>17. ASSUME NEW r \in Requests, CoroSetEvent(r) PROVE CancelIsVisible'
  BY <1>17 DEF CoroSetEvent, AbandonOK, Unstarted, Cancellable, regVars, auditVars, workVars, procVars, cancelVars
<1>18. ASSUME NEW r \in Requests, CoroFinish(r) PROVE CancelIsVisible'
  BY <1>18 DEF CoroFinish, FinishEnter, FinishClosed, regVars, auditVars, workVars, procVars, cancelVars
<1>19. ASSUME NEW r \in Requests, CoroAudit(r) PROVE CancelIsVisible'
  BY <1>19 DEF CoroAudit, regVars, auditVars, workVars, procVars, cancelVars
<1>20. ASSUME NEW r \in Requests, CoroPublish(r) PROVE CancelIsVisible'
  BY <1>20 DEF CoroPublish, FinishPublish, regVars, auditVars, workVars, procVars, cancelVars
<1>21. ASSUME NEW r \in Requests, Join(r) PROVE CancelIsVisible'
  BY <1>21 DEF Join, regVars, auditVars, workVars, procVars, cancelVars
<1>22. ASSUME NEW c \in Children, NEW k \in 0..clock, StartChild(c, k) PROVE CancelIsVisible'
  BY <1>22 DEF StartChild, Start, SetPc, regVars, auditVars, workVars, procVars, cancelVars
<1>23. ASSUME NEW o \in Ops, Gate(o) PROVE CancelIsVisible'
  BY <1>23 DEF Gate, Stop, SetPc, CancelSeen, regVars, auditVars, workVars, procVars, cancelVars
<1>24. ASSUME NEW o \in Ops, StartProcess(o) PROVE CancelIsVisible'
  BY <1>24 DEF StartProcess, SetPc, InBody, regVars, auditVars, workVars, procVars, cancelVars
<1>25. ASSUME NEW o \in Ops, Popen(o) PROVE CancelIsVisible'
  BY <1>25 DEF Popen, SetPc, regVars, auditVars, workVars, procVars, cancelVars
<1>26. ASSUME NEW o \in Ops, AddCancel(o) PROVE CancelIsVisible'
  BY <1>26 DEF AddCancel, SetPc, regVars, auditVars, workVars, procVars, cancelVars
<1>27. ASSUME NEW o \in Ops, CallReturns(o) PROVE CancelIsVisible'
  BY <1>27 DEF CallReturns, SetPc, regVars, auditVars, workVars, procVars, cancelVars
<1>28. ASSUME NEW o \in Ops, Reap(o) PROVE CancelIsVisible'
  BY <1>28 DEF Reap, SetPc, regVars, auditVars, workVars, procVars, cancelVars
<1>29. ASSUME NEW o \in Ops, Return(o) PROVE CancelIsVisible'
  BY <1>29 DEF Return, SetPc, regVars, auditVars, workVars, procVars, cancelVars
<1>30. ASSUME NEW o \in Ops, StopBody(o) PROVE CancelIsVisible'
  BY <1>30 DEF StopBody, Stop, SetPc, InBody, CancelSeen, regVars, auditVars, workVars, procVars, cancelVars
<1>31. ASSUME NEW o \in Ops, Decide(o) PROVE CancelIsVisible'
  BY <1>31 DEF Decide, SetPc, regVars, auditVars, workVars, procVars, cancelVars
<1>32. ASSUME NEW o \in Ops, WorkerFinish(o) PROVE CancelIsVisible'
  <2>1. CASE FinishClosed(o)
    BY <1>32, <2>1 DEF WorkerFinish, SetPc, FinishClosed, regVars, auditVars, workVars, procVars, cancelVars
  <2>2. CASE ~FinishClosed(o)
    BY <1>32, <2>2 DEF WorkerFinish, SetPc, FinishEnter, FinishClosed, regVars, auditVars, workVars, procVars, cancelVars
  <2>. QED BY <2>1, <2>2
<1>33. ASSUME NEW o \in Ops, WorkerAudit(o) PROVE CancelIsVisible'
  BY <1>33 DEF WorkerAudit, SetPc, regVars, auditVars, workVars, procVars, cancelVars
<1>34. ASSUME NEW o \in Ops, WorkerPublish(o) PROVE CancelIsVisible'
  BY <1>34 DEF WorkerPublish, SetPc, FinishPublish, regVars, auditVars, workVars, procVars, cancelVars
<1>35. ASSUME NEW o \in Ops, CallbackPoll(o) PROVE CancelIsVisible'
  BY <1>35 DEF CallbackPoll, regVars, auditVars, workVars, procVars, cancelVars
<1>36. ASSUME NEW o \in Ops, CallbackAck(o) PROVE CancelIsVisible'
  BY <1>36 DEF CallbackAck, regVars, auditVars, workVars, procVars, cancelVars
<1>37. ASSUME NEW o \in Ops, CallbackKill(o) PROVE CancelIsVisible'
  BY <1>37 DEF CallbackKill, regVars, auditVars, workVars, procVars, cancelVars
<1>38. ASSUME NEW t \in Threads, NEW o \in Ops, CancelLocked(t, o) PROVE CancelIsVisible'
  BY <1>38 DEF CancelLocked, Continue, Accepts, FirstRequest, regVars, auditVars, workVars, procVars, cancelVars
<1>39. ASSUME NEW t \in Threads, CancelAudit(t) PROVE CancelIsVisible'
  BY <1>39 DEF CancelAudit, regVars, auditVars, workVars, procVars, cancelVars
<1>40. ASSUME NEW t \in Threads, CancelSpawn(t) PROVE CancelIsVisible'
  BY <1>40 DEF CancelSpawn, Continue, regVars, auditVars, workVars, procVars, cancelVars
<1>41. ASSUME NEW t \in Clients, NoteCancel(t) PROVE CancelIsVisible'
  <2>1. CASE NoteTarget(cop[t])
    BY <1>41, <2>1 DEF NoteCancel, NoteTarget, regVars, auditVars, workVars, procVars, cancelVars
  <2>2. CASE ~NoteTarget(cop[t])
    BY <1>41, <2>2 DEF NoteCancel, regVars, auditVars, workVars, procVars, cancelVars
  <2>. QED BY <2>1, <2>2
<1>42. ASSUME NEW t \in Clients, NoteAudit(t) PROVE CancelIsVisible'
  BY <1>42 DEF NoteAudit, regVars, auditVars, workVars, procVars, cancelVars
<1>43. ASSUME NEW t \in Clients, NativeKill(t) PROVE CancelIsVisible'
  BY <1>43 DEF NativeKill, regVars, auditVars, workVars, procVars, cancelVars
<1>44. CASE UNCHANGED vars
  BY <1>44 DEF vars, regVars, auditVars, workVars, procVars, cancelVars
<1>. QED
  BY <1>1, <1>2, <1>3, <1>4, <1>5, <1>6, <1>7, <1>8, <1>9, <1>10, <1>11, <1>12, <1>13, <1>14, <1>15,
     <1>16, <1>17, <1>18, <1>19, <1>20, <1>21, <1>22, <1>23, <1>24, <1>25, <1>26, <1>27, <1>28, <1>29, <1>30,
     <1>31, <1>32, <1>33, <1>34, <1>35, <1>36, <1>37, <1>38, <1>39, <1>40, <1>41, <1>42, <1>43, <1>44
  DEF Next, Environment, WrapperStep, CoroStep, ChildStart,
     BodyStep, EndStep, CallbackStep, CancelStep, NativeStep

\* While a cancelled cancellable request or detached operation is active its
\* record says "cancelling": the late writes of "queued" and "running" in the
\* wrapper cannot hide a cancellation that came before them.
THEOREM CancellationShows == Spec => []CancelIsVisible
<1>1. Init => CancelIsVisible
  BY Kinds DEF Init, CancelIsVisible
<1>. QED
  BY <1>1, VisibleStep, StopInvariant, PTL DEF Spec

-----------------------------------------------------------------------------
(* What a cancellation promises.                                             *)

\* What the locked region of Registry.cancel does: it claims the first cancellation of an operation,
\* or changes nothing but the work list and the status.
LEMMA LockedEffect ==
    ASSUME TypeInv, NEW t \in Threads, NEW o \in Ops, CancelLocked(t, o)
    PROVE  /\ cpc[t] = "cancel"
           /\ \/ /\ Accepts(o) /\ ~event[o]
                 /\ event' = [event EXCEPT ![o] = TRUE]
                 /\ cpc' = [cpc EXCEPT ![t] = "audit"]
                 /\ cop' = [cop EXCEPT ![t] = o]
                 /\ ccb' = [ccb EXCEPT ![t] = callbacks[o]]
              \/ /\ ~(Accepts(o) /\ ~event[o])
                 /\ \E x \in {"idle", "cancel"} : cpc' = [cpc EXCEPT ![t] = x]
                 /\ UNCHANGED <<event, cop, ccb>>
           /\ status' = IF Accepts(o) THEN [status EXCEPT ![o] = "cancelling"] ELSE status
           /\ UNCHANGED <<listed, finishing, finishedAt, clock, callbacks, auditReq, auditFin,
                          pc, res, verdict, proc, acked, cb, invoked, coro, asked>>
<1>. USE DEF TypeInv, TypeOK, regVars, auditVars, workVars, procVars
<1>1. CASE Accepts(o) /\ ~event[o]
  BY <1>1 DEF CancelLocked, FirstRequest
<1>2. CASE Accepts(o) /\ event[o]
  <2>1. event' = [event EXCEPT ![o] = TRUE]
    BY <1>2 DEF CancelLocked
  <2>2. event' = event
    BY <1>2, <2>1
  <2>. QED
    BY <1>2, <2>2 DEF CancelLocked, FirstRequest, Continue
<1>3. CASE ~Accepts(o)
  BY <1>3 DEF CancelLocked, Continue
<1>. QED
  BY <1>1, <1>2, <1>3

-----------------------------------------------------------------------------
(* A request to cancel reaches the audit log once.                           *)

\* A thread that has claimed the first cancellation of an operation and has not audited it yet.
Asking(t) == cpc[t] \in {"audit", "note_audit"}

AuditedInv ==
    /\ \A o \in Ops : auditReq[o] <= 1 /\ (~event[o] => auditReq[o] = 0)
    /\ \A t \in Threads : Asking(t) => event[cop[t]] /\ auditReq[cop[t]] = 0
    /\ \A t, u \in Threads : Asking(t) /\ Asking(u) /\ cop[t] = cop[u] => t = u

\* The event and the claim on the audit line change hands in one region under the lock.
LEMMA AuditedStep == TypeInv /\ AuditedInv /\ [Next]_vars => AuditedInv'
<1>. SUFFICES ASSUME TypeInv, AuditedInv, [Next]_vars PROVE AuditedInv'
  OBVIOUS
<1>. USE Kinds DEF TypeInv, LocalsReady, TypeOK, AuditedInv, Asking
<1>1. ASSUME NEW k \in 0..clock, Inspect(k) PROVE AuditedInv'
  BY <1>1 DEF Inspect, regVars, auditVars, workVars, procVars, cancelVars
<1>2. ASSUME NEW r \in Requests, NEW k \in 0..clock, StartRequest(r, k) PROVE AuditedInv'
  BY <1>2 DEF StartRequest, Start, SetPc, regVars, auditVars, workVars, procVars, cancelVars
<1>3. ASSUME NEW d \in Detached, NEW k \in 0..clock, StartDetached(d, k) PROVE AuditedInv'
  BY <1>3 DEF StartDetached, Start, SetPc, regVars, auditVars, workVars, procVars, cancelVars
<1>4. ASSUME NEW c \in Children, NEW k \in 0..clock, StartChild(c, k) PROVE AuditedInv'
  BY <1>4 DEF StartChild, Start, SetPc, regVars, auditVars, workVars, procVars, cancelVars
<1>5. ASSUME NEW c \in Children, AdmitChild(c) PROVE AuditedInv'
  BY <1>5 DEF AdmitChild, SetPc, regVars, auditVars, workVars, procVars, cancelVars
<1>6. ASSUME NEW r \in Requests, Abandon(r) PROVE AuditedInv'
  BY <1>6 DEF Abandon, SetPc, regVars, auditVars, workVars, procVars, cancelVars
<1>7. ASSUME NEW o \in Ops, ProcessExit(o) PROVE AuditedInv'
  BY <1>7 DEF ProcessExit, regVars, auditVars, workVars, procVars, cancelVars
<1>8. ASSUME NEW t \in Clients, Shutdown(t) PROVE AuditedInv'
  BY <1>8 DEF Shutdown, Continue, regVars, auditVars, workVars, procVars, cancelVars
<1>9. ASSUME NEW t \in Clients, NEW o \in Ops, ClientCancel(t, o) PROVE AuditedInv'
  BY <1>9 DEF ClientCancel, regVars, auditVars, workVars, procVars, cancelVars
<1>10. ASSUME NEW t \in Clients, NEW d \in Detached, NativeCancel(t, d) PROVE AuditedInv'
  BY <1>10 DEF NativeCancel, regVars, auditVars, workVars, procVars, cancelVars
<1>11. ASSUME NEW r \in Requests, WrapperStep(r) PROVE AuditedInv'
  BY <1>11 DEF WrapperStep, Enqueue, SetPc, Dispatch, SetStarted, CheckFinished, SetRunning,
     regVars, auditVars, workVars, procVars, cancelVars
<1>12. ASSUME NEW r \in Requests, CoroStep(r) PROVE AuditedInv'
  <2>1. CASE Resume(r)
    BY <2>1 DEF Resume, regVars, auditVars, workVars, procVars, cancelVars
  <2>2. CASE CheckStarted(r)
    BY <2>2 DEF CheckStarted, Started, regVars, auditVars, workVars, procVars, cancelVars
  <2>3. CASE CoroSetEvent(r)
    BY <2>3 DEF CoroSetEvent, regVars, auditVars, workVars, procVars, cancelVars
  <2>4. CASE CoroFinish(r)
    BY <2>4 DEF CoroFinish, FinishEnter, regVars, auditVars, workVars, procVars, cancelVars
  <2>5. CASE CoroAudit(r)
    BY <2>5 DEF CoroAudit, regVars, auditVars, workVars, procVars, cancelVars
  <2>6. CASE CoroPublish(r)
    BY <2>6 DEF CoroPublish, FinishPublish, regVars, auditVars, workVars, procVars, cancelVars
  <2>7. CASE Join(r)
    BY <2>7 DEF Join, regVars, auditVars, workVars, procVars, cancelVars
  <2>. QED
    BY <1>12, <2>1, <2>2, <2>3, <2>4, <2>5, <2>6, <2>7 DEF CoroStep
<1>13. ASSUME NEW o \in Ops, BodyStep(o) PROVE AuditedInv'
  <2>1. CASE Gate(o)
    <3>1. UNCHANGED <<auditReq, cpc, cop>> /\ event' \in {event, [event EXCEPT ![o] = TRUE]}
      BY <2>1 DEF Gate, Stop, regVars, auditVars, cancelVars
    <3>2. \A p \in Ops : event[p] => event'[p]
      BY <3>1
    <3>3. \A t \in Threads : Asking(t) => cop[t] \in Ops
      OBVIOUS
    <3>. HIDE DEF TypeInv, LocalsReady, TypeOK
    <3>. QED
      BY <3>1, <3>2, <3>3
  <2>2. CASE StartProcess(o)
    BY <2>2 DEF StartProcess, SetPc, InBody, regVars, auditVars, workVars, procVars, cancelVars
  <2>3. CASE Popen(o)
    BY <2>3 DEF Popen, SetPc, regVars, auditVars, workVars, procVars, cancelVars
  <2>4. CASE AddCancel(o)
    BY <2>4 DEF AddCancel, SetPc, regVars, auditVars, workVars, procVars, cancelVars
  <2>5. CASE CallReturns(o)
    BY <2>5 DEF CallReturns, SetPc, regVars, auditVars, workVars, procVars, cancelVars
  <2>6. CASE Reap(o)
    BY <2>6 DEF Reap, SetPc, regVars, auditVars, workVars, procVars, cancelVars
  <2>7. CASE Return(o)
    BY <2>7 DEF Return, SetPc, regVars, auditVars, workVars, procVars, cancelVars
  <2>8. CASE StopBody(o)
    BY <2>8 DEF StopBody, Stop, SetPc, InBody, regVars, auditVars, workVars, procVars, cancelVars
  <2>. QED
    BY <1>13, <2>1, <2>2, <2>3, <2>4, <2>5, <2>6, <2>7, <2>8 DEF BodyStep
<1>14. ASSUME NEW o \in Ops, EndStep(o) PROVE AuditedInv'
  BY <1>14 DEF EndStep, Decide, SetPc, WorkerFinish, FinishEnter, WorkerAudit, WorkerPublish,
     FinishPublish, regVars, auditVars, workVars, procVars, cancelVars
<1>15. ASSUME NEW o \in Ops, CallbackStep(o) PROVE AuditedInv'
  BY <1>15 DEF CallbackStep, CallbackPoll, CallbackAck, CallbackKill, regVars, auditVars,
     workVars, procVars, cancelVars
<1>16. ASSUME NEW t \in Threads, CancelStep(t) PROVE AuditedInv'
  <2>1. ASSUME NEW o \in Ops, CancelLocked(t, o) PROVE AuditedInv'
    <3>1. CASE Accepts(o) /\ ~event[o]
      <4>1. /\ cpc[t] = "cancel" /\ ~event[o] /\ event' = [event EXCEPT ![o] = TRUE] /\ cop' = [cop EXCEPT ![t] = o]
            /\ cpc' = [cpc EXCEPT ![t] = "audit"] /\ ccb' = [ccb EXCEPT ![t] = callbacks[o]]
            /\ UNCHANGED <<finishing, callbacks, auditReq, pc, proc, cb, invoked, coro>>
        BY <2>1, <3>1, LockedEffect
      <4>. QED
        BY <3>1, <4>1
    <3>2. CASE ~(Accepts(o) /\ ~event[o])
      <4>1. /\ cpc[t] = "cancel"
            /\ \E x \in {"idle", "cancel"} : cpc' = [cpc EXCEPT ![t] = x]
            /\ UNCHANGED <<event, cop, ccb, finishing, callbacks, auditReq, pc, proc, cb, invoked, coro>>
        BY <2>1, <3>2, LockedEffect
      <4>. QED
        BY <4>1
    <3>. QED
      BY <3>1, <3>2
  <2>2. CASE CancelAudit(t)
    BY <2>2 DEF CancelAudit, regVars, auditVars, workVars, procVars, cancelVars
  <2>3. CASE CancelSpawn(t)
    BY <2>3 DEF CancelSpawn, Continue, regVars, auditVars, workVars, procVars, cancelVars
  <2>. QED
    BY <1>16, <2>1, <2>2, <2>3 DEF CancelStep
<1>17. ASSUME NEW t \in Clients, NativeStep(t) PROVE AuditedInv'
  <2>1. CASE NoteCancel(t)
    <3>0. cop[t] \in Ops /\ t \in Threads
      BY <2>1 DEF NoteCancel
    <3>1. CASE NoteTarget(cop[t])
      <4>1. /\ cpc[t] = "note" /\ ~event[cop[t]]
            /\ event' = [event EXCEPT ![cop[t]] = TRUE]
            /\ cpc' = [cpc EXCEPT ![t] = "note_audit"]
            /\ UNCHANGED <<finishing, callbacks, auditReq, pc, proc, cb, invoked, coro, cop, ccb>>
        BY <2>1, <3>1 DEF NoteCancel, NoteTarget, workVars, procVars, auditVars
      <4>. QED
        BY <3>0, <4>1
    <3>2. CASE ~NoteTarget(cop[t])
      BY <2>1, <3>0, <3>2 DEF NoteCancel, regVars, auditVars, workVars, procVars, cancelVars
    <3>. QED
      BY <3>1, <3>2
  <2>2. CASE NoteAudit(t)
    BY <2>2 DEF NoteAudit, regVars, auditVars, workVars, procVars, cancelVars
  <2>3. CASE NativeKill(t)
    BY <2>3 DEF NativeKill, regVars, auditVars, workVars, procVars, cancelVars
  <2>. QED
    BY <1>17, <2>1, <2>2, <2>3 DEF NativeStep
<1>18. CASE UNCHANGED vars
  BY <1>18 DEF vars, regVars, auditVars, workVars, procVars, cancelVars
<1>. QED
  BY <1>1, <1>2, <1>3, <1>4, <1>5, <1>6, <1>7, <1>8, <1>9, <1>10, <1>11, <1>12, <1>13, <1>14,
     <1>15, <1>16, <1>17, <1>18 DEF Next, Environment, ChildStart

-----------------------------------------------------------------------------
(* A cancel callback is called once.                                         *)

\* The worker of o has not registered its cancel callback yet, and there is none of it anywhere.
Unarmed(o) == proc[o] = "none" \/ pc[o] = "spawned"

CallbackOK(o) ==
    /\ pc[o] \in PreStart \cup {"entered", "live", "skipped", "gate", "starting"} => proc[o] = "none"
    /\ pc[o] \in {"spawned", "calling", "waiting"} => proc[o] # "none"
    /\ Unarmed(o) => ~callbacks[o] /\ invoked[o] = 0 /\ cb[o] = "idle"
    /\ invoked[o] <= 1
    /\ ~event[o] => invoked[o] = 0

\* A thread that holds a captured callback is the only one, and nobody has called it yet.
HolderOK(t) ==
    /\ ccb[t] => /\ cpc[t] \in {"audit", "spawn"} /\ event[cop[t]]
                 /\ invoked[cop[t]] = 0 /\ ~Unarmed(cop[t])
    /\ cpc[t] \in {"note", "note_audit", "kill"} => cop[t] \in Detached /\ proc[cop[t]] # "none"

CallbackInv ==
    /\ \A o \in Ops : CallbackOK(o)
    /\ \A t \in Threads : HolderOK(t)
    /\ \A t, u \in Threads : ccb[t] /\ ccb[u] /\ cop[t] = cop[u] => t = u
    /\ \A r \in Requests : coro[r] \in {"none", "awaiting"} => cpc[r] = "idle"

\* Every step keeps the captured callbacks apart.
LEMMA CallbackKeeps == TypeInv /\ RecordInv /\ CallbackInv /\ [Next]_vars => CallbackInv'
<1>. SUFFICES ASSUME TypeInv, RecordInv, CallbackInv, [Next]_vars PROVE CallbackInv'
  OBVIOUS
<1>. USE Kinds, OpsAssumption DEF TypeInv, LocalsReady, TypeOK, CallbackInv, CallbackOK, HolderOK,
       Unarmed, PreStart
<1>1. ASSUME NEW k \in 0..clock, Inspect(k) PROVE CallbackInv'
  BY <1>1 DEF Inspect, regVars, auditVars, workVars, procVars, cancelVars
<1>2. ASSUME NEW r \in Requests, NEW k \in 0..clock, StartRequest(r, k) PROVE CallbackInv'
  BY <1>2 DEF StartRequest, Start, SetPc, regVars, auditVars, workVars, procVars, cancelVars
<1>3. ASSUME NEW d \in Detached, NEW k \in 0..clock, StartDetached(d, k) PROVE CallbackInv'
  BY <1>3 DEF StartDetached, Start, SetPc, regVars, auditVars, workVars, procVars, cancelVars
<1>4. ASSUME NEW c \in Children, NEW k \in 0..clock, StartChild(c, k) PROVE CallbackInv'
  BY <1>4 DEF StartChild, Start, SetPc, regVars, auditVars, workVars, procVars, cancelVars
<1>5. ASSUME NEW c \in Children, AdmitChild(c) PROVE CallbackInv'
  BY <1>5 DEF AdmitChild, SetPc, regVars, auditVars, workVars, procVars, cancelVars
<1>6. ASSUME NEW r \in Requests, Abandon(r) PROVE CallbackInv'
  BY <1>6 DEF Abandon, SetPc, regVars, auditVars, workVars, procVars, cancelVars
<1>7. ASSUME NEW o \in Ops, ProcessExit(o) PROVE CallbackInv'
  BY <1>7 DEF ProcessExit, regVars, auditVars, workVars, procVars, cancelVars
<1>8. ASSUME NEW t \in Clients, Shutdown(t) PROVE CallbackInv'
  BY <1>8 DEF Shutdown, Continue, regVars, auditVars, workVars, procVars, cancelVars
<1>9. ASSUME NEW t \in Clients, NEW o \in Ops, ClientCancel(t, o) PROVE CallbackInv'
  BY <1>9 DEF ClientCancel, regVars, auditVars, workVars, procVars, cancelVars
<1>10. ASSUME NEW t \in Clients, NEW d \in Detached, NativeCancel(t, d) PROVE CallbackInv'
  BY <1>10 DEF NativeCancel, regVars, auditVars, workVars, procVars, cancelVars
<1>11. ASSUME NEW r \in Requests, WrapperStep(r) PROVE CallbackInv'
  <2>1. CASE Enqueue(r)
    BY <2>1 DEF Enqueue, SetPc, RecordInv, RecordOK, regVars, auditVars, workVars, procVars,
       cancelVars
  <2>2. CASE Dispatch(r)
    BY <2>2 DEF Dispatch, SetPc, regVars, auditVars, workVars, procVars, cancelVars
  <2>3. CASE SetStarted(r)
    BY <2>3 DEF SetStarted, SetPc, regVars, auditVars, workVars, procVars, cancelVars
  <2>4. CASE CheckFinished(r)
    BY <2>4 DEF CheckFinished, SetPc, regVars, auditVars, workVars, procVars, cancelVars
  <2>5. CASE SetRunning(r)
    BY <2>5 DEF SetRunning, SetPc, regVars, auditVars, workVars, procVars, cancelVars
  <2>. QED
    BY <1>11, <2>1, <2>2, <2>3, <2>4, <2>5 DEF WrapperStep
<1>12. ASSUME NEW r \in Requests, CoroStep(r) PROVE CallbackInv'
  <2>1. CASE Resume(r)
    BY <2>1 DEF Resume, regVars, auditVars, workVars, procVars, cancelVars
  <2>2. CASE CheckStarted(r)
    BY <2>2 DEF CheckStarted, Started, regVars, auditVars, workVars, procVars, cancelVars
  <2>3. CASE CoroSetEvent(r)
    BY <2>3 DEF CoroSetEvent, regVars, auditVars, workVars, procVars, cancelVars
  <2>4. CASE CoroFinish(r)
    BY <2>4 DEF CoroFinish, FinishEnter, regVars, auditVars, workVars, procVars, cancelVars
  <2>5. CASE CoroAudit(r)
    BY <2>5 DEF CoroAudit, regVars, auditVars, workVars, procVars, cancelVars
  <2>6. CASE CoroPublish(r)
    BY <2>6 DEF CoroPublish, FinishPublish, regVars, auditVars, workVars, procVars, cancelVars
  <2>7. CASE Join(r)
    BY <2>7 DEF Join, regVars, auditVars, workVars, procVars, cancelVars
  <2>. QED
    BY <1>12, <2>1, <2>2, <2>3, <2>4, <2>5, <2>6, <2>7 DEF CoroStep
<1>13. ASSUME NEW o \in Ops, BodyStep(o) PROVE CallbackInv'
  <2>1. CASE Gate(o)
    BY <2>1 DEF Gate, Stop, SetPc, regVars, auditVars, workVars, procVars, cancelVars
  <2>2. CASE StartProcess(o)
    BY <2>2 DEF StartProcess, SetPc, InBody, regVars, auditVars, workVars, procVars, cancelVars
  <2>3. CASE Popen(o)
    BY <2>3 DEF Popen, SetPc, regVars, auditVars, workVars, procVars, cancelVars
  <2>4. CASE AddCancel(o)
    BY <2>4 DEF AddCancel, SetPc, regVars, auditVars, workVars, procVars, cancelVars
  <2>5. CASE CallReturns(o)
    BY <2>5 DEF CallReturns, SetPc, regVars, auditVars, workVars, procVars, cancelVars
  <2>6. CASE Reap(o)
    BY <2>6 DEF Reap, SetPc, regVars, auditVars, workVars, procVars, cancelVars
  <2>7. CASE Return(o)
    BY <2>7 DEF Return, SetPc, regVars, auditVars, workVars, procVars, cancelVars
  <2>8. CASE StopBody(o)
    BY <2>8 DEF StopBody, Stop, SetPc, InBody, regVars, auditVars, workVars, procVars, cancelVars
  <2>. QED
    BY <1>13, <2>1, <2>2, <2>3, <2>4, <2>5, <2>6, <2>7, <2>8 DEF BodyStep
<1>14. ASSUME NEW o \in Ops, EndStep(o) PROVE CallbackInv'
  BY <1>14 DEF EndStep, Decide, SetPc, WorkerFinish, FinishEnter, WorkerAudit, WorkerPublish,
     FinishPublish, regVars, auditVars, workVars, procVars, cancelVars
<1>15. ASSUME NEW o \in Ops, CallbackStep(o) PROVE CallbackInv'
  <2>1. CASE CallbackPoll(o)
    BY <2>1 DEF CallbackPoll, regVars, auditVars, workVars, procVars, cancelVars
  <2>2. CASE CallbackKill(o)
    BY <2>2 DEF CallbackKill, regVars, auditVars, workVars, procVars, cancelVars
  <2>3. CASE CallbackAck(o)
    BY <2>3 DEF CallbackAck, regVars, auditVars, workVars, procVars, cancelVars
  <2>. QED
    BY <1>15, <2>1, <2>2, <2>3 DEF CallbackStep
<1>16. ASSUME NEW t \in Threads, CancelStep(t) PROVE CallbackInv'
  <2>1. ASSUME NEW o \in Ops, CancelLocked(t, o) PROVE CallbackInv'
    <3>1. CASE Accepts(o) /\ ~event[o]
      <4>1. /\ cpc[t] = "cancel" /\ ~event[o] /\ event' = [event EXCEPT ![o] = TRUE] /\ cop' = [cop EXCEPT ![t] = o]
            /\ cpc' = [cpc EXCEPT ![t] = "audit"] /\ ccb' = [ccb EXCEPT ![t] = callbacks[o]]
            /\ UNCHANGED <<finishing, callbacks, auditReq, pc, proc, cb, invoked, coro>>
        BY <2>1, <3>1, LockedEffect
      <4>. QED
        BY <3>1, <4>1
    <3>2. CASE ~(Accepts(o) /\ ~event[o])
      <4>1. /\ cpc[t] = "cancel"
            /\ \E x \in {"idle", "cancel"} : cpc' = [cpc EXCEPT ![t] = x]
            /\ UNCHANGED <<event, cop, ccb, finishing, callbacks, auditReq, pc, proc, cb, invoked, coro>>
        BY <2>1, <3>2, LockedEffect
      <4>. QED
        BY <4>1
    <3>. QED
      BY <3>1, <3>2
  <2>2. CASE CancelAudit(t)
    BY <2>2 DEF CancelAudit, regVars, auditVars, workVars, procVars, cancelVars
  <2>3. CASE CancelSpawn(t)
    BY <2>3 DEF CancelSpawn, Continue, regVars, auditVars, workVars, procVars, cancelVars
  <2>. QED
    BY <1>16, <2>1, <2>2, <2>3 DEF CancelStep
<1>17. ASSUME NEW t \in Clients, NativeStep(t) PROVE CallbackInv'
  <2>1. CASE NoteCancel(t)
    <3>0. cop[t] \in Ops /\ t \in Threads
      BY <2>1 DEF NoteCancel
    <3>1. CASE NoteTarget(cop[t])
      <4>1. /\ cpc[t] = "note" /\ ~event[cop[t]]
            /\ event' = [event EXCEPT ![cop[t]] = TRUE]
            /\ cpc' = [cpc EXCEPT ![t] = "note_audit"]
            /\ UNCHANGED <<finishing, callbacks, auditReq, pc, proc, cb, invoked, coro, cop, ccb>>
        BY <2>1, <3>1 DEF NoteCancel, NoteTarget, workVars, procVars, auditVars
      <4>. QED
        BY <3>0, <4>1
    <3>2. CASE ~NoteTarget(cop[t])
      BY <2>1, <3>0, <3>2 DEF NoteCancel, regVars, auditVars, workVars, procVars, cancelVars
    <3>. QED
      BY <3>1, <3>2
  <2>2. CASE NoteAudit(t)
    BY <2>2 DEF NoteAudit, regVars, auditVars, workVars, procVars, cancelVars
  <2>3. CASE NativeKill(t)
    BY <2>3 DEF NativeKill, regVars, auditVars, workVars, procVars, cancelVars
  <2>. QED
    BY <1>17, <2>1, <2>2, <2>3 DEF NativeStep
<1>18. CASE UNCHANGED vars
  BY <1>18 DEF vars, regVars, auditVars, workVars, procVars, cancelVars
<1>. QED
  BY <1>1, <1>2, <1>3, <1>4, <1>5, <1>6, <1>7, <1>8, <1>9, <1>10, <1>11, <1>12, <1>13, <1>14,
     <1>15, <1>16, <1>17, <1>18 DEF Next, Environment, ChildStart

-----------------------------------------------------------------------------
(* No cancellation is lost.                                                  *)

\* A callback that has ended has killed the process of its tool or found it gone, and as long as
\* a cancellable tool waits for its process, its callback is registered.
KillOK(o) ==
    /\ o \notin Detached => (cb[o] = "done" => proc[o] # "alive") /\ cb[o] # "failed"
    /\ o \in Cancellable \ Detached => (pc[o] \in {"calling", "waiting"} => callbacks[o])

KillInv == (\A o \in Ops : KillOK(o)) /\ NoLostCancel

\* Whoever sets the event of a tool that waits for its process holds its callback.
LEMMA KillKeeps == TypeInv /\ RecordInv /\ StopInv /\ CallbackInv /\ KillInv /\ [Next]_vars => KillInv'
<1>. SUFFICES ASSUME TypeInv, RecordInv, StopInv, CallbackInv, KillInv, [Next]_vars PROVE KillInv'
  OBVIOUS
<1>. USE Kinds, OpsAssumption DEF TypeInv, LocalsReady, TypeOK, StopInv, LifeInv, LifeOK,
       AbandonInv, AbandonOK, Unstarted, Harmless, CallbackInv, CallbackOK, HolderOK, Unarmed,
       PreStart, KillInv, KillOK, NoLostCancel, KillUnderWay, Cancellable
<1>1. ASSUME NEW k \in 0..clock, Inspect(k) PROVE KillInv'
  BY <1>1 DEF Inspect, regVars, auditVars, workVars, procVars, cancelVars
<1>2. ASSUME NEW r \in Requests, NEW k \in 0..clock, StartRequest(r, k) PROVE KillInv'
  BY <1>2 DEF StartRequest, Start, SetPc, regVars, auditVars, workVars, procVars, cancelVars
<1>3. ASSUME NEW d \in Detached, NEW k \in 0..clock, StartDetached(d, k) PROVE KillInv'
  BY <1>3 DEF StartDetached, Start, SetPc, regVars, auditVars, workVars, procVars, cancelVars
<1>4. ASSUME NEW c \in Children, NEW k \in 0..clock, StartChild(c, k) PROVE KillInv'
  BY <1>4 DEF StartChild, Start, SetPc, regVars, auditVars, workVars, procVars, cancelVars
<1>5. ASSUME NEW c \in Children, AdmitChild(c) PROVE KillInv'
  BY <1>5 DEF AdmitChild, SetPc, regVars, auditVars, workVars, procVars, cancelVars
<1>6. ASSUME NEW r \in Requests, Abandon(r) PROVE KillInv'
  BY <1>6 DEF Abandon, SetPc, regVars, auditVars, workVars, procVars, cancelVars
<1>7. ASSUME NEW o \in Ops, ProcessExit(o) PROVE KillInv'
  BY <1>7 DEF ProcessExit, regVars, auditVars, workVars, procVars, cancelVars
<1>8. ASSUME NEW t \in Clients, Shutdown(t) PROVE KillInv'
  BY <1>8 DEF Shutdown, Continue, regVars, auditVars, workVars, procVars, cancelVars
<1>9. ASSUME NEW t \in Clients, NEW o \in Ops, ClientCancel(t, o) PROVE KillInv'
  BY <1>9 DEF ClientCancel, regVars, auditVars, workVars, procVars, cancelVars
<1>10. ASSUME NEW t \in Clients, NEW d \in Detached, NativeCancel(t, d) PROVE KillInv'
  BY <1>10 DEF NativeCancel, regVars, auditVars, workVars, procVars, cancelVars
<1>11. ASSUME NEW r \in Requests, WrapperStep(r) PROVE KillInv'
  <2>1. CASE Enqueue(r)
    BY <2>1 DEF Enqueue, SetPc, regVars, auditVars, workVars, procVars, cancelVars
  <2>2. CASE Dispatch(r)
    BY <2>2 DEF Dispatch, SetPc, regVars, auditVars, workVars, procVars, cancelVars
  <2>3. CASE SetStarted(r)
    BY <2>3 DEF SetStarted, SetPc, regVars, auditVars, workVars, procVars, cancelVars
  <2>4. CASE CheckFinished(r)
    BY <2>4 DEF CheckFinished, SetPc, regVars, auditVars, workVars, procVars, cancelVars
  <2>5. CASE SetRunning(r)
    BY <2>5 DEF SetRunning, SetPc, regVars, auditVars, workVars, procVars, cancelVars
  <2>. QED
    BY <1>11, <2>1, <2>2, <2>3, <2>4, <2>5 DEF WrapperStep
<1>12. ASSUME NEW r \in Requests, CoroStep(r) PROVE KillInv'
  <2>1. CASE CoroSetEvent(r)
    BY <2>1 DEF CoroSetEvent, regVars, auditVars, workVars, procVars, cancelVars
  <2>2. CASE CoroFinish(r)
    <3>1. CASE FinishClosed(r)
      BY <2>2, <3>1 DEF CoroFinish, regVars, workVars, procVars, cancelVars
    <3>2. CASE ~FinishClosed(r)
      <4>1. /\ coro[r] = "finish" /\ callbacks' = [callbacks EXCEPT ![r] = FALSE]
            /\ UNCHANGED <<event, pc, proc, cb, invoked, cop, cpc, ccb>>
        BY <2>2, <3>2 DEF CoroFinish, FinishEnter, workVars, procVars, cancelVars
      <4>2. r \in Cancellable => pc[r] \notin {"calling", "waiting"}
        BY <4>1
      <4>. QED
        BY <4>1, <4>2
    <3>. QED
      BY <3>1, <3>2
  <2>3. CASE Resume(r) \/ CheckStarted(r) \/ CoroAudit(r) \/ CoroPublish(r) \/ Join(r)
    BY <2>3 DEF Resume, CheckStarted, Started, CoroAudit, CoroPublish, FinishPublish, Join,
       regVars, auditVars, workVars, procVars, cancelVars
  <2>. QED
    BY <1>12, <2>1, <2>2, <2>3 DEF CoroStep
<1>13. ASSUME NEW o \in Ops, BodyStep(o) PROVE KillInv'
  <2>1. CASE Gate(o)
    <3>1. CASE Stop(o)
      BY <3>1 DEF Stop, SetPc, procVars, cancelVars
    <3>2. CASE ~Stop(o)
      <4>1. /\ \E x \in {"starting", "body"} : pc' = [pc EXCEPT ![o] = x]
            /\ UNCHANGED <<event, callbacks, proc, cb, invoked, cop, cpc, ccb, coro>>
        BY <2>1, <3>2 DEF Gate, SetPc, regVars, procVars, cancelVars
      <4>. QED
        BY <4>1
    <3>. QED
      BY <3>1, <3>2
  <2>2. CASE StartProcess(o)
    BY <2>2 DEF StartProcess, SetPc, InBody, regVars, auditVars, workVars, procVars, cancelVars
  <2>3. CASE Popen(o)
    <3>1. pc[o] = "starting" /\ UNCHANGED <<event, callbacks, cb, invoked, cop, cpc, ccb, coro>>
      BY <2>3 DEF Popen, regVars, cancelVars
    <3>2. \/ pc' = [pc EXCEPT ![o] = "spawned"] /\ proc' = [proc EXCEPT ![o] = "alive"]
          \/ pc' = [pc EXCEPT ![o] = "returned"] /\ UNCHANGED proc
      BY <2>3 DEF Popen, SetPc
    <3>3. proc[o] = "none" /\ cb[o] = "idle"
      BY <3>1
    <3>. QED
      BY SMTT(30), <3>1, <3>2, <3>3
  <2>4. CASE AddCancel(o)
    BY <2>4 DEF AddCancel, SetPc, regVars, auditVars, workVars, procVars, cancelVars
  <2>5. CASE CallReturns(o)
    BY <2>5 DEF CallReturns, SetPc, regVars, auditVars, workVars, procVars, cancelVars
  <2>6. CASE Reap(o)
    <3>1. CASE o \in Detached
      BY <2>6, <3>1 DEF Reap, SetPc, regVars, procVars, cancelVars
    <3>2. CASE o \notin Detached
      <4>1. /\ pc' = [pc EXCEPT ![o] = "body"] /\ callbacks' = [callbacks EXCEPT ![o] = FALSE]
            /\ UNCHANGED <<event, proc, cb, invoked, cop, cpc, ccb, coro>>
        BY <2>6, <3>2 DEF Reap, SetPc, procVars, cancelVars
      <4>. QED
        BY <4>1
    <3>. QED
      BY <3>1, <3>2
  <2>7. CASE Return(o)
    BY <2>7 DEF Return, SetPc, regVars, auditVars, workVars, procVars, cancelVars
  <2>8. CASE StopBody(o)
    BY <2>8 DEF StopBody, Stop, SetPc, InBody, regVars, auditVars, workVars, procVars, cancelVars
  <2>. QED
    BY <1>13, <2>1, <2>2, <2>3, <2>4, <2>5, <2>6, <2>7, <2>8 DEF BodyStep
<1>14. ASSUME NEW o \in Ops, EndStep(o) PROVE KillInv'
  BY SMTT(40), <1>14 DEF EndStep, Decide, SetPc, WorkerFinish, FinishEnter, WorkerAudit, WorkerPublish,
     FinishPublish, regVars, auditVars, workVars, procVars, cancelVars
<1>15. ASSUME NEW o \in Ops, CallbackStep(o) PROVE KillInv'
  <2>1. CASE CallbackPoll(o)
    BY <2>1 DEF CallbackPoll, regVars, auditVars, workVars, procVars, cancelVars
  <2>2. CASE CallbackKill(o)
    BY <2>2 DEF CallbackKill, regVars, auditVars, workVars, procVars, cancelVars
  <2>3. CASE CallbackAck(o)
    BY <2>3 DEF CallbackAck, regVars, auditVars, workVars, procVars, cancelVars
  <2>. QED
    BY <1>15, <2>1, <2>2, <2>3 DEF CallbackStep
<1>16. ASSUME NEW t \in Threads, CancelStep(t) PROVE KillInv'
  <2>1. ASSUME NEW o \in Ops, CancelLocked(t, o) PROVE KillInv'
    <3>1. CASE Accepts(o) /\ ~event[o]
      <4>1. /\ cpc[t] = "cancel" /\ ~event[o] /\ event' = [event EXCEPT ![o] = TRUE] /\ cop' = [cop EXCEPT ![t] = o]
            /\ cpc' = [cpc EXCEPT ![t] = "audit"] /\ ccb' = [ccb EXCEPT ![t] = callbacks[o]]
            /\ UNCHANGED <<finishing, callbacks, auditReq, pc, proc, cb, invoked, coro>>
        BY <2>1, <3>1, LockedEffect
      <4>. QED
        BY SMTT(40), <3>1, <4>1 DEF Accepts
    <3>2. CASE ~(Accepts(o) /\ ~event[o])
      <4>1. /\ cpc[t] = "cancel"
            /\ \E x \in {"idle", "cancel"} : cpc' = [cpc EXCEPT ![t] = x]
            /\ UNCHANGED <<event, cop, ccb, finishing, callbacks, auditReq, pc, proc, cb, invoked, coro>>
        BY <2>1, <3>2, LockedEffect
      <4>. QED
        BY <4>1
    <3>. QED
      BY <3>1, <3>2
  <2>2. CASE CancelAudit(t)
    BY <2>2 DEF CancelAudit, regVars, auditVars, workVars, procVars, cancelVars
  <2>3. CASE CancelSpawn(t)
    BY <2>3 DEF CancelSpawn, Continue, regVars, auditVars, workVars, procVars, cancelVars
  <2>. QED
    BY <1>16, <2>1, <2>2, <2>3 DEF CancelStep
<1>17. ASSUME NEW t \in Clients, NativeStep(t) PROVE KillInv'
  <2>1. CASE NoteCancel(t)
    <3>0. cop[t] \in Ops /\ t \in Threads
      BY <2>1 DEF NoteCancel
    <3>1. CASE NoteTarget(cop[t])
      <4>1. /\ cpc[t] = "note" /\ ~event[cop[t]]
            /\ event' = [event EXCEPT ![cop[t]] = TRUE]
            /\ cpc' = [cpc EXCEPT ![t] = "note_audit"]
            /\ UNCHANGED <<finishing, callbacks, auditReq, pc, proc, cb, invoked, coro, cop, ccb>>
        BY <2>1, <3>1 DEF NoteCancel, NoteTarget, workVars, procVars, auditVars
      <4>. QED
        BY <3>0, <4>1
    <3>2. CASE ~NoteTarget(cop[t])
      BY <2>1, <3>0, <3>2 DEF NoteCancel, regVars, auditVars, workVars, procVars, cancelVars
    <3>. QED
      BY <3>1, <3>2
  <2>2. CASE NoteAudit(t)
    BY <2>2 DEF NoteAudit, regVars, auditVars, workVars, procVars, cancelVars
  <2>3. CASE NativeKill(t)
    <3>1. cop[t] \in Detached /\ UNCHANGED <<event, callbacks, pc, cb, invoked, ccb, coro>>
      BY <2>3 DEF NativeKill, regVars, workVars
    <3>2. cpc[t] = "kill" /\ cpc' = [cpc EXCEPT ![t] = "idle"] /\ cop' = [cop EXCEPT ![t] = NoOp]
      BY <2>3 DEF NativeKill
    <3>3. \A o \in Ops \ Detached : proc'[o] = proc[o]
      BY <2>3, <3>1 DEF NativeKill
    <3>4. ~ccb[t]
      BY <3>2
    <3>. QED
      BY <3>1, <3>2, <3>3, <3>4
  <2>. QED
    BY <1>17, <2>1, <2>2, <2>3 DEF NativeStep
<1>18. CASE UNCHANGED vars
  BY <1>18 DEF vars, regVars, auditVars, workVars, procVars, cancelVars
<1>. QED
  BY <1>1, <1>2, <1>3, <1>4, <1>5, <1>6, <1>7, <1>8, <1>9, <1>10, <1>11, <1>12, <1>13, <1>14,
     <1>15, <1>16, <1>17, <1>18 DEF Next, Environment, ChildStart

-----------------------------------------------------------------------------
(* A cancellation that comes too late spoils no success.                     *)

\* A tool that has not begun has no result, and behind a coroutine that gave its worker up it gets
\* none but "stopped"; what the worker settled on is the success, unless a callback claimed to have
\* stopped the process.
SuccessOK(r) ==
    /\ pc[r] \in PreStart \cup {"entered", "live", "gate"} => res[r] = "none"
    /\ Unstarted(r) => res[r] \in {"none", "stopped"}
    /\ pc[r] \in {"deciding", "auditing", "publishing"} /\ res[r] = "ok" /\ ~acked[r] =>
          verdict[r] = "completed"

SuccessInv == (\A r \in Requests \cap Cancellable : SuccessOK(r)) /\ LateCancelKeepsSuccess

\* The verdict is settled before the record is finished, and stays.
LEMMA SuccessKeeps == TypeInv /\ RecordInv /\ StopInv /\ SuccessInv /\ [Next]_vars => SuccessInv'
<1>. SUFFICES ASSUME TypeInv, RecordInv, StopInv, SuccessInv, [Next]_vars PROVE SuccessInv'
  OBVIOUS
<1>. USE Kinds, OpsAssumption DEF TypeInv, LocalsReady, TypeOK, RecordInv, RecordOK, Finished,
       WorkerFinishing, CoroFinishing, StopInv, LifeInv, LifeOK, AbandonInv, AbandonOK, Unstarted,
       Harmless, PreStart, SuccessInv, SuccessOK, LateCancelKeepsSuccess, Cancellable
<1>1. ASSUME NEW k \in 0..clock, Inspect(k) PROVE SuccessInv'
  BY <1>1 DEF Inspect, regVars, auditVars, workVars, procVars, cancelVars
<1>2. ASSUME NEW r \in Requests, NEW k \in 0..clock, StartRequest(r, k) PROVE SuccessInv'
  BY <1>2 DEF StartRequest, Start, SetPc, regVars, auditVars, workVars, procVars, cancelVars
<1>3. ASSUME NEW d \in Detached, NEW k \in 0..clock, StartDetached(d, k) PROVE SuccessInv'
  BY <1>3 DEF StartDetached, Start, SetPc, regVars, auditVars, workVars, procVars, cancelVars
<1>4. ASSUME NEW c \in Children, NEW k \in 0..clock, StartChild(c, k) PROVE SuccessInv'
  BY <1>4 DEF StartChild, Start, SetPc, regVars, auditVars, workVars, procVars, cancelVars
<1>5. ASSUME NEW c \in Children, AdmitChild(c) PROVE SuccessInv'
  BY <1>5 DEF AdmitChild, SetPc, regVars, auditVars, workVars, procVars, cancelVars
<1>6. ASSUME NEW r \in Requests, Abandon(r) PROVE SuccessInv'
  BY <1>6 DEF Abandon, SetPc, regVars, auditVars, workVars, procVars, cancelVars
<1>7. ASSUME NEW o \in Ops, ProcessExit(o) PROVE SuccessInv'
  BY <1>7 DEF ProcessExit, regVars, auditVars, workVars, procVars, cancelVars
<1>8. ASSUME NEW t \in Clients, Shutdown(t) PROVE SuccessInv'
  BY <1>8 DEF Shutdown, Continue, regVars, auditVars, workVars, procVars, cancelVars
<1>9. ASSUME NEW t \in Clients, NEW o \in Ops, ClientCancel(t, o) PROVE SuccessInv'
  BY <1>9 DEF ClientCancel, regVars, auditVars, workVars, procVars, cancelVars
<1>10. ASSUME NEW t \in Clients, NEW d \in Detached, NativeCancel(t, d) PROVE SuccessInv'
  BY <1>10 DEF NativeCancel, regVars, auditVars, workVars, procVars, cancelVars
<1>11. ASSUME NEW r \in Requests, WrapperStep(r) PROVE SuccessInv'
  BY <1>11 DEF WrapperStep, Enqueue, SetPc, Dispatch, SetStarted, CheckFinished, SetRunning,
     regVars, auditVars, workVars, procVars, cancelVars
<1>12. ASSUME NEW r \in Requests, CoroStep(r) PROVE SuccessInv'
  <2>1. CASE CheckStarted(r)
    BY <2>1 DEF CheckStarted, Started, regVars, auditVars, workVars, procVars, cancelVars
  <2>2. CASE CoroSetEvent(r)
    BY <2>2 DEF CoroSetEvent, regVars, auditVars, workVars, procVars, cancelVars
  <2>3. CASE CoroFinish(r)
    BY <2>3 DEF CoroFinish, FinishEnter, FinishClosed, regVars, auditVars, workVars, procVars,
       cancelVars
  <2>4. CASE CoroAudit(r)
    BY <2>4 DEF CoroAudit, regVars, auditVars, workVars, procVars, cancelVars
  <2>5. CASE CoroPublish(r)
    BY <2>5 DEF CoroPublish, FinishPublish, regVars, auditVars, workVars, procVars, cancelVars
  <2>6. CASE Resume(r) \/ Join(r)
    BY <2>6 DEF Resume, Join, regVars, auditVars, workVars, procVars, cancelVars
  <2>. QED
    BY <1>12, <2>1, <2>2, <2>3, <2>4, <2>5, <2>6 DEF CoroStep
<1>13. ASSUME NEW o \in Ops, BodyStep(o) PROVE SuccessInv'
  <2>1. CASE Gate(o)
    BY <2>1 DEF Gate, Stop, SetPc, CancelSeen, regVars, auditVars, workVars, procVars, cancelVars
  <2>2. CASE StartProcess(o)
    BY <2>2 DEF StartProcess, SetPc, InBody, regVars, auditVars, workVars, procVars, cancelVars
  <2>3. CASE Popen(o)
    BY SMTT(60), <2>3 DEF Popen, SetPc, regVars, auditVars, workVars, procVars, cancelVars
  <2>4. CASE AddCancel(o)
    BY <2>4 DEF AddCancel, SetPc, regVars, auditVars, workVars, procVars, cancelVars
  <2>5. CASE CallReturns(o)
    BY <2>5 DEF CallReturns, SetPc, regVars, auditVars, workVars, procVars, cancelVars
  <2>6. CASE Reap(o)
    BY <2>6 DEF Reap, SetPc, regVars, auditVars, workVars, procVars, cancelVars
  <2>7. CASE Return(o)
    BY <2>7 DEF Return, SetPc, regVars, auditVars, workVars, procVars, cancelVars
  <2>8. CASE StopBody(o)
    BY <2>8 DEF StopBody, Stop, SetPc, InBody, regVars, auditVars, workVars, procVars, cancelVars
  <2>. QED
    BY <1>13, <2>1, <2>2, <2>3, <2>4, <2>5, <2>6, <2>7, <2>8 DEF BodyStep
<1>14. ASSUME NEW o \in Ops, EndStep(o) PROVE SuccessInv'
  <2>1. CASE Decide(o)
    BY <2>1 DEF Decide, SetPc, Verdicts, RequestVerdict, regVars, auditVars, workVars, procVars,
       cancelVars
  <2>2. CASE WorkerFinish(o)
    BY <2>2 DEF WorkerFinish, FinishEnter, SetPc, FinishClosed, regVars, auditVars, workVars,
       procVars, cancelVars
  <2>3. CASE WorkerAudit(o)
    BY <2>3 DEF WorkerAudit, SetPc, regVars, auditVars, workVars, procVars, cancelVars
  <2>4. CASE WorkerPublish(o)
    BY <2>4 DEF WorkerPublish, FinishPublish, SetPc, regVars, auditVars, workVars, procVars,
       cancelVars
  <2>. QED
    BY <1>14, <2>1, <2>2, <2>3, <2>4 DEF EndStep
<1>15. ASSUME NEW o \in Ops, CallbackStep(o) PROVE SuccessInv'
  <2>1. CASE CallbackPoll(o)
    BY <2>1 DEF CallbackPoll, regVars, auditVars, workVars, procVars, cancelVars
  <2>2. CASE CallbackAck(o)
    BY <2>2 DEF CallbackAck, regVars, auditVars, workVars, procVars, cancelVars
  <2>3. CASE CallbackKill(o)
    BY <2>3 DEF CallbackKill, regVars, auditVars, workVars, procVars, cancelVars
  <2>. QED
    BY <1>15, <2>1, <2>2, <2>3 DEF CallbackStep
<1>16. ASSUME NEW t \in Threads, CancelStep(t) PROVE SuccessInv'
  <2>1. ASSUME NEW o \in Ops, CancelLocked(t, o) PROVE SuccessInv'
    BY SMTT(40), <2>1, LockedEffect DEF Accepts
  <2>2. CASE CancelAudit(t) \/ CancelSpawn(t)
    BY <2>2 DEF CancelAudit, CancelSpawn, Continue, regVars, auditVars, workVars, procVars,
       cancelVars
  <2>. QED
    BY <1>16, <2>1, <2>2 DEF CancelStep
<1>17. ASSUME NEW t \in Clients, NativeStep(t) PROVE SuccessInv'
  <2>1. CASE NoteCancel(t)
    BY <2>1 DEF NoteCancel, NoteTarget, regVars, auditVars, workVars, procVars, cancelVars
  <2>2. CASE NoteAudit(t) \/ NativeKill(t)
    BY <2>2 DEF NoteAudit, NativeKill, regVars, auditVars, workVars, procVars, cancelVars
  <2>. QED
    BY <1>17, <2>1, <2>2 DEF NativeStep
<1>18. CASE UNCHANGED vars
  BY <1>18 DEF vars, regVars, auditVars, workVars, procVars, cancelVars
<1>. QED
  BY <1>1, <1>2, <1>3, <1>4, <1>5, <1>6, <1>7, <1>8, <1>9, <1>10, <1>11, <1>12, <1>13, <1>14,
     <1>15, <1>16, <1>17, <1>18 DEF Next, Environment, ChildStart

-----------------------------------------------------------------------------
(* What a cancellation promises.                                             *)

\* A request, or a call of a batch, that is cancelled, by however many clients and however late, has
\* its process killed once, and surely; the audit log has the cancellation once; and a tool that
\* had succeeded before is recorded as completed.
THEOREM CancellationsKeepTheirPromise == Spec => []CancellationsHold
<1>1. Init => AuditedInv /\ CallbackInv
  BY Kinds DEF Init, AuditedInv, Asking, CallbackInv, CallbackOK, HolderOK, PreStart
<1>2. Init => KillInv /\ SuccessInv
  BY Kinds DEF Init, KillInv, KillOK, NoLostCancel, SuccessInv, SuccessOK, LateCancelKeepsSuccess,
     Unstarted, Finished, PreStart
<1>3. AuditedInv /\ CallbackInv /\ KillInv /\ SuccessInv => CancellationsHold
  BY DEF AuditedInv, CallbackInv, CallbackOK, KillInv, SuccessInv, CancellationsHold, CallbackOnce,
     CancelAuditedOnce
<1>. QED
  BY <1>1, <1>2, <1>3, AuditedStep, CallbackKeeps, KillKeeps, SuccessKeeps, StopInvariant, PTL DEF Spec

-----------------------------------------------------------------------------
(* The history of finished operations.                                       *)

\* The records that finished after o.
Newer(o) == {p \in listed : finishedAt[p] > finishedAt[o]}

\* The clock gives every finished operation a place of its own.
KeptInv ==
    /\ IsFiniteSet(listed)
    /\ \A o \in Ops : finishedAt[o] < clock
    /\ \A o, p \in Ops : Finished(o) /\ finishedAt[o] = finishedAt[p] => o = p
    /\ NewestKept

\* What a prune drops is older than every finished record that it keeps, by its age and by its place.
LEMMA PruneDropsOldest ==
    ASSUME TypeOK, IsFiniteSet(listed), NEW k \in Nat,
           NEW o \in Pruned(k), NEW p \in listed \ Pruned(k), Finished(p)
    PROVE  finishedAt[o] < finishedAt[p]
<1>. USE DEF TypeOK
<1>1. o \in Ops /\ p \in Ops /\ finishedAt[p] > k /\ ~(Cardinality(Newer(p)) >= MaxHistory)
  BY DEF Pruned, Newer
<1>2. CASE finishedAt[o] <= k
  BY <1>1, <1>2
<1>3. CASE Cardinality(Newer(o)) >= MaxHistory
  <2>1. SUFFICES ASSUME ~(finishedAt[o] < finishedAt[p]) PROVE FALSE
    OBVIOUS
  <2>2. Newer(o) \subseteq Newer(p) /\ Newer(p) \subseteq listed
    BY <1>1, <2>1 DEF Newer
  <2>3. IsFiniteSet(Newer(p))
    BY <2>2, FS_Subset
  <2>4. /\ Cardinality(Newer(o)) <= Cardinality(Newer(p))
        /\ Cardinality(Newer(o)) \in Nat /\ Cardinality(Newer(p)) \in Nat
    BY <2>2, <2>3, FS_Subset, FS_CardinalityType
  <2>. QED
    BY <1>1, <1>3, <2>4, HistoryAssumption DEF HistoryAssumption
<1>. QED
  BY <1>2, <1>3 DEF Pruned, Newer

\* A prune, and what is listed after it and not finished, keep the newest.
LEMMA PruneKeeps ==
    ASSUME TypeOK, KeptInv, NEW k \in 0..clock, NEW X \in SUBSET Ops, IsFiniteSet(X),
           \A x \in X : ~Finished(x), listed' = (listed \ Pruned(k)) \cup X,
           UNCHANGED <<finishedAt, clock>>
    PROVE  KeptInv'
<1>. USE DEF TypeOK, KeptInv
<1>1. IsFiniteSet(listed')
  <2>1. IsFiniteSet(listed \ Pruned(k))
    BY FS_Subset
  <2>. QED
    BY <2>1, FS_Union
<1>2. NewestKept'
  <2>. SUFFICES ASSUME NEW o \in Ops, NEW p \in Ops, Finished(o), Finished(p),
                       o \notin listed', p \in listed'
                PROVE  finishedAt[o] < finishedAt[p]
    BY DEF NewestKept, Finished
  <2>1. p \in listed \ Pruned(k)
    OBVIOUS
  <2>2. CASE o \in listed
    BY <2>1, <2>2, PruneDropsOldest
  <2>3. CASE o \notin listed
    BY <2>1, <2>3 DEF NewestKept
  <2>. QED
    BY <2>2, <2>3
<1>. QED
  BY <1>1, <1>2 DEF Finished

\* An operation that is published while it is listed takes the newest place.
LEMMA PublishKeeps ==
    ASSUME TypeOK, KeptInv, NEW o \in Ops, o \in listed,
           finishedAt' = [finishedAt EXCEPT ![o] = clock], clock' = clock + 1, clock > 0,
           UNCHANGED listed
    PROVE  KeptInv'
<1>. USE DEF TypeOK, KeptInv
<1>1. \A p \in Ops : finishedAt'[p] < clock'
  OBVIOUS
<1>2. ASSUME NEW p \in Ops, NEW q \in Ops, finishedAt'[p] # 0, finishedAt'[p] = finishedAt'[q]
      PROVE  p = q
  BY <1>2 DEF Finished
<1>3. NewestKept'
  BY DEF NewestKept, Finished
<1>. QED
  BY <1>1, <1>2, <1>3 DEF Finished

\* Every step keeps the newest of the history.
LEMMA KeptStep == TypeInv /\ RecordInv /\ StopInv /\ KeptInv /\ [Next]_vars => KeptInv'
<1>. SUFFICES ASSUME TypeInv, RecordInv, StopInv, KeptInv, [Next]_vars PROVE KeptInv'
  OBVIOUS
<1>. USE Kinds DEF TypeInv, KeptInv, NewestKept, Finished
<1>1. ASSUME NEW k \in 0..clock, Inspect(k) PROVE KeptInv'
  <2>. DEFINE X == {}
  <2>1. X \in SUBSET Ops /\ IsFiniteSet(X) /\ \A x \in X : ~Finished(x)
    BY FS_EmptySet
  <2>2. listed' = (listed \ Pruned(k)) \cup X /\ UNCHANGED <<finishedAt, clock>>
    BY <1>1 DEF Inspect
  <2>. HIDE DEF X
  <2>. QED
    BY <2>1, <2>2, PruneKeeps
<1>2. ASSUME NEW r \in Requests, NEW k \in 0..clock, StartRequest(r, k) PROVE KeptInv'
  <2>. DEFINE X == {r}
  <2>1. X \in SUBSET Ops /\ IsFiniteSet(X) /\ \A x \in X : ~Finished(x)
    BY <1>2, FS_Singleton DEF StartRequest, RecordInv, RecordOK
  <2>2. listed' = (listed \ Pruned(k)) \cup X /\ UNCHANGED <<finishedAt, clock>>
    BY <1>2 DEF StartRequest, Start
  <2>. HIDE DEF X
  <2>. QED
    BY <2>1, <2>2, PruneKeeps
<1>3. ASSUME NEW d \in Detached, NEW k \in 0..clock, StartDetached(d, k) PROVE KeptInv'
  <2>. DEFINE X == {d}
  <2>1. X \in SUBSET Ops /\ IsFiniteSet(X) /\ \A x \in X : ~Finished(x)
    BY <1>3, FS_Singleton DEF StartDetached, RecordInv, RecordOK
  <2>2. listed' = (listed \ Pruned(k)) \cup X /\ UNCHANGED <<finishedAt, clock>>
    BY <1>3 DEF StartDetached, Start
  <2>. HIDE DEF X
  <2>. QED
    BY <2>1, <2>2, PruneKeeps
<1>4. ASSUME NEW c \in Children, NEW k \in 0..clock, StartChild(c, k) PROVE KeptInv'
  <2>. DEFINE X == {c}
  <2>1. X \in SUBSET Ops /\ IsFiniteSet(X) /\ \A x \in X : ~Finished(x)
    BY <1>4, FS_Singleton DEF StartChild, RecordInv, RecordOK
  <2>2. listed' = (listed \ Pruned(k)) \cup X /\ UNCHANGED <<finishedAt, clock>>
    BY <1>4 DEF StartChild, Start
  <2>. HIDE DEF X
  <2>. QED
    BY <2>1, <2>2, PruneKeeps
<1>5. ASSUME NEW c \in Children, AdmitChild(c) PROVE KeptInv'
  BY <1>5 DEF AdmitChild, SetPc, regVars, auditVars, workVars, procVars, cancelVars
<1>6. ASSUME NEW r \in Requests, Abandon(r) PROVE KeptInv'
  BY <1>6 DEF Abandon, SetPc, regVars, auditVars, workVars, procVars, cancelVars
<1>7. ASSUME NEW o \in Ops, ProcessExit(o) PROVE KeptInv'
  BY <1>7 DEF ProcessExit, regVars, auditVars, workVars, procVars, cancelVars
<1>8. ASSUME NEW t \in Clients, Shutdown(t) PROVE KeptInv'
  BY <1>8 DEF Shutdown, Continue, regVars, auditVars, workVars, procVars, cancelVars
<1>9. ASSUME NEW t \in Clients, NEW o \in Ops, ClientCancel(t, o) PROVE KeptInv'
  BY <1>9 DEF ClientCancel, regVars, auditVars, workVars, procVars, cancelVars
<1>10. ASSUME NEW t \in Clients, NEW d \in Detached, NativeCancel(t, d) PROVE KeptInv'
  BY <1>10 DEF NativeCancel, regVars, auditVars, workVars, procVars, cancelVars
<1>11. ASSUME NEW r \in Requests, WrapperStep(r) PROVE KeptInv'
  BY <1>11 DEF WrapperStep, Enqueue, SetPc, Dispatch, SetStarted, CheckFinished, SetRunning,
     regVars, auditVars, workVars, procVars, cancelVars
<1>12. ASSUME NEW r \in Requests, CoroStep(r) PROVE KeptInv'
  <2>1. CASE CoroPublish(r)
    <3>1. r \in listed
      BY <2>1 DEF CoroPublish, RecordInv, RecordOK, WorkerFinishing, CoroFinishing, StopInv, LifeInv, LifeOK
    <3>. QED
      BY <2>1, <3>1, PublishKeeps DEF CoroPublish, FinishPublish, RecordInv
  <2>2. CASE Resume(r) \/ CheckStarted(r) \/ CoroSetEvent(r) \/ CoroFinish(r) \/ CoroAudit(r) \/ Join(r)
    BY <2>2 DEF Resume, CheckStarted, Started, CoroSetEvent, CoroFinish, FinishEnter, CoroAudit,
       Join, regVars, auditVars, workVars, procVars, cancelVars
  <2>. QED
    BY <1>12, <2>1, <2>2 DEF CoroStep
<1>13. ASSUME NEW o \in Ops, BodyStep(o) PROVE KeptInv'
  BY <1>13 DEF BodyStep, Gate, Stop, SetPc, StartProcess, InBody, Popen, AddCancel, CallReturns,
     Reap, Return, StopBody, regVars, auditVars, workVars, procVars, cancelVars
<1>14. ASSUME NEW o \in Ops, EndStep(o) PROVE KeptInv'
  <2>1. CASE WorkerPublish(o)
    <3>1. o \in listed
      BY <2>1 DEF WorkerPublish, RecordInv, RecordOK, WorkerFinishing, CoroFinishing, StopInv, LifeInv, LifeOK
    <3>. QED
      BY <2>1, <3>1, PublishKeeps DEF WorkerPublish, FinishPublish, RecordInv
  <2>2. CASE Decide(o) \/ WorkerFinish(o) \/ WorkerAudit(o)
    BY <2>2 DEF Decide, SetPc, WorkerFinish, FinishEnter, WorkerAudit, regVars, auditVars,
       workVars, procVars, cancelVars
  <2>. QED
    BY <1>14, <2>1, <2>2 DEF EndStep
<1>15. ASSUME NEW o \in Ops, CallbackStep(o) PROVE KeptInv'
  BY <1>15 DEF CallbackStep, CallbackPoll, CallbackAck, CallbackKill, regVars, auditVars,
     workVars, procVars, cancelVars
<1>16. ASSUME NEW t \in Threads, CancelStep(t) PROVE KeptInv'
  <2>1. ASSUME NEW o \in Ops, CancelLocked(t, o) PROVE KeptInv'
    <3>. QED
      BY <2>1, LockedEffect DEF KeptInv, NewestKept, Finished
  <2>2. CASE CancelAudit(t) \/ CancelSpawn(t)
    BY <2>2 DEF CancelAudit, CancelSpawn, Continue, regVars, auditVars, workVars, procVars,
       cancelVars
  <2>. QED
    BY <1>16, <2>1, <2>2 DEF CancelStep
<1>17. ASSUME NEW t \in Clients, NativeStep(t) PROVE KeptInv'
  BY <1>17 DEF NativeStep, NoteCancel, NoteAudit, NativeKill, regVars, auditVars, workVars,
     procVars, cancelVars
<1>18. CASE UNCHANGED vars
  BY <1>18 DEF vars, regVars, auditVars, workVars, procVars, cancelVars
<1>. QED
  BY <1>1, <1>2, <1>3, <1>4, <1>5, <1>6, <1>7, <1>8, <1>9, <1>10, <1>11, <1>12, <1>13, <1>14,
     <1>15, <1>16, <1>17, <1>18 DEF Next, Environment, ChildStart

\* History is lost from the oldest finished record on: what is listed is newer than what is not.
THEOREM HistoryKeepsNewest == Spec => []NewestKept
<1>1. Init => KeptInv
  BY Kinds, FS_EmptySet DEF Init, KeptInv, NewestKept, Finished
<1>2. KeptInv => NewestKept
  BY DEF KeptInv
<1>. QED
  BY <1>1, <1>2, KeptStep, StopInvariant, PTL DEF Spec

\* Whatever is too old by then, a prune leaves no more than MaxHistory finished records.
PruneBounds ==
    \A k \in 0..clock : Cardinality({o \in listed \ Pruned(k) : Finished(o)}) <= MaxHistory

\* The history that list_operations shows is bounded: each record that a prune keeps has fewer than
\* MaxHistory newer ones, and no two have the same number of them.
THEOREM HistoryIsBounded == Spec => []PruneBounds
<1>1. ASSUME TypeOK, KeptInv, NEW k \in 0..clock
      PROVE  Cardinality({o \in listed \ Pruned(k) : Finished(o)}) <= MaxHistory
  <2>. DEFINE K == {o \in listed \ Pruned(k) : Finished(o)}
  <2>. DEFINE f == [o \in K |-> Cardinality(Newer(o))]
  <2>1. IsFiniteSet(K) /\ Cardinality(K) \in Nat
    <3>1. K \in SUBSET listed /\ IsFiniteSet(listed)
      BY <1>1 DEF KeptInv
    <3>. HIDE DEF K
    <3>. QED
      BY <3>1, FS_Subset, FS_CardinalityType
  <2>2. ASSUME NEW o \in K
        PROVE  IsFiniteSet(Newer(o)) /\ Cardinality(Newer(o)) \in 0..(MaxHistory - 1)
    <3>1. IsFiniteSet(Newer(o)) /\ Cardinality(Newer(o)) \in Nat
      <4>1. Newer(o) \in SUBSET listed /\ IsFiniteSet(listed)
        BY <1>1 DEF KeptInv, Newer
      <4>. QED
        BY <4>1, FS_Subset, FS_CardinalityType
    <3>2. ~(Cardinality(Newer(o)) >= MaxHistory)
      BY DEF Pruned, Newer
    <3>. QED
      BY <3>1, <3>2, HistoryAssumption DEF HistoryAssumption
  <2>3. ASSUME NEW o \in K, NEW p \in K, finishedAt[o] < finishedAt[p]
        PROVE  Cardinality(Newer(p)) # Cardinality(Newer(o))
    <3>1. Newer(p) \subseteq Newer(o) /\ p \in Newer(o) /\ p \notin Newer(p)
      <4>1. o \in listed /\ p \in listed /\ finishedAt \in [Ops -> Nat] /\ listed \subseteq Ops
        BY <1>1 DEF TypeOK
      <4>. QED
        BY <2>3, <4>1 DEF Newer
    <3>. QED
      BY <2>2, <3>1, FS_Subset
  <2>4. ASSUME NEW o \in K, NEW p \in K, o # p
        PROVE  f[o] # f[p]
    <3>1. finishedAt[o] # finishedAt[p] /\ finishedAt[o] \in Nat /\ finishedAt[p] \in Nat
      BY <1>1, <2>4 DEF KeptInv, TypeOK
    <3>2. finishedAt[o] < finishedAt[p] \/ finishedAt[p] < finishedAt[o]
      BY <3>1
    <3>. QED
      BY <2>3, <3>2
  <2>5. f \in [K -> 0..(MaxHistory - 1)]
    BY <2>2
  <2>6. IsFiniteSet(0..(MaxHistory - 1)) /\ Cardinality(0..(MaxHistory - 1)) = MaxHistory
    BY FS_Interval, HistoryAssumption DEF HistoryAssumption
  <2>. HIDE DEF f, K
  <2>7. ~(Cardinality(0..(MaxHistory - 1)) < Cardinality(K))
    BY <2>1, <2>4, <2>5, <2>6, FS_PigeonHole
  <2>. QED
    BY <2>1, <2>6, <2>7, HistoryAssumption DEF K, HistoryAssumption
<1>2. Init => KeptInv
  BY Kinds, FS_EmptySet DEF Init, KeptInv, NewestKept, Finished
<1>3. TypeInv /\ KeptInv => PruneBounds
  BY <1>1 DEF PruneBounds, TypeInv
<1>. QED
  BY <1>2, <1>3, KeptStep, StopInvariant, PTL DEF Spec

=============================================================================
