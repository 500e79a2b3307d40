------------------------------ MODULE Operations ------------------------------
(***************************************************************************)
(* The operation registry of the Python server (operations.py) together   *)
(* with everything that runs on it: the tool wrapper that turns an MCP    *)
(* request into a worker thread (server.py, "registered"), the children   *)
(* batch_call tracks, the detached jobs and terminals a launcher leaves   *)
(* behind, and the cancel callbacks that kill an owned subprocess         *)
(* (bounded_subprocess.py).                                               *)
(*                                                                         *)
(* Threads: one worker per operation (pc), one coroutine per request      *)
(* (coro), one daemon thread per cancel callback (cb), and the threads    *)
(* inside Registry.cancel (cpc): clients, and each request's coroutine    *)
(* once the client abandons it.  One action is one region under           *)
(* registry.lock, or one access to a threading.Event or to a process.     *)
(***************************************************************************)
EXTENDS Naturals, FiniteSets

CONSTANTS
    Requests,       \* operations started by the MCP tool wrapper
    Children,       \* calls of a batch, tracked as operations of kind "tool"
    Detached,       \* jobs and terminals, of kind "job" and "terminal"
    Parent,         \* the request a child or a detached operation belongs to
    Uncancellable,  \* operations whose tool is not in CANCELLABLE_TOOLS
    Clients,        \* threads that call the cancel tools or the shutdown hook
    MaxHistory      \* finished records kept (1000 in the code)

Ops == Requests \cup Children \cup Detached
Threads == Clients \cup Requests
Batches == {Parent[c] : c \in Children}
Launchers == {Parent[d] : d \in Detached}
NoOp == "no_op"

ASSUME OpsAssumption ==
    /\ Requests \cap Children = {}
    /\ Requests \cap Detached = {}
    /\ Children \cap Detached = {}
    /\ Clients \cap Ops = {}
    /\ NoOp \notin Ops

ASSUME ParentAssumption ==
    /\ Parent \in [Children \cup Detached -> Requests]
    /\ Batches \cap Launchers = {}

ASSUME CancellableAssumption == Uncancellable \subseteq Requests \cup Children

ASSUME HistoryAssumption == MaxHistory \in Nat

VARIABLES
    listed,     \* Registry.operations
    status,     \* data["status"]
    event,      \* Operation.event
    finishing,  \* Operation.finishing
    finishedAt, \* Operation.finished: 0 is None, else its place in the order
    clock,      \* the monotonic clock: one tick per finished operation
    callbacks,  \* TRUE while a cancel callback is in Operation.callbacks
    auditReq,   \* "operation_cancel_requested" lines in the audit log
    auditFin,   \* status of the "operation_finished" audit line
    pc,         \* control state of the operation's worker
    res,        \* what the tool function returned or raised
    verdict,    \* the status the worker hands to Operation.finish
    proc,       \* the subprocess the operation owns
    acked,      \* data["cancel_acknowledged"]
    cb,         \* the daemon thread that runs the cancel callback
    invoked,    \* how often the cancel callback was called
    coro,       \* the coroutine awaiting the request's worker
    cpc,        \* where a thread is inside Registry.cancel
    cop,        \* the operation that thread is cancelling
    ccb,        \* TRUE when it captured a callback to start
    ctodo,      \* operations it still has to call cancel on
    asked       \* detached operations a client asked to cancel, by any tool

regVars == <<listed, status, event, finishing, finishedAt, clock, callbacks>>
auditVars == <<auditReq, auditFin>>
workVars == <<pc, res, verdict>>
procVars == <<proc, acked, cb, invoked>>
cancelVars == <<cpc, cop, ccb, ctodo, asked>>
vars == <<regVars, auditVars, workVars, procVars, coro, cancelVars>>

Terminal == {"completed", "failed", "cancelled", "timed_out"}
ACTIVE == {"queued", "running", "cancelling"}
PreStart == {"none", "admitted", "registered", "queued", "dispatched", "dropped"}
Launching == {"gate", "starting", "spawned", "calling"}
Working == {"body", "starting", "spawned", "calling", "waiting"}
Finalizing == {"returned", "deciding", "auditing", "publishing"}
Control == PreStart \cup Launching \cup Working \cup Finalizing
                \cup {"skipped", "entered", "live", "exit"}

Cancellable == Ops \ Uncancellable
Finished(o) == finishedAt[o] # 0
Born(o) == status[o] # "unborn"

TypeOK ==
    /\ listed \subseteq Ops
    /\ status \in [Ops -> {"unborn"} \cup ACTIVE \cup Terminal]
    /\ event \in [Ops -> BOOLEAN]
    /\ finishing \in [Ops -> BOOLEAN]
    /\ finishedAt \in [Ops -> Nat]
    /\ clock \in Nat
    /\ callbacks \in [Ops -> BOOLEAN]
    /\ auditReq \in [Ops -> Nat]
    /\ auditFin \in [Ops -> {"none"} \cup Terminal]
    /\ pc \in [Ops -> Control]
    /\ res \in [Ops -> {"none", "ok", "bad", "timed_out", "error", "stopped"}]
    /\ verdict \in [Ops -> {"none"} \cup Terminal]
    /\ proc \in [Ops -> {"none", "alive", "dead"}]
    /\ acked \in [Ops -> BOOLEAN]
    /\ cb \in [Ops -> {"idle", "started", "polled", "killing", "failed", "done"}]
    /\ invoked \in [Ops -> Nat]
    /\ coro \in [Requests -> {"none", "awaiting", "cancelling", "unstarted",
                              "finish", "auditing", "publishing", "joining", "returned"}]
    /\ cpc \in [Threads -> {"idle", "cancel", "audit", "spawn",
                            "note", "note_audit", "kill"}]
    /\ cop \in [Threads -> Ops \cup {NoOp}]
    /\ ccb \in [Threads -> BOOLEAN]
    /\ ctodo \in [Threads -> SUBSET Ops]
    /\ asked \subseteq Detached

Init ==
    /\ listed = {}
    /\ status = [o \in Ops |-> "unborn"]
    /\ event = [o \in Ops |-> FALSE]
    /\ finishing = [o \in Ops |-> FALSE]
    /\ finishedAt = [o \in Ops |-> 0]
    /\ clock = 1
    /\ callbacks = [o \in Ops |-> FALSE]
    /\ auditReq = [o \in Ops |-> 0]
    /\ auditFin = [o \in Ops |-> "none"]
    /\ pc = [o \in Ops |-> "none"]
    /\ res = [o \in Ops |-> "none"]
    /\ verdict = [o \in Ops |-> "none"]
    /\ proc = [o \in Ops |-> "none"]
    /\ acked = [o \in Ops |-> FALSE]
    /\ cb = [o \in Ops |-> "idle"]
    /\ invoked = [o \in Ops |-> 0]
    /\ coro = [r \in Requests |-> "none"]
    /\ cpc = [t \in Threads |-> "idle"]
    /\ cop = [t \in Threads |-> NoOp]
    /\ ccb = [t \in Threads |-> FALSE]
    /\ ctodo = [t \in Threads |-> {}]
    /\ asked = {}

-----------------------------------------------------------------------------
(* The registry's history.                                                 *)

\* Mutant of Pruned: the age test is applied to unfinished records too.
PrunedUnfinished(k) ==
    {o \in listed : finishedAt[o] <= k}

\* Mutant of Pruned: the history is cut from the wrong end.
PrunedNewest(k) ==
    {o \in listed :
        /\ Finished(o)
        /\ Cardinality({p \in listed : Finished(p) /\ finishedAt[p] < finishedAt[o]}) >= MaxHistory}

\* The finished records prune drops when everything up to the k-th finish
\* is older than a day: the aged ones and all but the newest MaxHistory.
Pruned(k) ==
    {o \in listed :
        /\ Finished(o)
        /\ \/ finishedAt[o] <= k
           \/ Cardinality({p \in listed : finishedAt[p] > finishedAt[o]}) >= MaxHistory}

\* list_operations and get_operation: they prune and then only read.
Inspect(k) ==
    /\ listed' = listed \ Pruned(k)
    /\ UNCHANGED <<status, event, finishing, finishedAt, clock, callbacks,
                   auditVars, workVars, procVars, coro, cancelVars>>

\* Registry.start: prune, then the new record is listed with status "running".
Start(o, k) ==
    /\ listed' = (listed \ Pruned(k)) \cup {o}
    /\ status' = [status EXCEPT ![o] = "running"]
    /\ UNCHANGED <<event, finishing, finishedAt, clock, callbacks>>

-----------------------------------------------------------------------------
(* The request wrapper: "registered" and "invoke" of server.py.            *)

SetPc(o, next) == pc' = [pc EXCEPT ![o] = next]

\* A client calls a tool.
StartRequest(r, k) ==
    /\ pc[r] = "none"
    /\ Start(r, k)
    /\ SetPc(r, "registered")
    /\ UNCHANGED <<auditVars, res, verdict, procVars, coro, cancelVars>>

\* Mutant of Enqueue: "queued" overwrites a cancellation that came first.
EnqueueAlways(r) ==
    /\ pc[r] = "registered"
    /\ status' = [status EXCEPT ![r] = "queued"]
    /\ SetPc(r, "queued")
    /\ coro' = [coro EXCEPT ![r] = "awaiting"]
    /\ UNCHANGED <<listed, event, finishing, finishedAt, clock, callbacks,
                   auditVars, res, verdict, procVars, cancelVars>>

\* The record becomes "queued" unless a cancellation came first, and the
\* coroutine awaits the AnyIO worker.
Enqueue(r) ==
    /\ pc[r] = "registered"
    /\ status' = [status EXCEPT ![r] = IF event[r] THEN @ ELSE "queued"]
    /\ SetPc(r, "queued")
    /\ coro' = [coro EXCEPT ![r] = "awaiting"]
    /\ UNCHANGED <<listed, event, finishing, finishedAt, clock, callbacks,
                   auditVars, res, verdict, procVars, cancelVars>>

\* AnyIO's worker thread takes the call off its queue; the future was not
\* cancelled at that moment.
Dispatch(r) ==
    /\ pc[r] = "queued"
    /\ SetPc(r, "dispatched")
    /\ UNCHANGED <<regVars, auditVars, res, verdict, procVars, coro, cancelVars>>

\* invoke: started.set().
SetStarted(r) ==
    /\ pc[r] = "dispatched"
    /\ SetPc(r, "entered")
    /\ UNCHANGED <<regVars, auditVars, res, verdict, procVars, coro, cancelVars>>

Started(r) == pc[r] \notin PreStart

\* invoke: return at once when the record is already finished.
CheckFinished(r) ==
    /\ pc[r] = "entered"
    /\ SetPc(r, IF Finished(r) THEN "exit" ELSE "live")
    /\ UNCHANGED <<regVars, auditVars, res, verdict, procVars, coro, cancelVars>>

\* Mutant of SetRunning: "running" is written without a look at the event.
SetRunningAlways(r) ==
    /\ pc[r] = "live"
    /\ status' = [status EXCEPT ![r] = "running"]
    /\ SetPc(r, "gate")
    /\ UNCHANGED <<listed, event, finishing, finishedAt, clock, callbacks,
                   auditVars, res, verdict, procVars, coro, cancelVars>>

\* invoke: the record becomes "running" unless a cancellation came first.
SetRunning(r) ==
    /\ pc[r] = "live"
    /\ status' = [status EXCEPT ![r] = IF event[r] THEN @ ELSE "running"]
    /\ SetPc(r, "gate")
    /\ UNCHANGED <<listed, event, finishing, finishedAt, clock, callbacks,
                   auditVars, res, verdict, procVars, coro, cancelVars>>

-----------------------------------------------------------------------------
(* Tool bodies: checkpoints, batch children, detached launches, processes. *)

\* Operation.checkpoint raises when the operation's own event is set, or, for
\* kind "tool", the event of its parent.
CancelSeen(o) ==
    \/ event[o]
    \/ o \in Children /\ event[Parent[o]]

\* A checkpoint that raises OperationCancelled out of the tool function.
Stop(o) ==
    /\ CancelSeen(o)
    /\ event' = [event EXCEPT ![o] = TRUE]
    /\ SetPc(o, "returned")
    /\ res' = [res EXCEPT ![o] = "stopped"]
    /\ UNCHANGED <<listed, status, finishing, finishedAt, clock, callbacks,
                   auditVars, verdict, procVars, coro, cancelVars>>

\* Mutant of Gate: no checkpoint before the tool function.
GateOpen(o) ==
    /\ pc[o] = "gate"
    /\ SetPc(o, IF o \in Detached THEN "starting" ELSE "body")
    /\ UNCHANGED <<regVars, auditVars, res, verdict, procVars, coro, cancelVars>>

\* The checkpoint before the tool function, or before a detached process.
Gate(o) ==
    /\ pc[o] = "gate"
    /\ \/ Stop(o)
       \/ /\ ~CancelSeen(o)
          /\ SetPc(o, IF o \in Detached THEN "starting" ELSE "body")
          /\ UNCHANGED <<regVars, auditVars, res, verdict, procVars, coro, cancelVars>>

\* Nothing the worker of p started is still running on its behalf: the batch
\* pool is joined, and a launch has either handed over or cleaned up.
Quiet(p) ==
    /\ \A c \in Children : Parent[c] = p => pc[c] \in {"none", "skipped", "exit"}
    /\ \A d \in Detached : Parent[d] = p =>
          /\ pc[d] \notin Launching
          /\ pc[d] \in Finalizing => proc[d] # "none"

\* Launches that gave up before there was a process: their exception goes
\* through the launcher's tool function.
FailedLaunches(p) ==
    {d \in Detached : Parent[d] = p /\ pc[d] = "exit" /\ proc[d] = "none"}

\* The tool function of o is between two calls.
InBody(o) ==
    /\ pc[o] = "body"
    /\ Quiet(o)
    /\ FailedLaunches(o) = {}

\* batch_call's invoke: a checkpoint of the parent, then the call is
\* dispatched; when the checkpoint raises the call is recorded as not ok.
AdmitChild(c) ==
    /\ pc[c] = "none"
    /\ pc[Parent[c]] = "body"
    /\ SetPc(c, IF event[Parent[c]] THEN "skipped" ELSE "admitted")
    /\ UNCHANGED <<regVars, auditVars, res, verdict, procVars, coro, cancelVars>>

\* track: the child is registered before its first checkpoint.
StartChild(c, k) ==
    /\ pc[c] = "admitted"
    /\ Start(c, k)
    /\ SetPc(c, "gate")
    /\ UNCHANGED <<auditVars, res, verdict, procVars, coro, cancelVars>>

\* acquire_heavy_operation with a cancel_tool: the launcher registers the job
\* or terminal as an operation of its own.
StartDetached(d, k) ==
    /\ pc[d] = "none"
    /\ InBody(Parent[d])
    /\ Start(d, k)
    /\ SetPc(d, "gate")
    /\ UNCHANGED <<auditVars, res, verdict, procVars, coro, cancelVars>>

\* run_bounded: the checkpoint before Popen passes.
StartProcess(o) ==
    /\ o \notin Batches \cup Launchers
    /\ InBody(o)
    /\ proc[o] = "none"
    /\ ~CancelSeen(o)
    /\ SetPc(o, "starting")
    /\ UNCHANGED <<regVars, auditVars, res, verdict, procVars, coro, cancelVars>>

\* Popen returns, or raises out of the tool function (fail_start).
Popen(o) ==
    /\ pc[o] = "starting"
    /\ \/ /\ SetPc(o, "spawned")
          /\ proc' = [proc EXCEPT ![o] = "alive"]
          /\ UNCHANGED res
       \/ /\ SetPc(o, "returned")
          /\ res' = [res EXCEPT ![o] = "error"]
          /\ UNCHANGED proc
    /\ UNCHANGED <<regVars, auditVars, verdict, acked, cb, invoked, coro, cancelVars>>

\* Mutant of AddCancel: a cancellation that is already pending is ignored.
AddCancelOnly(o) ==
    /\ pc[o] = "spawned"
    /\ callbacks' = [callbacks EXCEPT ![o] = TRUE]
    /\ SetPc(o, "waiting")
    /\ UNCHANGED <<listed, status, event, finishing, finishedAt, clock,
                   auditVars, res, verdict, procVars, coro, cancelVars>>

\* Operation.add_cancel: the callback is stored and the event read under one
\* lock; when it is already set the callback is called right here.
AddCancel(o) ==
    /\ pc[o] = "spawned"
    /\ callbacks' = [callbacks EXCEPT ![o] = TRUE]
    /\ SetPc(o, IF event[o] THEN "calling" ELSE "waiting")
    /\ invoked' = [invoked EXCEPT ![o] = IF event[o] THEN @ + 1 ELSE @]
    /\ cb' = [cb EXCEPT ![o] = IF event[o] THEN "started" ELSE @]
    /\ UNCHANGED <<listed, status, event, finishing, finishedAt, clock,
                   auditVars, res, verdict, proc, acked, coro, cancelVars>>

\* The worker's own call of the callback has returned.
CallReturns(o) ==
    /\ pc[o] = "calling"
    /\ cb[o] \in {"failed", "done"}
    /\ SetPc(o, "waiting")
    /\ UNCHANGED <<regVars, auditVars, res, verdict, procVars, coro, cancelVars>>

\* process.wait() returns.  A tool removes its callback and goes on; the
\* finisher of a detached process goes on to its verdict.
Reap(o) ==
    /\ pc[o] = "waiting"
    /\ proc[o] = "dead"
    /\ IF o \in Detached
       THEN /\ SetPc(o, "returned")
            /\ \E x \in {"ok", "bad", "timed_out"} : res' = [res EXCEPT ![o] = x]
            /\ UNCHANGED callbacks
       ELSE /\ SetPc(o, "body")
            /\ callbacks' = [callbacks EXCEPT ![o] = FALSE]
            /\ UNCHANGED res
    /\ UNCHANGED <<listed, status, event, finishing, finishedAt, clock,
                   auditVars, verdict, procVars, coro, cancelVars>>

\* What the tool function of o can return or raise in this state.
Results(o) ==
    IF FailedLaunches(o) # {} THEN {res[d] : d \in FailedLaunches(o)}
    ELSE IF o \in Batches
         THEN {IF \A c \in Children : Parent[c] = o =>
                     pc[c] = "none" \/ res[c] = "ok" THEN "ok" ELSE "bad"}
         ELSE {"ok", "bad", "timed_out", "error"}

\* The tool function returns or raises.
Return(o) ==
    /\ pc[o] = "body"
    /\ Quiet(o)
    /\ SetPc(o, "returned")
    /\ \E x \in Results(o) : res' = [res EXCEPT ![o] = x]
    /\ UNCHANGED <<regVars, auditVars, verdict, procVars, coro, cancelVars>>

\* A checkpoint inside the tool function stops it.  batch_call has none of
\* its own: its checkpoints are the ones of AdmitChild.
StopBody(o) ==
    /\ o \notin Batches
    /\ InBody(o)
    /\ Stop(o)

-----------------------------------------------------------------------------
(* The end of an operation.                                                *)

\* Mutant of RequestVerdict: any cancellation makes the outcome "cancelled".
RequestVerdictEager(r) ==
    IF res[r] = "stopped" \/ event[r] THEN "cancelled"
    ELSE IF res[r] = "ok" THEN "completed" ELSE "failed"

\* The statuses a worker may pass to finish, by the kind of operation.
RequestVerdict(r) ==
    IF res[r] = "stopped" \/ (event[r] /\ res[r] # "error" /\ (res[r] # "ok" \/ acked[r]))
    THEN "cancelled"
    ELSE CASE res[r] = "ok" -> "completed"
           [] res[r] = "timed_out" -> "timed_out"
           [] OTHER -> "failed"

ChildVerdict(c) ==
    CASE res[c] = "stopped" -> "cancelled"
      [] res[c] = "ok" -> IF event[c] THEN "cancelled" ELSE "completed"
      [] OTHER -> "failed"

\* fail_start, the job's finisher and the terminal's reader.
DetachedVerdicts(d) ==
    CASE res[d] = "stopped" -> {"cancelled"}
      [] res[d] = "error" -> {"failed"}
      [] OTHER -> {"completed", "failed", "timed_out"}
                    \cup (IF event[d] THEN {"cancelled"} ELSE {})

Verdicts(o) ==
    IF o \in Requests THEN {RequestVerdict(o)}
    ELSE IF o \in Children THEN {ChildVerdict(o)} ELSE DetachedVerdicts(o)

\* The worker settles on a status; the event it read may change afterwards.
Decide(o) ==
    /\ pc[o] = "returned"
    /\ \E v \in Verdicts(o) : verdict' = [verdict EXCEPT ![o] = v]
    /\ SetPc(o, "deciding")
    /\ UNCHANGED <<regVars, auditVars, res, procVars, coro, cancelVars>>

\* Operation.finish, first locked region: only one caller gets past it.
FinishEnter(o) ==
    /\ finishing' = [finishing EXCEPT ![o] = TRUE]
    /\ callbacks' = [callbacks EXCEPT ![o] = FALSE]
    /\ UNCHANGED <<listed, status, event, finishedAt, clock>>

FinishClosed(o) == Finished(o) \/ finishing[o]

\* Mutant of FinishPublish: the outcome is derived again from the event.
FinishPublishLate(o, v) ==
    /\ finishedAt' = [finishedAt EXCEPT ![o] = clock]
    /\ clock' = clock + 1
    /\ status' = [status EXCEPT ![o] = IF event[o] THEN "cancelled" ELSE v]
    /\ UNCHANGED <<listed, event, finishing, callbacks>>

\* Mutant of FinishPublish: the record keeps no terminal status.
FinishPublishUntyped(o, v) ==
    /\ finishedAt' = [finishedAt EXCEPT ![o] = clock]
    /\ clock' = clock + 1
    /\ status' = [status EXCEPT ![o] = "finished"]
    /\ UNCHANGED <<listed, event, finishing, callbacks>>

\* Operation.finish, second locked region.
FinishPublish(o, v) ==
    /\ finishedAt' = [finishedAt EXCEPT ![o] = clock]
    /\ clock' = clock + 1
    /\ status' = [status EXCEPT ![o] = v]
    /\ UNCHANGED <<listed, event, finishing, callbacks>>

WorkerFinish(o) ==
    /\ pc[o] = "deciding"
    /\ IF FinishClosed(o)
       THEN SetPc(o, "exit") /\ UNCHANGED regVars
       ELSE SetPc(o, "auditing") /\ FinishEnter(o)
    /\ UNCHANGED <<auditVars, res, verdict, procVars, coro, cancelVars>>

WorkerAudit(o) ==
    /\ pc[o] = "auditing"
    /\ auditFin' = [auditFin EXCEPT ![o] = verdict[o]]
    /\ SetPc(o, "publishing")
    /\ UNCHANGED <<regVars, auditReq, res, verdict, procVars, coro, cancelVars>>

WorkerPublish(o) ==
    /\ pc[o] = "publishing"
    /\ FinishPublish(o, verdict[o])
    /\ SetPc(o, "exit")
    /\ verdict' = [verdict EXCEPT ![o] = "none"]
    /\ UNCHANGED <<auditVars, res, procVars, coro, cancelVars>>

-----------------------------------------------------------------------------
(* Registry.cancel, and the cancel callbacks it starts.                    *)

\* Mutant of LiveChildren: a cancellation stays with the operation it names.
LiveChildrenNone(o) == {c \in Children : FALSE /\ Parent[c] = o}

\* Mutant of LiveChildren: the test on kind is missing.
LiveChildrenAnyKind(o) ==
    {c \in (Children \cup Detached) \cap listed :
        Parent[c] = o /\ ~Finished(c) /\ c \notin Uncancellable}

\* The registered, unfinished, cancellable children of kind "tool": what a
\* cancellation passes on to.  Detached operations are not among them.
LiveChildren(o) ==
    {c \in Children \cap listed : Parent[c] = o /\ ~Finished(c) /\ c \notin Uncancellable}

\* A thread goes on with its remaining calls of cancel, or leaves.
Continue(todo) == IF todo = {} THEN "idle" ELSE "cancel"

\* A client passes an operation it has seen to cancel_operation.
ClientCancel(t, o) ==
    /\ cpc[t] = "idle"
    /\ Born(o)
    /\ cpc' = [cpc EXCEPT ![t] = "cancel"]
    /\ ctodo' = [ctodo EXCEPT ![t] = {o}]
    /\ asked' = asked \cup ({o} \cap Detached)
    /\ UNCHANGED <<regVars, auditVars, workVars, procVars, coro, cop, ccb>>

\* Registry.shutdown collects every active cancellable operation.
Shutdown(t) ==
    /\ cpc[t] = "idle"
    /\ LET targets == {o \in listed : ~Finished(o) /\ o \notin Uncancellable}
       IN  /\ cpc' = [cpc EXCEPT ![t] = Continue(targets)]
           /\ ctodo' = [ctodo EXCEPT ![t] = targets]
           /\ asked' = asked \cup (targets \cap Detached)
    /\ UNCHANGED <<regVars, auditVars, workVars, procVars, coro, cop, ccb>>

\* The conditions under which cancel changes anything.
Accepts(o) ==
    /\ o \in listed
    /\ ~Finished(o)
    /\ ~finishing[o]
    /\ o \notin Uncancellable

\* Mutant of FirstRequest: repeated requests are not told apart.
EveryRequest(o) == o \in Ops

\* Only the first request is audited and starts the callbacks.
FirstRequest(o) == ~event[o]

\* The locked region of Registry.cancel: the event and the status are set, the
\* callbacks are captured on the first request only, the children collected.
CancelLocked(t, o) ==
    /\ cpc[t] = "cancel"
    /\ o \in ctodo[t]
    /\ LET rest == (ctodo[t] \ {o}) \cup (IF Accepts(o) THEN LiveChildren(o) ELSE {})
       IN  /\ ctodo' = [ctodo EXCEPT ![t] = rest]
           /\ IF Accepts(o)
              THEN /\ event' = [event EXCEPT ![o] = TRUE]
                   /\ status' = [status EXCEPT ![o] = "cancelling"]
              ELSE UNCHANGED <<event, status>>
           /\ IF Accepts(o) /\ FirstRequest(o)
              THEN /\ cpc' = [cpc EXCEPT ![t] = "audit"]
                   /\ cop' = [cop EXCEPT ![t] = o]
                   /\ ccb' = [ccb EXCEPT ![t] = callbacks[o]]
              ELSE /\ cpc' = [cpc EXCEPT ![t] = Continue(rest)]
                   /\ UNCHANGED <<cop, ccb>>
    /\ UNCHANGED <<listed, finishing, finishedAt, clock, callbacks,
                   auditVars, workVars, procVars, coro, asked>>

\* Outside the lock: the audit line, then a daemon thread per callback.
CancelAudit(t) ==
    /\ cpc[t] = "audit"
    /\ auditReq' = [auditReq EXCEPT ![cop[t]] = @ + 1]
    /\ cpc' = [cpc EXCEPT ![t] = "spawn"]
    /\ UNCHANGED <<regVars, auditFin, workVars, procVars, coro, cop, ccb, ctodo, asked>>

CancelSpawn(t) ==
    /\ cpc[t] = "spawn"
    /\ cpc' = [cpc EXCEPT ![t] = Continue(ctodo[t])]
    /\ cop' = [cop EXCEPT ![t] = NoOp]
    /\ ccb' = [ccb EXCEPT ![t] = FALSE]
    /\ invoked' = [invoked EXCEPT ![cop[t]] = IF ccb[t] THEN @ + 1 ELSE @]
    /\ cb' = [cb EXCEPT ![cop[t]] = IF ccb[t] THEN "started" ELSE @]
    /\ UNCHANGED <<regVars, auditVars, workVars, proc, acked, coro, ctodo, asked>>

\* The callback reads whether there is anything left to stop.  For a process
\* of a tool that is poll(); for a job it is the stored status, and the write
\* that announces the cancellation may fail before anything is killed.
CallbackPoll(o) ==
    /\ cb[o] = "started"
    /\ \E next \in IF o \in Detached
                   THEN IF pc[o] \in {"deciding", "auditing", "publishing", "exit"}
                        THEN {"done"} ELSE {"killing", "failed"}
                   ELSE {IF proc[o] = "alive" THEN "polled" ELSE "done"} :
          cb' = [cb EXCEPT ![o] = next]
    /\ UNCHANGED <<regVars, auditVars, workVars, proc, acked, invoked, coro, cancelVars>>

\* cancellation_acknowledged.
CallbackAck(o) ==
    /\ cb[o] = "polled"
    /\ acked' = [acked EXCEPT ![o] = TRUE]
    /\ cb' = [cb EXCEPT ![o] = "killing"]
    /\ UNCHANGED <<regVars, auditVars, workVars, proc, invoked, coro, cancelVars>>

\* _terminate_process_group: TERM, the grace period, KILL.
CallbackKill(o) ==
    /\ cb[o] = "killing"
    /\ proc' = [proc EXCEPT ![o] = "dead"]
    /\ cb' = [cb EXCEPT ![o] = "done"]
    /\ UNCHANGED <<regVars, auditVars, workVars, acked, invoked, coro, cancelVars>>

\* A process ends by itself, or by the timeout of whoever waits for it.
ProcessExit(o) ==
    /\ proc[o] = "alive"
    /\ proc' = [proc EXCEPT ![o] = "dead"]
    /\ UNCHANGED <<regVars, auditVars, workVars, acked, cb, invoked, coro, cancelVars>>

\* cancel_command_job and close_terminal_session: the resource's own tools.
\* The stored status they read is not terminal.
NativeCancel(t, d) ==
    /\ cpc[t] = "idle"
    /\ pc[d] \in {"spawned", "calling", "waiting", "returned"}
    /\ proc[d] # "none"
    /\ cpc' = [cpc EXCEPT ![t] = "note"]
    /\ cop' = [cop EXCEPT ![t] = d]
    /\ asked' = asked \cup {d}
    /\ UNCHANGED <<regVars, auditVars, workVars, procVars, coro, ccb, ctodo>>

\* Mutant of NoteTarget: an operation that is already cancelling is noted again.
NoteTargetAgain(d) == d \in listed /\ ~Finished(d)

\* Mutant of NoteTarget: a finished operation is noted too.
NoteTargetFinished(d) == d \in listed /\ ~event[d]

\* note_resource_cancel: its test reads finished and the event, not finishing.
NoteTarget(d) == d \in listed /\ ~Finished(d) /\ ~event[d]

NoteCancel(t) ==
    /\ cpc[t] = "note"
    /\ LET d == cop[t] IN
       IF NoteTarget(d)
       THEN /\ event' = [event EXCEPT ![d] = TRUE]
            /\ status' = [status EXCEPT ![d] = "cancelling"]
            /\ cpc' = [cpc EXCEPT ![t] = "note_audit"]
       ELSE /\ cpc' = [cpc EXCEPT ![t] = "kill"]
            /\ UNCHANGED <<event, status>>
    /\ UNCHANGED <<listed, finishing, finishedAt, clock, callbacks, auditVars,
                   workVars, procVars, coro, cop, ccb, ctodo, asked>>

NoteAudit(t) ==
    /\ cpc[t] = "note_audit"
    /\ auditReq' = [auditReq EXCEPT ![cop[t]] = @ + 1]
    /\ cpc' = [cpc EXCEPT ![t] = "kill"]
    /\ UNCHANGED <<regVars, auditFin, workVars, procVars, coro, cop, ccb, ctodo, asked>>

\* The kill, unless storing the new status failed before it.
NativeKill(t) ==
    /\ cpc[t] = "kill"
    /\ \/ proc' = [proc EXCEPT ![cop[t]] = "dead"]
       \/ UNCHANGED proc
    /\ cpc' = [cpc EXCEPT ![t] = "idle"]
    /\ cop' = [cop EXCEPT ![t] = NoOp]
    /\ UNCHANGED <<regVars, auditVars, workVars, acked, cb, invoked, coro,
                   ccb, ctodo, asked>>

-----------------------------------------------------------------------------
(* The coroutine of a request whose client cancels it or disconnects.      *)

\* The worker has returned: so does the coroutine.
Resume(r) ==
    /\ coro[r] = "awaiting"
    /\ pc[r] = "exit"
    /\ coro' = [coro EXCEPT ![r] = "returned"]
    /\ UNCHANGED <<regVars, auditVars, workVars, procVars, cancelVars>>

\* The await is cancelled.  AnyIO drops a call its worker has not taken yet,
\* and the coroutine enters Registry.cancel.
Abandon(r) ==
    /\ coro[r] = "awaiting"
    /\ coro' = [coro EXCEPT ![r] = "cancelling"]
    /\ SetPc(r, IF pc[r] = "queued" THEN "dropped" ELSE pc[r])
    /\ cpc' = [cpc EXCEPT ![r] = "cancel"]
    /\ ctodo' = [ctodo EXCEPT ![r] = {r}]
    /\ UNCHANGED <<regVars, auditVars, res, verdict, procVars, cop, ccb, asked>>

\* Mutant of CheckStarted: the coroutine always waits for the worker.
CheckStartedJoin(r) ==
    /\ coro[r] = "cancelling"
    /\ cpc[r] = "idle"
    /\ coro' = [coro EXCEPT ![r] = "joining"]
    /\ UNCHANGED <<regVars, auditVars, workVars, procVars, cancelVars>>

\* if not started.is_set()
CheckStarted(r) ==
    /\ coro[r] = "cancelling"
    /\ cpc[r] = "idle"
    /\ coro' = [coro EXCEPT ![r] = IF Started(r) THEN "joining" ELSE "unstarted"]
    /\ UNCHANGED <<regVars, auditVars, workVars, procVars, cancelVars>>

\* operation.event.set()
CoroSetEvent(r) ==
    /\ coro[r] = "unstarted"
    /\ event' = [event EXCEPT ![r] = TRUE]
    /\ coro' = [coro EXCEPT ![r] = "finish"]
    /\ UNCHANGED <<listed, status, finishing, finishedAt, clock, callbacks,
                   auditVars, workVars, procVars, cancelVars>>

\* operation.finish("cancelled")
CoroFinish(r) ==
    /\ coro[r] = "finish"
    /\ IF FinishClosed(r)
       THEN coro' = [coro EXCEPT ![r] = "returned"] /\ UNCHANGED regVars
       ELSE coro' = [coro EXCEPT ![r] = "auditing"] /\ FinishEnter(r)
    /\ UNCHANGED <<auditVars, workVars, procVars, cancelVars>>

CoroAudit(r) ==
    /\ coro[r] = "auditing"
    /\ auditFin' = [auditFin EXCEPT ![r] = "cancelled"]
    /\ coro' = [coro EXCEPT ![r] = "publishing"]
    /\ UNCHANGED <<regVars, auditReq, workVars, procVars, cancelVars>>

CoroPublish(r) ==
    /\ coro[r] = "publishing"
    /\ FinishPublish(r, "cancelled")
    /\ coro' = [coro EXCEPT ![r] = "returned"]
    /\ UNCHANGED <<auditVars, workVars, procVars, cancelVars>>

\* The loop on done.is_set().
Join(r) ==
    /\ coro[r] = "joining"
    /\ pc[r] = "exit"
    /\ coro' = [coro EXCEPT ![r] = "returned"]
    /\ UNCHANGED <<regVars, auditVars, workVars, procVars, cancelVars>>

-----------------------------------------------------------------------------
(* The specification.                                                      *)

\* The steps of the thread that carries operation o.
WrapperStep(r) ==
    \/ Enqueue(r) \/ Dispatch(r) \/ SetStarted(r) \/ CheckFinished(r) \/ SetRunning(r)

BodyStep(o) ==
    \/ Gate(o) \/ StartProcess(o) \/ Popen(o) \/ AddCancel(o) \/ CallReturns(o)
    \/ Reap(o) \/ Return(o) \/ StopBody(o)

EndStep(o) == Decide(o) \/ WorkerFinish(o) \/ WorkerAudit(o) \/ WorkerPublish(o)

CallbackStep(o) == CallbackPoll(o) \/ CallbackAck(o) \/ CallbackKill(o)

\* The steps of a thread inside Registry.cancel.
CancelStep(t) ==
    \/ \E o \in Ops : CancelLocked(t, o)
    \/ CancelAudit(t) \/ CancelSpawn(t)

NativeStep(t) == NoteCancel(t) \/ NoteAudit(t) \/ NativeKill(t)

CoroStep(r) ==
    \/ Resume(r) \/ CheckStarted(r) \/ CoroSetEvent(r) \/ CoroFinish(r)
    \/ CoroAudit(r) \/ CoroPublish(r) \/ Join(r)

\* What clients and the processes themselves may do.
Environment ==
    \/ \E k \in 0..clock :
          \/ Inspect(k)
          \/ \E r \in Requests : StartRequest(r, k)
          \/ \E d \in Detached : StartDetached(d, k)
    \/ \E c \in Children : AdmitChild(c)
    \/ \E r \in Requests : Abandon(r)
    \/ \E o \in Ops : ProcessExit(o)
    \/ \E t \in Clients :
          \/ Shutdown(t)
          \/ \E o \in Ops : ClientCancel(t, o)
          \/ \E d \in Detached : NativeCancel(t, d)

ChildStart(c) == \E k \in 0..clock : StartChild(c, k)

Next ==
    \/ Environment
    \/ \E r \in Requests : WrapperStep(r) \/ CoroStep(r)
    \/ \E c \in Children : ChildStart(c)
    \/ \E o \in Ops : BodyStep(o) \/ EndStep(o) \/ CallbackStep(o)
    \/ \E t \in Threads : CancelStep(t)
    \/ \E t \in Clients : NativeStep(t)

Spec == Init /\ [][Next]_vars

\* Every thread that can take a step eventually does: the OS schedules threads
\* and the event loop runs its tasks.  Clients and processes owe nothing.
Fairness ==
    /\ \A r \in Requests : WF_vars(WrapperStep(r)) /\ WF_vars(CoroStep(r))
    /\ \A c \in Children : WF_vars(ChildStart(c))
    /\ \A o \in Ops : WF_vars(BodyStep(o) \/ EndStep(o)) /\ WF_vars(CallbackStep(o))
    /\ \A t \in Threads : WF_vars(CancelStep(t))

FairSpec == Spec /\ Fairness
-----------------------------------------------------------------------------
(* Properties.                                                             *)

\* o or a call of the batch o is doing work.
Active(o) ==
    \E p \in {o} \cup {c \in Children : Parent[c] = o} :
        pc[p] \in Working \/ proc[p] = "alive"

\* The record of a cancellable operation is finished only when its worker has
\* left the tool function, its process is gone and, for a batch, the same holds
\* of every call: the race of the wrapper's "not started" branch with a worker
\* that is just being dispatched does not leave live work behind.
FinishedMeansStopped ==
    \A o \in Cancellable : Finished(o) => ~Active(o)

\* The same for every operation, as docs/OPERATIONS.md states it: abandoning
\* an await does not turn a live thread into a finished record.
AbandonedIsNotFinished ==
    \A o \in Ops : Finished(o) => ~Active(o)

\* Once finish has published a record nothing changes its outcome again: not a
\* racing cancel, not the worker that sets "running" late, not a second finish.
FinishedIsFinal ==
    [][\A o \in Ops : Finished(o) =>
          /\ status'[o] = status[o]
          /\ finishedAt'[o] = finishedAt[o]
          /\ auditFin'[o] = auditFin[o]]_vars

\* Of the threads that race to finish an operation one wins, and the audit log
\* and the record tell of the same outcome.
AuditMatchesRecord ==
    \A o \in Ops : Finished(o) => auditFin[o] = status[o] /\ status[o] \in Terminal

\* A cancel callback is called at most once, however many cancellations race
\* with each other and with add_cancel.
CallbackOnce == \A o \in Ops : invoked[o] <= 1

\* Someone is about to kill the process of o, or tried and failed.
KillUnderWay(o) ==
    \/ cb[o] \in {"started", "polled", "killing", "failed"}
    \/ \E t \in Threads : cop[t] = o /\ cpc[t] \in {"audit", "spawn"} /\ ccb[t]

\* A cancellation accepted while the process of a tool is running is never
\* lost: as long as the worker waits for the process, the kill is on its way.
\* A tool that is not cancellable accepts none, but the coroutine sets the
\* event of such a request, abandoned before its worker started.
NoLostCancel ==
    \A o \in (Requests \cup Children) \cap Cancellable :
        event[o] /\ pc[o] = "waiting" /\ proc[o] = "alive" => KillUnderWay(o)

\* Repeated and concurrent cancellations are idempotent: one request for an
\* operation reaches the audit log.
CancelAuditedOnce == \A o \in Ops : auditReq[o] <= 1

\* A cancellation that comes too late does not turn success into
\* "cancelled": a request whose tool succeeded, and whose process no callback
\* claimed to have stopped, is recorded as completed.
LateCancelKeepsSuccess ==
    \A r \in Requests \cap Cancellable :
        Finished(r) /\ res[r] = "ok" /\ ~acked[r] => status[r] = "completed"

\* What a cancellation promises a request, however many clients ask and however late: its process
\* is killed once, and surely, the log has it once, and it spoils no success.
CancellationsHold == CallbackOnce /\ NoLostCancel /\ CancelAuditedOnce /\ LateCancelKeepsSuccess

\* The same for the calls of a batch, as docs/OPERATIONS.md states it.
LateCancelKeepsChildSuccess ==
    \A c \in Children \cap Cancellable :
        Finished(c) /\ res[c] = "ok" /\ ~acked[c] => status[c] = "completed"

\* A detached job or terminal is cancelled only when somebody asked for that
\* very operation: it survives the cancellation of the request that started it.
DetachedSurvives == \A d \in Detached : event[d] => d \in asked

\* While a cancelled request or detached operation is active it shows
\* "cancelling": the late "queued" and "running" do not hide the request.
CancelIsVisible ==
    \A o \in (Requests \cup Detached) \cap Cancellable :
        event[o] /\ ~Finished(o) => status[o] = "cancelling"

\* Pruning never evicts an operation that is not finished.
ActiveIsListed == \A o \in Ops : Born(o) /\ ~Finished(o) => o \in listed

\* History is lost from the oldest finished record on.
NewestKept ==
    \A o, p \in Ops :
        Finished(o) /\ Finished(p) /\ o \notin listed /\ p \in listed
            => finishedAt[o] < finishedAt[p]

\* A cancelled tool call ends: its worker reaches a checkpoint, or its process
\* is killed, and the record is finished.
CancelEnds ==
    \A o \in (Requests \cup Children) \cap Cancellable : event[o] ~> Finished(o)

\* An abandoned cancellable request does not wait for its worker forever, and
\* its coroutine leaves a finished record behind.
AbandonEnds ==
    \A r \in Requests \cap Cancellable :
        coro[r] = "cancelling" ~> coro[r] = "returned" /\ Finished(r)

\* Both, of a batch and its calls: neither a worker nor a coroutine is left behind.
CancellationsEnd == CancelEnds /\ AbandonEnds
=============================================================================
