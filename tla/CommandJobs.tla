---------------------------- MODULE CommandJobs ----------------------------
(* Background command jobs (command_tools.py). Many threads act on one job:  *)
(* the call that starts it, its finisher, its timeout watcher, its pipe      *)
(* readers, and any number of later calls that inspect it, cancel it or open *)
(* the artifact store. They meet in JOB_PROCS, in the metadata file of the   *)
(* job and in the lock file of its concurrency key. JOB_LOCK makes each read *)
(* and each write of the metadata atomic, but few callers hold it from the   *)
(* read to the write that follows, and no caller holds it over the lock file.*)
(*                                                                           *)
(* The outcome of the job's registry record is decided by the finisher; the  *)
(* registry itself is module Operations. Left out: commands that leave their *)
(* process group, reuse of a process id, log text and byte counts.           *)
EXTENDS Naturals, FiniteSets

CONSTANTS
    Jobs,        \* job ids: one call of start_command_job each
    Keyed,       \* the jobs started with the one concurrency key
    NoJob,
    Capacity,    \* max_heavy_operations
    Cancellers,  \* threads that call cancel_command_job, one call after another
    Getters,     \* threads that call get_command_job, one call after another
    Openers,     \* threads that open artifacts, which reconciles the store
    Leftovers,   \* what a command may leave in its group when its shell exits
    Faults,      \* bound: writes and captures that may fail
    Restarts     \* bound: crashes and orderly shutdowns of the server

ASSUME NoJobAssumption == NoJob \notin Jobs
ASSUME KeyedAssumption == Keyed \subseteq Jobs
ASSUME JobsAssumption == IsFiniteSet(Jobs)
ASSUME CapacityAssumption == Capacity \in Nat \ {0}
ASSUME FaultsAssumption == Faults \in Nat /\ Restarts \in Nat
ASSUME LeftoversAssumption ==
    "none" \in Leftovers /\ Leftovers \subseteq {"none", "silent", "piped"}

Callers == Cancellers \cup Getters \cup Openers

VARIABLES
    leader,     \* the shell of the job: a zombie once dead, until reaped
    others,     \* the rest of its group: none, silent, or piped (holds a pipe)
    code,       \* proc.returncode, once the shell is dead
    pipes,      \* the reader threads: off, open, closed
    meta,       \* the persisted metadata
    procs,      \* the keys of JOB_PROCS
    timeouts,   \* the keys of JOB_TIMEOUT_EVENTS whose event is not set
    errors,     \* the keys of JOB_CAPTURE_ERRORS
    elapsed,    \* jobs older than their timeout
    lock,       \* the job named by the lock file of the key, or NoJob
    leased,     \* jobs that hold a heavy-operation lease
    held,       \* jobs whose artifacts the store may not reconcile or evict
    record,     \* the job's operation record: none, open or its outcome
    asked,      \* jobs asked to stop (the cancellation event of an open record)
    verdict,    \* the outcome the finisher published
    start, finish, watch,  \* where each job's own threads are
    caller,     \* the calls in progress: [at, job, copy]
    sweep,      \* shutdown_command_jobs: [at, todo, job, copy]
    captured,   \* history: jobs whose capture failed
    faults, restarts

osVars == <<leader, others, code, pipes>>
diskVars == <<meta, lock>>
memVars == <<procs, timeouts, errors, elapsed>>
leaseVars == <<leased, held, record, verdict, asked>>
threadVars == <<start, finish, watch, caller, sweep>>
startRest == <<finish, watch, caller, sweep>>
finishRest == <<start, watch, caller, sweep>>
watchRest == <<start, finish, caller, sweep>>
callRest == <<start, finish, watch, sweep>>
boundVars == <<captured, faults, restarts>>
vars == <<osVars, diskVars, memVars, leaseVars, threadVars, boundVars>>

Terminal == {"completed", "failed", "cancelled", "timed_out"}
Statuses == {"none", "running", "terminating"} \cup Terminal
Meta == [status: Statuses, cancel_requested: BOOLEAN, timed_out: BOOLEAN]
NoMeta == [status |-> "none", cancel_requested |-> FALSE, timed_out |-> FALSE]
NewMeta == [NoMeta EXCEPT !.status = "running"]
Idle == [at |-> "idle", job |-> NoJob, copy |-> NoMeta]
Off == [at |-> "off", todo |-> {}, job |-> NoJob, copy |-> NoMeta]

Saved(j) == meta[j].status # "none"

OsTypes ==
    /\ leader \in [Jobs -> {"none", "alive", "zombie", "reaped"}]
    /\ others \in [Jobs -> {"none", "silent", "piped"}]
    /\ code \in [Jobs -> {"none", "zero", "nonzero"}]
    /\ pipes \in [Jobs -> {"off", "open", "closed"}]

SetTypes ==
    /\ procs \subseteq Jobs /\ timeouts \subseteq Jobs /\ errors \subseteq Jobs
    /\ elapsed \subseteq Jobs /\ leased \subseteq Jobs /\ held \subseteq Jobs
    /\ asked \subseteq Jobs /\ captured \subseteq Jobs

RecordTypes ==
    /\ lock \in Jobs \cup {NoJob}
    /\ meta \in [Jobs -> Meta]
    /\ record \in [Jobs -> {"none", "open"} \cup Terminal]
    /\ verdict \in [Jobs -> {"none"} \cup Terminal]

ThreadTypes ==
    /\ start \in [Jobs -> {"idle", "unlink", "acquire", "open", "save", "register",
                           "finisher", "lock", "watcher",
                           "returned", "refused", "failed", "lost"}]
    /\ finish \in [Jobs -> {"off", "wait", "drain", "publish", "clear", "unlink",
                            "end", "done", "lost"}]
    /\ watch \in [Jobs -> {"off", "sleep", "kill", "pop", "final", "unlink",
                           "release", "expired", "idle", "lost"}]

Call == [at: {"idle", "c_write", "c_kill", "c_pop", "c_unlink", "c_save", "g_look",
              "g_kill", "g_clear", "g_unlink", "g_save", "o_check"},
         job: Jobs \cup {NoJob}, copy: Meta]
Sweep == [at: {"off", "next", "kill", "write"}, todo: SUBSET Jobs,
          job: Jobs \cup {NoJob}, copy: Meta]

CallTypes == caller \in [Callers -> Call] /\ sweep \in Sweep

BoundTypes == faults \in 0..Faults /\ restarts \in 0..Restarts

TypeOK == OsTypes /\ SetTypes /\ RecordTypes /\ ThreadTypes /\ CallTypes /\ BoundTypes

Init ==
    /\ leader = [j \in Jobs |-> "none"]
    /\ others = [j \in Jobs |-> "none"]
    /\ code = [j \in Jobs |-> "none"]
    /\ pipes = [j \in Jobs |-> "off"]
    /\ meta = [j \in Jobs |-> NoMeta]
    /\ lock = NoJob
    /\ procs = {} /\ timeouts = {} /\ errors = {} /\ elapsed = {}
    /\ leased = {} /\ held = {} /\ asked = {} /\ captured = {}
    /\ record = [j \in Jobs |-> "none"]
    /\ verdict = [j \in Jobs |-> "none"]
    /\ start = [j \in Jobs |-> "idle"]
    /\ finish = [j \in Jobs |-> "off"]
    /\ watch = [j \in Jobs |-> "off"]
    /\ caller = [c \in Callers |-> Idle]
    /\ sweep = Off
    /\ faults = 0 /\ restarts = 0

-----------------------------------------------------------------------------
(* The processes of a job. *)

\* os.killpg(pid, 0) reaches a zombie, so an unreaped shell keeps its group.
GroupRunning(j) == leader[j] \in {"alive", "zombie"} \/ others[j] # "none"
PidRunning(j) == leader[j] = "alive"

\* TERM, the grace period and KILL: a command may catch TERM and exit with 0.
Kill(j) ==
    /\ leader' = [leader EXCEPT ![j] = IF @ = "alive" THEN "zombie" ELSE @]
    /\ others' = [others EXCEPT ![j] = "none"]
    /\ \E c \in {"zero", "nonzero"} :
          code' = [code EXCEPT ![j] = IF leader[j] = "alive" THEN c ELSE @]
    /\ UNCHANGED pipes

Reaped(j) == IF leader[j] = "zombie" THEN [leader EXCEPT ![j] = "reaped"] ELSE leader

Fault == faults < Faults /\ faults' = faults + 1

LeaderExits(j) ==
    /\ leader[j] = "alive"
    /\ leader' = [leader EXCEPT ![j] = "zombie"]
    /\ \E c \in {"zero", "nonzero"} : code' = [code EXCEPT ![j] = c]
    /\ \E o \in Leftovers : others' = [others EXCEPT ![j] = o]
    /\ UNCHANGED <<pipes, diskVars, memVars, leaseVars, boundVars, threadVars>>

OthersExit(j) ==
    /\ others[j] # "none"
    /\ others' = [others EXCEPT ![j] = "none"]
    /\ UNCHANGED <<leader, code, pipes, diskVars, memVars, leaseVars, boundVars,
                   threadVars>>

\* A reader thread ends when no process of the job holds its pipe.
PipeEnds(j) ==
    /\ pipes[j] = "open" /\ leader[j] # "alive" /\ others[j] # "piped"
    /\ pipes' = [pipes EXCEPT ![j] = "closed"]
    /\ UNCHANGED <<leader, others, code, diskVars, memVars, leaseVars,
                   boundVars, threadVars>>

\* drain: a write to the artifact fails, the reader kills the group.
CaptureFails(j) ==
    /\ pipes[j] = "open" /\ Fault
    /\ leader' = [leader EXCEPT ![j] = IF @ = "alive" THEN "zombie" ELSE @]
    /\ code' = [code EXCEPT ![j] = IF leader[j] = "alive" THEN "nonzero" ELSE @]
    /\ others' = [others EXCEPT ![j] = "none"]
    /\ pipes' = [pipes EXCEPT ![j] = "closed"]
    /\ errors' = errors \cup {j}
    /\ captured' = captured \cup {j}
    /\ UNCHANGED <<diskVars, procs, timeouts, elapsed, leaseVars, restarts,
                   threadVars>>

\* A child of an earlier server is reaped by init.
InitReaps(j) ==
    /\ start[j] = "lost" /\ leader[j] = "zombie"
    /\ leader' = Reaped(j)
    /\ UNCHANGED <<others, code, pipes, diskVars, memVars, leaseVars, boundVars,
                   threadVars>>

TimeElapses(j) ==
    /\ Saved(j) /\ j \notin elapsed
    /\ elapsed' = elapsed \cup {j}
    /\ UNCHANGED <<osVars, diskVars, procs, timeouts, errors, leaseVars,
                   boundVars, threadVars>>

-----------------------------------------------------------------------------
(* start_command_job *)

\* A command other than the held lock's owner may start; "wait" is not taking
\* the refusal and checking again.
CheckLock(j) ==
    /\ start[j] = "idle" /\ sweep.at = "off"
    /\ \/ /\ j \notin Keyed \/ lock = NoJob
          /\ start' = [start EXCEPT ![j] = "acquire"]
       \/ /\ j \in Keyed /\ lock # NoJob /\ PidRunning(lock)
          /\ start' = [start EXCEPT ![j] = "refused"]
       \/ /\ j \in Keyed /\ lock # NoJob /\ ~PidRunning(lock)
          /\ start' = [start EXCEPT ![j] = "unlink"]
    /\ UNCHANGED <<osVars, diskVars, memVars, leaseVars, boundVars, startRest>>

UnlinkStale(j) ==
    /\ start[j] = "unlink"
    /\ lock' = NoJob
    /\ start' = [start EXCEPT ![j] = "acquire"]
    /\ UNCHANGED <<osVars, meta, memVars, leaseVars, boundVars, startRest>>

\* Mutant of FreeLease: the limit is off by one.
FreeLeaseOffByOne == Cardinality(leased) <= Capacity

\* The semaphore of the heavy limiter.
FreeLease == Cardinality(leased) < Capacity

Acquire(j) ==
    /\ start[j] = "acquire"
    /\ \/ /\ FreeLease
          /\ leased' = leased \cup {j}
          /\ held' = held \cup {j}
          /\ record' = [record EXCEPT ![j] = "open"]
          /\ start' = [start EXCEPT ![j] = "open"]
       \/ /\ ~FreeLease
          /\ start' = [start EXCEPT ![j] = "refused"]
          /\ UNCHANGED <<leased, held, record>>
    /\ UNCHANGED <<osVars, diskVars, memVars, verdict, asked, boundVars,
                   startRest>>

\* fail_start, after the process (if any) is killed and reaped.
Undo(j, outcome) ==
    /\ start' = [start EXCEPT ![j] = "failed"]
    /\ leased' = leased \ {j}
    /\ held' = held \ {j}
    /\ record' = [record EXCEPT ![j] = outcome]
    /\ UNCHANGED <<pipes, diskVars, memVars, verdict, asked, captured, restarts,
                   startRest>>

\* The checkpoint before Popen, then Popen itself.
Launch(j) ==
    /\ start[j] = "open" /\ j \notin asked
    /\ leader' = [leader EXCEPT ![j] = "alive"]
    /\ start' = [start EXCEPT ![j] = "save"]
    /\ UNCHANGED <<others, code, pipes, diskVars, memVars, leaseVars, boundVars,
                   startRest>>

LaunchStopped(j) ==
    /\ start[j] = "open" /\ j \in asked
    /\ Undo(j, "cancelled")
    /\ UNCHANGED <<leader, others, code, faults>>

LaunchFails(j) ==
    /\ start[j] = "open" /\ Fault
    /\ Undo(j, "failed")
    /\ UNCHANGED <<leader, others, code>>

SaveMeta(j) ==
    /\ start[j] = "save"
    /\ meta' = [meta EXCEPT ![j] = NewMeta]
    /\ start' = [start EXCEPT ![j] = "register"]
    /\ UNCHANGED <<osVars, lock, memVars, leaseVars, boundVars, startRest>>

\* Mutant of SaveFails: the lease is released and the process is left alone.
SaveFailsUnkilled(j) ==
    /\ start[j] = "save" /\ Fault
    /\ Undo(j, "failed")
    /\ UNCHANGED <<leader, others, code>>

SaveFails(j) ==
    /\ start[j] = "save" /\ Fault
    /\ leader' = [leader EXCEPT ![j] = "reaped"]
    /\ others' = [others EXCEPT ![j] = "none"]
    /\ code' = [code EXCEPT ![j] = IF leader[j] = "alive" THEN "nonzero" ELSE @]
    /\ Undo(j, "failed")

Register(j) ==
    /\ start[j] = "register"
    /\ pipes' = [pipes EXCEPT ![j] = "open"]
    /\ procs' = procs \cup {j}
    /\ start' = [start EXCEPT ![j] = "finisher"]
    /\ UNCHANGED <<leader, others, code, diskVars, timeouts, errors, elapsed,
                   leaseVars, boundVars, startRest>>

StartFinisher(j) ==
    /\ start[j] = "finisher"
    /\ finish' = [finish EXCEPT ![j] = "wait"]
    /\ start' = [start EXCEPT ![j] = IF j \in Keyed THEN "lock" ELSE "watcher"]
    /\ UNCHANGED <<osVars, diskVars, memVars, leaseVars, watch, caller, sweep,
                   boundVars>>

WriteLock(j) ==
    /\ start[j] = "lock"
    /\ lock' = j
    /\ start' = [start EXCEPT ![j] = "watcher"]
    /\ UNCHANGED <<osVars, meta, memVars, leaseVars, boundVars, startRest>>

\* Mutant of WriteLockFails: the job that keeps running leaves JOB_PROCS.
WriteLockFailsForgotten(j) ==
    /\ start[j] = "lock" /\ Fault
    /\ start' = [start EXCEPT ![j] = "failed"]
    /\ procs' = procs \ {j}
    /\ UNCHANGED <<osVars, diskVars, timeouts, errors, elapsed, leaseVars, captured,
                   restarts, startRest>>

\* The exception leaves start_command_job: the job runs without a watcher.
WriteLockFails(j) ==
    /\ start[j] = "lock" /\ Fault
    /\ start' = [start EXCEPT ![j] = "failed"]
    /\ UNCHANGED <<osVars, diskVars, memVars, leaseVars, captured, restarts,
                   startRest>>

StartWatcher(j) ==
    /\ start[j] = "watcher"
    /\ watch' = [watch EXCEPT ![j] = "sleep"]
    /\ start' = [start EXCEPT ![j] = "returned"]
    /\ UNCHANGED <<osVars, diskVars, memVars, leaseVars, finish, caller, sweep,
                   boundVars>>

\* Registry.cancel on the job's record; its callback is one of the Cancellers.
AskCancel(j) ==
    /\ record[j] = "open" /\ j \notin asked
    /\ asked' = asked \cup {j}
    /\ UNCHANGED <<osVars, diskVars, memVars, leased, held, record, verdict,
                   boundVars, threadVars>>

-----------------------------------------------------------------------------
(* The finisher: start_command_job.finish_heavy_audit *)

FinisherWait(j) ==
    /\ finish[j] = "wait" /\ leader[j] # "alive"
    /\ leader' = Reaped(j)
    /\ finish' = [finish EXCEPT ![j] = "drain"]
    /\ UNCHANGED <<others, code, pipes, diskVars, memVars, leaseVars, boundVars,
                   finishRest>>

\* _finalize_process_drains: a second after the shell it kills what is left.
FinalizeDrains(j) ==
    /\ finish[j] = "drain"
    /\ \/ /\ pipes[j] = "closed"
          /\ finish' = [finish EXCEPT ![j] = "publish"]
          /\ UNCHANGED others
       \/ /\ pipes[j] = "open" /\ others[j] # "none"
          /\ others' = [others EXCEPT ![j] = "none"]
          /\ UNCHANGED finish
    /\ UNCHANGED <<leader, code, pipes, diskVars, memVars, leaseVars, boundVars,
                   finishRest>>

\* Mutant of FinalStatus: the two reasons to stop are mixed up.
FinalStatusSwapped(m, failed, rc) ==
    CASE failed                        -> "failed"
      [] ~failed /\ m.status \in Terminal -> m.status
      [] OTHER -> IF m.cancel_requested THEN "timed_out"
                  ELSE IF m.timed_out THEN "cancelled"
                  ELSE IF rc = "nonzero" THEN "failed" ELSE "completed"

\* A verdict already in the metadata stands, unless the capture failed.
FinalStatus(m, failed, rc) ==
    CASE failed                        -> "failed"
      [] ~failed /\ m.status \in Terminal -> m.status
      [] OTHER -> IF m.cancel_requested THEN "cancelled"
                  ELSE IF m.timed_out THEN "timed_out"
                  ELSE IF rc = "nonzero" THEN "failed" ELSE "completed"

\* Mutant of MayPublish: the finisher does not wait.
MayPublishAtOnce(j) == finish[j] = "publish"

\* While the watcher stops the job, the finisher waits for its event.
MayPublish(j) == finish[j] = "publish" /\ j \notin timeouts

Publish(j) ==
    /\ MayPublish(j)
    /\ LET status == FinalStatus(meta[j], j \in errors, code[j]) IN
          /\ meta' = [meta EXCEPT ![j].status = status]
          /\ verdict' = [verdict EXCEPT ![j] = status]
    /\ errors' = errors \ {j}
    /\ procs' = procs \ {j}
    /\ finish' = [finish EXCEPT ![j] = IF j \in Keyed THEN "clear" ELSE "end"]
    /\ UNCHANGED <<osVars, lock, timeouts, elapsed, leased, held, record, asked,
                   boundVars, finishRest>>

\* The write raises: the finally clause closes the record and frees the lease.
PublishFails(j) ==
    /\ MayPublish(j) /\ Fault
    /\ errors' = errors \ {j}
    /\ finish' = [finish EXCEPT ![j] = "done"]
    /\ record' = [record EXCEPT ![j] = "failed"]
    /\ leased' = leased \ {j}
    /\ held' = held \ {j}
    /\ UNCHANGED <<osVars, diskVars, procs, timeouts, elapsed, verdict, asked,
                   captured, restarts, finishRest>>

FinisherReadLock(j) ==
    /\ finish[j] = "clear"
    /\ finish' = [finish EXCEPT ![j] = IF lock = j THEN "unlink" ELSE "end"]
    /\ UNCHANGED <<osVars, diskVars, memVars, leaseVars, boundVars, finishRest>>

FinisherUnlink(j) ==
    /\ finish[j] = "unlink"
    /\ lock' = NoJob
    /\ finish' = [finish EXCEPT ![j] = "end"]
    /\ UNCHANGED <<osVars, meta, memVars, leaseVars, boundVars, finishRest>>

FinisherEnd(j) ==
    /\ finish[j] = "end"
    /\ record' = [record EXCEPT ![j] = verdict[j]]
    /\ leased' = leased \ {j}
    /\ held' = held \ {j}
    /\ finish' = [finish EXCEPT ![j] = "done"]
    /\ UNCHANGED <<osVars, diskVars, memVars, verdict, asked, boundVars,
                   finishRest>>

-----------------------------------------------------------------------------
(* The timeout watcher: _watch_job_timeout *)

WatcherMark(j) ==
    /\ watch[j] = "sleep" /\ j \in elapsed
    /\ \/ /\ ~GroupRunning(j)
          /\ watch' = [watch EXCEPT ![j] = "idle"]
          /\ UNCHANGED <<meta, timeouts>>
       \/ /\ GroupRunning(j)
          /\ timeouts' = timeouts \cup {j}
          /\ meta' = [meta EXCEPT ![j].status = "terminating", ![j].timed_out = TRUE]
          /\ watch' = [watch EXCEPT ![j] = "kill"]
    /\ UNCHANGED <<osVars, lock, procs, errors, elapsed, leaseVars, boundVars,
                   watchRest>>

WatcherMarkFails(j) ==
    /\ watch[j] = "sleep" /\ j \in elapsed /\ GroupRunning(j) /\ Fault
    /\ watch' = [watch EXCEPT ![j] = "idle"]
    /\ UNCHANGED <<osVars, diskVars, memVars, leaseVars, captured, restarts,
                   watchRest>>

WatcherKill(j) ==
    /\ watch[j] = "kill"
    /\ Kill(j)
    /\ watch' = [watch EXCEPT ![j] = "pop"]
    /\ UNCHANGED <<diskVars, memVars, leaseVars, boundVars, watchRest>>

WatcherPop(j) ==
    /\ watch[j] = "pop"
    /\ procs' = procs \ {j}
    /\ leader' = IF j \in procs THEN Reaped(j) ELSE leader
    /\ watch' = [watch EXCEPT ![j] = "final"]
    /\ UNCHANGED <<others, code, pipes, diskVars, timeouts, errors, elapsed,
                   leaseVars, boundVars, watchRest>>

\* Mutant of WatcherFinal: a status that no reader knows.
WatcherFinalMisspelt(j) ==
    /\ watch[j] = "final"
    /\ meta' = [meta EXCEPT ![j].status = "timeout", ![j].timed_out = TRUE]
    /\ watch' = [watch EXCEPT ![j] = IF lock = j THEN "unlink" ELSE "release"]
    /\ UNCHANGED <<osVars, lock, memVars, leaseVars, boundVars, watchRest>>

WatcherFinal(j) ==
    /\ watch[j] = "final"
    /\ meta' = [meta EXCEPT ![j].status = "timed_out", ![j].timed_out = TRUE]
    /\ watch' = [watch EXCEPT ![j] = IF lock = j THEN "unlink" ELSE "release"]
    /\ UNCHANGED <<osVars, lock, memVars, leaseVars, boundVars, watchRest>>

WatcherFinalFails(j) ==
    /\ watch[j] = "final" /\ Fault
    /\ watch' = [watch EXCEPT ![j] = "release"]
    /\ UNCHANGED <<osVars, diskVars, memVars, leaseVars, captured, restarts,
                   watchRest>>

WatcherUnlink(j) ==
    /\ watch[j] = "unlink"
    /\ lock' = NoJob
    /\ watch' = [watch EXCEPT ![j] = "release"]
    /\ UNCHANGED <<osVars, meta, memVars, leaseVars, boundVars, watchRest>>

\* Mutant of WatcherRelease: the event the finisher waits for is never set.
WatcherReleaseForgotten(j) ==
    /\ watch[j] = "release"
    /\ watch' = [watch EXCEPT ![j] = "expired"]
    /\ UNCHANGED <<osVars, diskVars, memVars, leaseVars, boundVars, watchRest>>

WatcherRelease(j) ==
    /\ watch[j] = "release"
    /\ timeouts' = timeouts \ {j}
    /\ watch' = [watch EXCEPT ![j] = "expired"]
    /\ UNCHANGED <<osVars, diskVars, procs, errors, elapsed, leaseVars,
                   boundVars, watchRest>>

-----------------------------------------------------------------------------
(* Calls of other threads. Each holds a copy of the metadata it read.        *)

To(c, at) == caller' = [caller EXCEPT ![c].at = at]
Return(c) == caller' = [caller EXCEPT ![c] = Idle]

\* _clear_lock reads the file and then unlinks it: between the two steps
\* another call may have replaced it.
CallUnlink(c) ==
    /\ caller[c].at \in {"c_unlink", "g_unlink"}
    /\ lock' = NoJob
    /\ To(c, IF caller[c].at = "c_unlink" THEN "c_save" ELSE "g_save")
    /\ UNCHANGED <<osVars, meta, memVars, leaseVars, boundVars, callRest>>

\* A write of metadata that fails ends the call with an exception.
CallWriteFails(c) ==
    /\ caller[c].at \in {"c_write", "c_save", "g_save"} /\ Fault
    /\ Return(c)
    /\ UNCHANGED <<osVars, diskVars, memVars, leaseVars, captured, restarts,
                   callRest>>

(* cancel_command_job *)

CancelRead(c, j) ==
    /\ caller[c].at = "idle" /\ (sweep.at = "off" \/ j \in asked)
    /\ Saved(j) /\ meta[j].status \notin Terminal
    /\ asked' = asked \cup {j}
    /\ caller' = [caller EXCEPT ![c] = [at |-> "c_write", job |-> j,
          copy |-> [meta[j] EXCEPT !.status = "terminating", !.cancel_requested = TRUE]]]
    /\ UNCHANGED <<osVars, diskVars, memVars, leased, held, record, verdict,
                   boundVars, callRest>>

CancelWrite(c) ==
    /\ caller[c].at = "c_write"
    /\ meta' = [meta EXCEPT ![caller[c].job] = caller[c].copy]
    /\ To(c, "c_kill")
    /\ UNCHANGED <<osVars, lock, memVars, leaseVars, boundVars, callRest>>

CancelKill(c) ==
    /\ caller[c].at = "c_kill"
    /\ Kill(caller[c].job)
    /\ To(c, "c_pop")
    /\ UNCHANGED <<diskVars, memVars, leaseVars, boundVars, callRest>>

\* Takes the Popen object, waits for it and reads the lock file.
CancelPop(c) ==
    LET j == caller[c].job IN
    /\ caller[c].at = "c_pop"
    /\ procs' = procs \ {j}
    /\ leader' = IF j \in procs THEN Reaped(j) ELSE leader
    /\ To(c, IF j \in Keyed /\ lock = j THEN "c_unlink" ELSE "c_save")
    /\ UNCHANGED <<others, code, pipes, diskVars, timeouts, errors, elapsed,
                   leaseVars, boundVars, callRest>>

CancelSave(c) ==
    /\ caller[c].at = "c_save"
    /\ meta' = [meta EXCEPT ![caller[c].job] = [caller[c].copy EXCEPT !.status = "cancelled"]]
    /\ Return(c)
    /\ UNCHANGED <<osVars, lock, memVars, leaseVars, boundVars, callRest>>

(* get_command_job, also called for each job list_command_jobs returns *)

GetRead(c, j) ==
    /\ caller[c].at = "idle" /\ sweep.at = "off" /\ Saved(j)
    /\ caller' = [caller EXCEPT ![c] = [at |-> "g_look", job |-> j, copy |-> meta[j]]]
    /\ UNCHANGED <<osVars, diskVars, memVars, leaseVars, boundVars, callRest>>

\* Mutant of StillRunning: a registered job is over as soon as its shell is.
StillRunningUnfinished(j, status) ==
    IF j \in procs THEN leader[j] = "alive" ELSE GroupRunning(j)

\* A job whose Popen object is registered runs until its verdict is written:
\* an exit seen by poll alone means it is finishing.
StillRunning(j, status) ==
    IF j \in procs THEN leader[j] = "alive" \/ status \notin Terminal
                   ELSE GroupRunning(j)

Late(j, status) ==
    \/ status = "timed_out"
    \/ status \in {"running", "terminating"} /\ j \in elapsed

\* JOB_PROCS.get and poll, then the verdict of the call.
GetLook(c) ==
    LET j == caller[c].job
        status == caller[c].copy.status
        running == StillRunning(j, status)
        late == Late(j, status)
        bad == (j \in procs /\ code[j] = "nonzero") \/ j \in errors
        Next(at, new) == caller' = [caller EXCEPT ![c].at = at, ![c].copy.status = new]
    IN
    /\ caller[c].at = "g_look"
    /\ leader' = IF j \in procs THEN Reaped(j) ELSE leader
    /\ \/ /\ late /\ running
          /\ Next("g_kill", "timed_out")
          /\ UNCHANGED errors
       \/ /\ ~(late /\ running) /\ (status = "failed" \/ late)
          /\ Next("g_clear", status)
          /\ UNCHANGED errors
       \/ /\ ~late /\ status # "failed" /\ running
          /\ Next("g_save", "running")
          /\ UNCHANGED errors
       \/ /\ ~late /\ status # "failed" /\ ~running
          /\ Next("g_clear", IF bad THEN "failed" ELSE "completed")
          /\ errors' = errors \ {j}
    /\ UNCHANGED <<others, code, pipes, diskVars, procs, timeouts, elapsed,
                   leaseVars, boundVars, callRest>>

GetKill(c) ==
    /\ caller[c].at = "g_kill"
    /\ Kill(caller[c].job)
    /\ To(c, "g_clear")
    /\ UNCHANGED <<diskVars, memVars, leaseVars, boundVars, callRest>>

GetReadLock(c) ==
    /\ caller[c].at = "g_clear"
    /\ To(c, IF caller[c].job \in Keyed /\ lock = caller[c].job
             THEN "g_unlink" ELSE "g_save")
    /\ UNCHANGED <<osVars, diskVars, memVars, leaseVars, boundVars, callRest>>

\* Under JOB_LOCK: a terminal verdict of the file wins over a live one of the
\* copy, and nothing else does.
GetSave(c) ==
    LET j == caller[c].job
        copy == caller[c].copy
    IN
    /\ caller[c].at = "g_save"
    /\ meta' = IF meta[j].status \in Terminal /\ copy.status \notin Terminal
               THEN meta ELSE [meta EXCEPT ![j] = copy]
    /\ Return(c)
    /\ UNCHANGED <<osVars, lock, memVars, leaseVars, boundVars, callRest>>

(* OutputStore.open -> prepare -> reconcile_stale_active *)

OpenRead(c, j) ==
    /\ caller[c].at = "idle" /\ sweep.at = "off"
    /\ meta[j].status \in {"running", "terminating"}
    /\ caller' = [caller EXCEPT ![c] = [at |-> "o_check", job |-> j, copy |-> meta[j]]]
    /\ UNCHANGED <<osVars, diskVars, memVars, leaseVars, boundVars, callRest>>

OpenReconcile(c) ==
    LET j == caller[c].job IN
    /\ caller[c].at = "o_check"
    /\ meta' = IF j \in held THEN meta
               ELSE [meta EXCEPT ![j] = [caller[c].copy EXCEPT !.status = "failed"]]
    /\ Return(c)
    /\ UNCHANGED <<osVars, lock, memVars, leaseVars, boundVars, callRest>>

-----------------------------------------------------------------------------
(* The end of the server, and the next one over the same directory. *)

\* Registry.shutdown signals every open record, then shutdown_command_jobs. The
\* server returns only after the worker of every request has left, so no start
\* is in progress.
SweepBegin ==
    /\ sweep.at = "off" /\ restarts < Restarts
    /\ \A j \in Jobs : start[j] \in {"idle", "returned", "refused", "failed", "lost"}
    /\ restarts' = restarts + 1
    /\ asked' = asked \cup {j \in Jobs : record[j] = "open"}
    /\ sweep' = [Off EXCEPT !.at = "next", !.todo = procs]
    /\ UNCHANGED <<osVars, diskVars, memVars, leased, held, record, verdict,
                   start, finish, watch, caller, captured, faults>>

Unfinished == {"running", "terminating"}

SweepRead(j) ==
    /\ sweep.at = "next" /\ j \in sweep.todo
    /\ sweep' = IF meta[j].status \in Unfinished
                THEN [sweep EXCEPT !.at = "kill", !.job = j, !.copy = meta[j]]
                ELSE [sweep EXCEPT !.todo = @ \ {j}]
    /\ UNCHANGED <<osVars, diskVars, memVars, leaseVars, start, finish, watch,
                   caller, boundVars>>

SweepKill ==
    /\ sweep.at = "kill"
    /\ Kill(sweep.job)
    /\ sweep' = [sweep EXCEPT !.at = "write"]
    /\ UNCHANGED <<diskVars, memVars, leaseVars, start, finish, watch, caller,
                   boundVars>>

SweepWrite ==
    LET j == sweep.job IN
    /\ sweep.at = "write"
    /\ lock' = IF j \in Keyed /\ lock = j THEN NoJob ELSE lock
    /\ meta' = [meta EXCEPT ![j] = [sweep.copy EXCEPT !.status = "cancelled"]]
    /\ sweep' = [Off EXCEPT !.at = "next", !.todo = sweep.todo \ {j}]
    /\ UNCHANGED <<osVars, memVars, leaseVars, start, finish, watch, caller,
                   boundVars>>

\* The process is gone with its threads and its memory; its children are not.
NewServer ==
    /\ leader' = [j \in Jobs |-> IF leader[j] = "zombie" THEN "reaped" ELSE leader[j]]
    /\ pipes' = [j \in Jobs |-> IF pipes[j] = "open" THEN "closed" ELSE pipes[j]]
    /\ procs' = {} /\ timeouts' = {} /\ errors' = {}
    /\ leased' = {} /\ held' = {}
    /\ record' = [j \in Jobs |-> "none"]
    /\ start' = [j \in Jobs |-> IF start[j] = "idle" THEN "idle" ELSE "lost"]
    /\ finish' = [j \in Jobs |-> IF finish[j] = "off" THEN "off" ELSE "lost"]
    /\ watch' = [j \in Jobs |-> IF watch[j] = "off" THEN "off" ELSE "lost"]
    /\ caller' = [c \in Callers |-> Idle]
    /\ sweep' = Off
    /\ UNCHANGED <<others, code, diskVars, elapsed, verdict, asked, captured,
                   faults>>

Exit ==
    /\ sweep.at = "next" /\ sweep.todo = {}
    /\ NewServer
    /\ UNCHANGED restarts

Crash ==
    /\ sweep.at = "off" /\ restarts < Restarts
    /\ restarts' = restarts + 1
    /\ NewServer

-----------------------------------------------------------------------------
StartStep(j) ==
    \/ CheckLock(j) \/ UnlinkStale(j) \/ Acquire(j)
    \/ Launch(j) \/ LaunchStopped(j) \/ LaunchFails(j)
    \/ SaveMeta(j) \/ SaveFails(j) \/ Register(j) \/ StartFinisher(j)
    \/ WriteLock(j) \/ WriteLockFails(j) \/ StartWatcher(j)

FinishStep(j) ==
    \/ FinisherWait(j) \/ FinalizeDrains(j) \/ Publish(j) \/ PublishFails(j)
    \/ FinisherReadLock(j) \/ FinisherUnlink(j) \/ FinisherEnd(j)

WatchStep(j) ==
    \/ WatcherMark(j) \/ WatcherMarkFails(j) \/ WatcherKill(j) \/ WatcherPop(j)
    \/ WatcherFinal(j) \/ WatcherFinalFails(j) \/ WatcherUnlink(j) \/ WatcherRelease(j)

ProcessStep(j) ==
    \/ LeaderExits(j) \/ OthersExit(j) \/ PipeEnds(j) \/ CaptureFails(j) \/ InitReaps(j)
    \/ TimeElapses(j) \/ AskCancel(j)

CallBegin ==
    \E j \in Jobs : \/ \E c \in Cancellers : CancelRead(c, j)
                    \/ \E c \in Getters : GetRead(c, j)
                    \/ \E c \in Openers : OpenRead(c, j)

CallStep(c) ==
    \/ CallUnlink(c) \/ CallWriteFails(c)
    \/ CancelWrite(c) \/ CancelKill(c) \/ CancelPop(c) \/ CancelSave(c)
    \/ GetLook(c) \/ GetKill(c) \/ GetReadLock(c) \/ GetSave(c)
    \/ OpenReconcile(c)

ServerStep ==
    \/ SweepBegin \/ SweepKill \/ SweepWrite \/ Exit \/ Crash
    \/ \E j \in Jobs : SweepRead(j)

Next ==
    \/ \E j \in Jobs : StartStep(j) \/ FinishStep(j) \/ WatchStep(j) \/ ProcessStep(j)
    \/ CallBegin
    \/ \E c \in Callers : CallStep(c)
    \/ ServerStep

Spec == Init /\ [][Next]_vars

\* Threads run, time passes, and a pipe without a writer ends. Nothing makes a
\* command exit or a client call.
FairSpec ==
    /\ Spec
    /\ \A j \in Jobs : /\ WF_vars(StartStep(j) /\ start[j] # "idle")
                       /\ WF_vars(FinishStep(j))
                       /\ WF_vars(WatchStep(j))
                       /\ WF_vars(TimeElapses(j))
                       /\ WF_vars(PipeEnds(j))
    /\ \A c \in Callers : WF_vars(CallStep(c))

-----------------------------------------------------------------------------
(* Properties *)

Live(j) == leader[j] = "alive" /\ start[j] # "lost"
Undecided(j) == finish[j] \in {"off", "wait", "drain", "publish"} /\ start[j] # "lost"

\* A running command holds its lease and its artifacts until its process is
\* reaped, however its start or its finisher fails: both are released after
\* proc.wait() in finish_heavy_audit and after the kill in fail_start.
RunningIsLeased == \A j \in Jobs : Live(j) => j \in leased /\ j \in held

\* At most max_heavy_operations commands of this server run at once: the limit
\* "is never silently bypassed" (docs/BOUNDED_OUTPUT.md).
HeavyBound == Cardinality({j \in Jobs : Live(j)}) <= Capacity

\* The metadata of a job blames its timeout or a cancellation only when there
\* was one, whatever stale copies get_command_job and cancel_command_job write.
VerdictHasCause ==
    \A j \in Jobs : /\ meta[j].status = "timed_out" => j \in elapsed
                    /\ meta[j].status = "cancelled" => j \in asked \/ restarts > 0

\* A job nobody cancelled is not reported completed or failed before its finisher
\* has the whole output: neither get_command_job, seeing the shell exit, nor
\* reconcile_stale_active publishes a verdict of its own.
NoEarlyVerdict ==
    \A j \in Jobs : Undecided(j) /\ j \notin asked
                       => meta[j].status \notin {"completed", "failed"}

\* A command the watcher killed is reported as timed out by its finisher, not
\* by the exit code of the kill, while metadata can be written: this is what
\* the finisher waits for in JOB_TIMEOUT_EVENTS.
TimeoutReported ==
    [][\A j \in Jobs : Publish(j) /\ watch[j] \in {"pop", "final", "unlink", "release", "expired"}
                          /\ j \notin asked /\ j \notin errors /\ faults = 0
                       => verdict'[j] = "timed_out"]_vars

\* Every started job ends, with the command running forever and callers polling:
\* the watcher stops it and the finisher closes its record and frees its lease.
JobEnds ==
    \A j \in Jobs : start[j] = "returned" ~> j \notin leased /\ record[j] # "open"

\* An orderly exit leaves no command of this server running, whichever calls,
\* finishers and watchers shutdown_command_jobs meets.
ShutdownStops == [][Exit => \A j \in Jobs : ~Live(j)]_vars

(* What the documents and tests say and the code does not do. *)

\* server.py, concurrency_key: "Jobs with the same key cannot start in parallel
\* silently." The check of the lock and its write are far apart.
NoDuplicate == \A i, j \in Keyed : Live(i) /\ Live(j) => i = j

\* commands_edge_test.go: a job cancel_command_job has cancelled is inspected as
\* "cancelled". get_command_job turns it into "completed".
CancelledStays ==
    [][\A j \in Jobs : meta[j].status = "cancelled" /\ finish[j] = "done"
                          => meta'[j].status = "cancelled"]_vars

\* test_bounded_output.py: polled while it runs, a job whose capture fails ends as
\* "failed". A poll that began before the verdict overwrites it.
CaptureFailureShown ==
    \A j \in Jobs : meta[j].status = "completed" => j \in asked \/ j \notin captured

\* test_prepare_cannot_reconcile_same_runtime_finishing_job: only jobs of earlier
\* servers are reconciled. The copy is read before the ownership is checked.
FinishedNotReconciled ==
    \A j \in Jobs : meta[j].status = "failed" /\ restarts = 0
                       => code[j] = "nonzero" \/ j \in captured

=============================================================================
