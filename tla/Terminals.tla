------------------------------ MODULE Terminals ------------------------------
(***************************************************************************)
(* Persistent terminal sessions (terminal_tools.py).  A session has a      *)
(* thread that starts it, a reader that captures the output of the         *)
(* pseudo terminal and cleans up, and any number of threads that close it: *)
(* clients, the idle watcher, the cancel callback of its operation and     *)
(* shutdown.  Descriptors are numbers the kernel gives out again as soon   *)
(* as they are closed.  Leases come from the pool of LeasePool; the        *)
(* limiter that implements it is HeavyLimiter.  What a shell has started   *)
(* may outlive it and keep the other side of the pseudo terminal open: the *)
(* reader waits for it, which nobody ends when it has left the group.      *)
(***************************************************************************)
EXTENDS Naturals, FiniteSets

CONSTANTS Sessions,     \* the sessions that may be started, one start each
          Closers,      \* threads that close sessions
          Writers,      \* threads that write to or resize sessions
          MaxSessions,  \* max_terminal_sessions
          Capacity,     \* max_heavy_operations
          FdCount,      \* descriptors are the numbers 1..FdCount
          Forking,      \* the sessions whose shells start processes that may outlive them
          NoSession

ASSUME TerminalsAssumption ==
    /\ MaxSessions \in Nat \ {0}
    /\ Capacity \in Nat \ {0}
    /\ FdCount \in Nat
    /\ IsFiniteSet(Sessions)
    /\ NoSession \notin Sessions
    /\ Sessions \cap Closers = {}

VARIABLES
    start,    \* start[s]: where the thread that starts s is
    reader,   \* reader[s]: where the reader of s is
    fault,    \* fault[s]: the reader has a capture error
    status,   \* status[s]: the status field of the session
    alive,    \* alive[s]: its shell runs
    left,     \* left[s]: what the shell has left on its terminal, in its process group or in its own
    event,    \* event[s]: the cancel event of its operation
    leases,   \* the sessions that hold a lease
    fd,       \* fd[s]: its master_fd, 0 when there is none
    owner,    \* owner[n]: whose pseudo terminal the descriptor n is
    at,       \* at[k]: where a closing thread is; the starter of s may be one
    on,       \* on[k]: the session it closes
    todo,     \* todo[k]: what shutdown still has to close
    wrote,    \* wrote[w]: the session the writer w writes to
    number    \* number[w]: the descriptor it has read

threads == <<start, reader, fault>>
closing == <<at, on, todo>>
writing == <<wrote, number>>
fds     == <<fd, owner>>
shell   == <<alive, left>>
vars == <<start, reader, fault, status, alive, left, event, leases, fd, owner,
          at, on, todo, wrote, number>>

Fds     == 1..FdCount
Agents  == Closers \union Sessions
Active  == {"running", "closing"}
Final   == {"exited", "failed", "closed"}

Pool == INSTANCE LeasePool WITH Calls <- Sessions, holders <- leases

Init ==
    /\ start = [s \in Sessions |-> "idle"]
    /\ reader = [s \in Sessions |-> "none"]
    /\ fault = [s \in Sessions |-> FALSE]
    /\ status = [s \in Sessions |-> "none"]
    /\ alive = [s \in Sessions |-> FALSE]
    /\ left = [s \in Sessions |-> {}]
    /\ event = [s \in Sessions |-> FALSE]
    /\ Pool!Init
    /\ fd = [s \in Sessions |-> 0]
    /\ owner = [n \in Fds |-> NoSession]
    /\ at = [k \in Agents |-> "idle"]
    /\ on = [k \in Agents |-> NoSession]
    /\ todo = [k \in Agents |-> {}]
    /\ wrote = [w \in Writers |-> NoSession]
    /\ number = [w \in Writers |-> 0]

ActiveSessions == {s \in Sessions : status[s] \in Active}

-----------------------------------------------------------------------------
(* start_terminal_session                                                  *)

\* The limit is checked under the lock, and the lock is released.
CheckLimit(s) ==
    /\ start[s] = "idle"
    /\ start' = [start EXCEPT ![s] =
                    IF Cardinality(ActiveSessions) < MaxSessions THEN "checked" ELSE "refused"]
    /\ UNCHANGED <<reader, fault, status, shell, event, leases, fds, closing, writing>>

Lease(s) ==
    /\ start[s] = "checked"
    /\ \/ /\ Pool!Take(s)
          /\ start' = [start EXCEPT ![s] = "leased"]
       \/ /\ Cardinality(leases) = Capacity
          /\ start' = [start EXCEPT ![s] = "refused"]
          /\ UNCHANGED leases
    /\ UNCHANGED <<reader, fault, status, shell, event, fds, closing, writing>>

\* openpty takes the lowest free number; the shell is started on the other
\* side of it.
Spawn(s) ==
    /\ start[s] = "leased"
    /\ \E n \in Fds :
          /\ owner[n] = NoSession
          /\ \A i \in 1..(n - 1) : owner[i] # NoSession
          /\ fd' = [fd EXCEPT ![s] = n]
          /\ owner' = [owner EXCEPT ![n] = s]
    /\ alive' = [alive EXCEPT ![s] = TRUE] /\ UNCHANGED left
    /\ start' = [start EXCEPT ![s] = "spawned"]
    /\ UNCHANGED <<reader, fault, status, event, leases, closing, writing>>

\* OSError and OperationCancelled on the way to the shell are caught; any
\* other exception passes and the lease stays.
SpawnFails(s) ==
    /\ start[s] = "leased"
    /\ \/ /\ Pool!Give(s)
          /\ start' = [start EXCEPT ![s] = "refused"]
       \/ /\ start' = [start EXCEPT ![s] = "leaked"]
          /\ UNCHANGED leases
    /\ UNCHANGED <<reader, fault, status, shell, event, fds, closing, writing>>

Insert(s) ==
    /\ start[s] = "spawned"
    /\ status' = [status EXCEPT ![s] = "running"]
    /\ start' = [start EXCEPT ![s] = "listed"]
    /\ UNCHANGED <<reader, fault, shell, event, leases, fds, closing, writing>>

\* set_cancel hands the operation a callback that closes the session; when
\* the operation is cancelled already, this thread closes it.
SetCancel(s) ==
    /\ start[s] = "listed"
    /\ start' = [start EXCEPT ![s] = "armed"]
    /\ IF event[s]
       THEN /\ at' = [at EXCEPT ![s] = "enter"]
            /\ on' = [on EXCEPT ![s] = s]
       ELSE UNCHANGED <<at, on>>
    /\ UNCHANGED <<reader, fault, status, shell, event, leases, fds, todo, writing>>

\* _persist, then the two threads.  A session whose metadata cannot be
\* written stays in the table without them.
StartThreads(s) ==
    /\ start[s] = "armed" /\ at[s] = "idle"
    /\ \/ /\ start' = [start EXCEPT ![s] = "started"]
          /\ reader' = [reader EXCEPT ![s] = "reading"]
       \/ /\ start' = [start EXCEPT ![s] = "orphaned"]
          /\ UNCHANGED reader
    /\ UNCHANGED <<fault, status, shell, event, leases, fds, closing, writing>>

-----------------------------------------------------------------------------
(* _reader and _reader_with_lifecycle                                      *)

\* Mutant of CloseFd: the number stays in the session.
CloseFdKept(s) ==
    /\ UNCHANGED fd
    /\ owner' = IF fd[s] = 0 THEN owner ELSE [owner EXCEPT ![fd[s]] = NoSession]

\* _close_terminal_fd: the number is swapped out under the session's lock.
CloseFd(s) ==
    /\ fd' = [fd EXCEPT ![s] = 0]
    /\ owner' = IF fd[s] = 0 THEN owner ELSE [owner EXCEPT ![fd[s]] = NoSession]

\* A shell that ends leaves some of the processes it has started, those of its group
\* unless the group was killed with it.
Leaves(s, kept) ==
    /\ alive' = [alive EXCEPT ![s] = FALSE]
    /\ \E some \in SUBSET kept :
          /\ s \notin Forking => some = {}
          /\ left' = [left EXCEPT ![s] = some]

\* SIGKILL to the process group; _terminate_process_group comes to it unless the group ends before.
KillGroup(s) ==
    IF alive[s] THEN Leaves(s, {"own"})
    ELSE left' = [left EXCEPT ![s] = @ \ {"group"}] /\ UNCHANGED alive

\* A read returns nothing once no process has the terminal open.
ReadEnds(s) ==
    /\ reader[s] = "reading" /\ ~ alive[s] /\ left[s] = {}
    /\ reader' = [reader EXCEPT ![s] = "waiting"]
    /\ UNCHANGED <<start, fault, status, shell, event, leases, fds, closing, writing>>

\* Mutant of CaptureFails: the shell is not killed first.
CaptureFailsAlive(s) ==
    /\ reader[s] = "reading"
    /\ reader' = [reader EXCEPT ![s] = "waiting"]
    /\ fault' = [fault EXCEPT ![s] = TRUE]
    /\ CloseFd(s)
    /\ UNCHANGED <<start, status, shell, event, leases, closing, writing>>

\* Writing the artifact or the metadata fails: kill the shell, close.
CaptureFails(s) ==
    /\ reader[s] = "reading"
    /\ reader' = [reader EXCEPT ![s] = "waiting"]
    /\ fault' = [fault EXCEPT ![s] = TRUE]
    /\ KillGroup(s)
    /\ CloseFd(s)
    /\ UNCHANGED <<start, status, event, leases, closing, writing>>

\* Mutant of ReaderRaises: the shell is not killed first.
ReaderRaisesAlive(s) ==
    /\ reader[s] \in {"reading", "ending"}
    /\ reader' = [reader EXCEPT ![s] = "releasing"]
    /\ status' = [status EXCEPT ![s] = "failed"]
    /\ CloseFd(s)
    /\ UNCHANGED <<start, fault, shell, event, leases, closing, writing>>

\* The artifact cannot be opened, or the last metadata or the audit line
\* cannot be written: the lifecycle around the reader kills, closes and
\* writes "failed".
ReaderRaises(s) ==
    /\ reader[s] \in {"reading", "ending"}
    /\ reader' = [reader EXCEPT ![s] = "releasing"]
    /\ status' = [status EXCEPT ![s] = "failed"]
    /\ KillGroup(s)
    /\ CloseFd(s)
    /\ UNCHANGED <<start, fault, event, leases, closing, writing>>

\* Mutant of SetStatus: a status nobody knows.
SetStatusUntyped(s) ==
    /\ reader[s] = "waiting" /\ ~ alive[s]
    /\ status' = [status EXCEPT ![s] = "terminated"]
    /\ fault' = [fault EXCEPT ![s] = FALSE]
    /\ reader' = [reader EXCEPT ![s] = "ending"]
    /\ UNCHANGED <<start, shell, event, leases, fds, closing, writing>>

SetStatus(s) ==
    /\ reader[s] = "waiting" /\ ~ alive[s]
    /\ status' = [status EXCEPT ![s] = CASE fault[s] -> "failed"
                                        [] status[s] \in {"closed", "failed"} -> @
                                        [] OTHER -> "exited"]
    /\ reader' = [reader EXCEPT ![s] = "ending"]
    /\ fault' = [fault EXCEPT ![s] = FALSE]
    /\ UNCHANGED <<start, shell, event, leases, fds, closing, writing>>

\* After the audit line the descriptor goes and the operation is finished.
ReaderEnds(s) ==
    /\ reader[s] = "ending"
    /\ CloseFd(s)
    /\ reader' = [reader EXCEPT ![s] = "releasing"]
    /\ UNCHANGED <<start, fault, status, shell, event, leases, closing, writing>>

\* The reader releases, and its lifecycle releases again without effect.
Release(s) ==
    /\ reader[s] = "releasing"
    /\ Pool!Give(s)
    /\ reader' = [reader EXCEPT ![s] = "done"]
    /\ UNCHANGED <<start, fault, status, shell, event, fds, closing, writing>>

-----------------------------------------------------------------------------
(* close_terminal_session, by whoever calls it                             *)

StartClose(k, s) ==
    /\ k \in Closers /\ at[k] = "idle"
    /\ status[s] # "none"
    /\ at' = [at EXCEPT ![k] = "enter"]
    /\ on' = [on EXCEPT ![k] = s]
    /\ UNCHANGED <<threads, status, shell, event, leases, fds, todo, writing>>

\* The idle watcher, started with the reader, closes a quiet session.
IdleExpires(k, s) ==
    /\ start[s] = "started" /\ status[s] = "running"
    /\ StartClose(k, s)

\* Registry.cancel of the session's operation sets its event, and runs the
\* callback in a thread when it is known.
CancelOperation(k, s) ==
    /\ k \in Closers /\ at[k] = "idle"
    /\ s \in leases /\ ~ event[s] /\ reader[s] \notin {"releasing", "done"}
    /\ event' = [event EXCEPT ![s] = TRUE]
    /\ IF start[s] \in {"armed", "started", "orphaned"}
       THEN /\ at' = [at EXCEPT ![k] = "enter"]
            /\ on' = [on EXCEPT ![k] = s]
       ELSE UNCHANGED <<at, on>>
    /\ UNCHANGED <<threads, status, shell, leases, fds, todo, writing>>

\* shutdown_terminal_sessions closes one after the other what was active.
Shutdown(k) ==
    /\ k \in Closers /\ at[k] = "idle" /\ todo[k] = {}
    /\ ActiveSessions # {}
    /\ todo' = [todo EXCEPT ![k] = ActiveSessions]
    /\ UNCHANGED <<threads, status, shell, event, leases, fds, at, on, writing>>

ShutdownNext(k) ==
    /\ at[k] = "idle"
    /\ \E s \in todo[k] :
          /\ todo' = [todo EXCEPT ![k] = @ \ {s}]
          /\ at' = [at EXCEPT ![k] = "enter"]
          /\ on' = [on EXCEPT ![k] = s]
    /\ UNCHANGED <<threads, status, shell, event, leases, fds, writing>>

\* Mutant of EnterClose: the status is not looked at.
EnterCloseBlind(k) ==
    LET s == on[k] IN
    /\ at[k] = "enter"
    /\ status' = [status EXCEPT ![s] = "closing"]
    /\ event' = [event EXCEPT ![s] = TRUE]
    /\ at' = [at EXCEPT ![k] = "signal"]
    /\ UNCHANGED <<threads, shell, leases, fds, on, todo, writing>>

\* Under the session's lock: a session that has ended is left alone.
EnterClose(k) ==
    LET s == on[k] IN
    /\ at[k] = "enter"
    /\ IF status[s] \in Final
       THEN /\ at' = [at EXCEPT ![k] = "idle"]
            /\ on' = [on EXCEPT ![k] = NoSession]
            /\ UNCHANGED <<status, event>>
       ELSE /\ status' = [status EXCEPT ![s] = "closing"]
            /\ event' = [event EXCEPT ![s] = TRUE]
            /\ at' = [at EXCEPT ![k] = "signal"]
            /\ UNCHANGED on
    /\ UNCHANGED <<threads, shell, leases, fds, todo, writing>>

\* SIGTERM and SIGKILL end the group; SIGINT and SIGHUP, which a client may ask for, may leave the
\* shell alive, or others of its group.
Signal(k) ==
    /\ at[k] = "signal"
    /\ at' = [at EXCEPT ![k] = "escalate"]
    /\ \/ KillGroup(on[k])
       \/ alive[on[k]] /\ Leaves(on[k], {"group", "own"})
       \/ UNCHANGED shell
    /\ UNCHANGED <<threads, status, event, leases, fds, on, todo, writing>>

\* The wait is for the shell; only when it is there at the deadline is its group killed.
Escalate(k) ==
    /\ at[k] = "escalate"
    /\ at' = [at EXCEPT ![k] = "finish"]
    /\ \/ alive[on[k]] /\ KillGroup(on[k])
       \/ ~ alive[on[k]] /\ UNCHANGED shell
    /\ UNCHANGED <<threads, status, event, leases, fds, on, todo, writing>>

\* Mutant of FinishClose: the status is left to the reader, which may have
\* passed already.
FinishCloseOpen(k) ==
    /\ at[k] = "finish"
    /\ status' = [status EXCEPT ![on[k]] = "closing"]
    /\ at' = [at EXCEPT ![k] = "idle"]
    /\ on' = [on EXCEPT ![k] = NoSession]
    /\ UNCHANGED <<threads, shell, event, leases, fds, todo, writing>>

FinishClose(k) ==
    /\ at[k] = "finish"
    /\ status' = [status EXCEPT ![on[k]] = "closed"]
    /\ at' = [at EXCEPT ![k] = "idle"]
    /\ on' = [on EXCEPT ![k] = NoSession]
    /\ UNCHANGED <<threads, shell, event, leases, fds, todo, writing>>

ShellExits(s) ==
    /\ alive[s] /\ Leaves(s, {"group", "own"})
    /\ UNCHANGED <<threads, status, event, leases, fds, closing, writing>>

\* Another process closes the terminal; it need not.
OthersExit(s) ==
    /\ \E p \in left[s] : left' = [left EXCEPT ![s] = @ \ {p}]
    /\ UNCHANGED <<threads, status, alive, event, leases, fds, closing, writing>>

-----------------------------------------------------------------------------
(* write_terminal_session checks the status, reads the descriptor and      *)
(* writes, all without the session's lock; resize uses it the same way.    *)
(* Between the two reads the descriptor can only become -1.                *)

WriteReadFd(w, s) ==
    /\ number[w] = 0
    /\ status[s] = "running" /\ fd[s] # 0
    /\ wrote' = [wrote EXCEPT ![w] = s]
    /\ number' = [number EXCEPT ![w] = fd[s]]
    /\ UNCHANGED <<threads, status, shell, event, leases, fds, closing>>

Write(w) ==
    /\ number[w] # 0
    /\ number' = [number EXCEPT ![w] = 0]
    /\ wrote' = [wrote EXCEPT ![w] = NoSession]
    /\ UNCHANGED <<threads, status, shell, event, leases, fds, closing>>

StarterStep(s) ==
    \/ CheckLimit(s) \/ Lease(s) \/ Spawn(s) \/ SpawnFails(s) \/ Insert(s)
    \/ SetCancel(s) \/ StartThreads(s)

ReaderGoes(s) == ReadEnds(s) \/ SetStatus(s) \/ ReaderEnds(s) \/ Release(s)
ReaderStep(s) == ReaderGoes(s) \/ CaptureFails(s) \/ ReaderRaises(s)

CloseStep(k) == ShutdownNext(k) \/ EnterClose(k) \/ Signal(k) \/ Escalate(k) \/ FinishClose(k)

Next ==
    \/ \E s \in Sessions : StarterStep(s) \/ ReaderStep(s) \/ ShellExits(s) \/ OthersExit(s)
    \/ \E k \in Agents : CloseStep(k) \/ Shutdown(k)
    \/ \E k \in Closers, s \in Sessions : StartClose(k, s) \/ IdleExpires(k, s) \/ CancelOperation(k, s)
    \/ \E w \in Writers : Write(w) \/ \E s \in Sessions : WriteReadFd(w, s)

Spec == Init /\ [][Next]_vars

\* Threads that have been started run; a shell need not exit, what it has
\* started need not either, nobody need close a session, and no capture need
\* fail.  The starter of a session, the close it may run itself and the
\* reader follow each other.
FairSpec ==
    /\ Spec
    /\ \A s \in Sessions : WF_vars(StarterStep(s) \/ CloseStep(s) \/ ReaderGoes(s))
    /\ \A k \in Closers : WF_vars(CloseStep(k))

-----------------------------------------------------------------------------
TypeOK ==
    /\ start \in [Sessions -> {"idle", "refused", "checked", "leased", "leaked", "spawned",
                               "listed", "armed", "started", "orphaned"}]
    /\ reader \in [Sessions -> {"none", "reading", "waiting", "ending", "releasing", "done"}]
    /\ fault \in [Sessions -> BOOLEAN]
    /\ status \in [Sessions -> {"none"} \union Active \union Final]
    /\ alive \in [Sessions -> BOOLEAN]
    /\ left \in [Sessions -> SUBSET {"group", "own"}]
    /\ event \in [Sessions -> BOOLEAN]
    /\ leases \subseteq Sessions
    /\ fd \in [Sessions -> Fds \union {0}]
    /\ owner \in [Fds -> Sessions \union {NoSession}]
    /\ at \in [Agents -> {"idle", "enter", "signal", "escalate", "finish"}]
    /\ on \in [Agents -> Sessions \union {NoSession}]
    /\ todo \in [Agents -> SUBSET Sessions]
    /\ wrote \in [Writers -> Sessions \union {NoSession}]
    /\ number \in [Writers -> Fds \union {0}]

\* A session that is listed as running or closing, and any live shell, holds
\* a lease: however many starts pass the check of the session limit at once,
\* no more shells run than the heavy limit allows.
ActiveHoldsLease ==
    \A s \in Sessions : status[s] \in Active \/ alive[s] => s \in leases

\* The descriptor a session refers to is its own pseudo terminal, never one
\* that was given out again: each number is closed once by its reader.
DescriptorIsOwn ==
    \A s \in Sessions : fd[s] # 0 => owner[fd[s]] = s

\* The bytes of a writer reach another session's terminal, or nothing, only
\* when the shell they were meant for has ended: while it runs, nobody closes
\* its descriptor, although the writer holds no lock.
StrayOnlyAfterEnd ==
    \A w \in Writers : number[w] # 0 /\ alive[wrote[w]] => owner[number[w]] = wrote[w]

\* No thread brings a session that has ended back to life, by a closer that comes late and writes
\* "closing" over the status the reader set, nor one that is on its way to its end.
EndIsEnd(s) ==
    /\ status[s] \in Final => status'[s] \in Final
    /\ status[s] = "closing" => status'[s] \in {"closing"} \union Final
EndedStaysEnded == [][\A s \in Sessions : EndIsEnd(s)]_vars

\* A failure that the reader has recorded stays recorded.
FailureStays ==
    [][\A s \in Sessions : status[s] = "failed" => status'[s] = "failed"]_vars

\* No more sessions are active than max_terminal_sessions.
SessionLimit == Cardinality(ActiveSessions) <= MaxSessions

\* A session that somebody closes ends, and one that has ended gives its lease back as soon as no
\* process has its terminal open, unless its start failed after the shell was running: it does not
\* stay on its way for ever.  The answer "closed" alone does not give back: a process that has left
\* the group of the shell, or survives a gentle signal to it, keeps the reader waiting and the lease
\* taken.
Owing(s) ==
    \/ status[s] = "closing"
    \/ status[s] \in Final /\ left[s] = {} /\ s \in leases /\ start[s] # "orphaned"
ClosedGivesBack == \A s \in Sessions : []<>~Owing(s)

\* The types, and what the reader, the closers, the writers and the shutdown keep up together, none of
\* them with a lock for the whole of its work.
SessionsSafe == TypeOK /\ ActiveHoldsLease /\ DescriptorIsOwn /\ StrayOnlyAfterEnd

\* The end of a session is its end, and it gives back what the session had.
SessionsEnd == EndedStaysEnded /\ ClosedGivesBack
=============================================================================
