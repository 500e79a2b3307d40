----------------------------- MODULE Subprocess -----------------------------
(***************************************************************************)
(* run_bounded of bounded_subprocess.py: one call that starts a child,     *)
(* feeds its input, drains its two pipes into previews or artifacts, waits *)
(* with a deadline and gives everything back.  The caller, two readers, a  *)
(* writer, a client that cancels, and the tree of processes interleave.    *)
(*                                                                         *)
(* One heir stands for all descendants of the child: it is kin (in the     *)
(* child's process group), mute (kin that has closed its pipes) or a stray *)
(* (in a session of its own).  A chunk stands for any output.              *)
(***************************************************************************)
EXTENDS Naturals, FiniteSets

CONSTANTS
    Systems,        \* of "posix" and "nt"
    StraySystems,   \* the systems on which a descendant may leave the group
    Slow,           \* may a reader with work to do miss the deadline of a join?
    Chunks,         \* bound: chunks that the tree writes into one pipe
    Faults          \* bound: system calls of the server that fail

ASSUME SubprocessAssumption ==
    /\ Systems \subseteq {"posix", "nt"} /\ StraySystems \subseteq Systems
    /\ Slow \in BOOLEAN
    /\ Chunks \in Nat \ {0}
    /\ Faults \in Nat

Pipes == {"stdout", "stderr"}

VARIABLES
    system,     \* os.name
    asks,       \* what the caller passes: an input text, settings for an artifact
    pc,         \* where the caller is
    child,      \* the process
    heir,       \* its descendants
    job,        \* the job object of Windows
    made,       \* chunks written by the tree, for each pipe
    got,        \* chunks kept by the readers
    reader,     \* the thread that drains a pipe
    shut,       \* the pipes whose end of ours is closed
    writer,     \* the thread that feeds the child
    fd,         \* the descriptor number of the writer: whose it is
    artifact,   \* the OutputArtifact of each stream, and the manifest
    errors,     \* drain_errors, stdin_errors, close_errors
    timed,      \* timeout_error
    late,       \* a reader that missed the last deadline
    cancel,     \* a cancellation and its callback
    faults
tree == <<child, heir, made>>
threads == <<got, reader, writer>>
vars == <<system, asks, pc, tree, job, threads, shut, fd, artifact, errors, timed, late, cancel, faults>>

Init ==
    /\ system \in Systems
    /\ asks \in SUBSET {"input", "artifact"}
    /\ pc = "start"
    /\ child = "none" /\ heir = "none" /\ job = "none"
    /\ made = [s \in Pipes |-> 0] /\ got = [s \in Pipes |-> 0]
    /\ reader = [s \in Pipes |-> "none"]
    /\ shut = {} /\ writer = "none" /\ fd = "none"
    /\ artifact = [s \in Pipes \union {"manifest"} |-> "none"]
    /\ errors = {} /\ timed = FALSE /\ late = FALSE
    /\ cancel = "no" /\ faults = 0

-----------------------------------------------------------------------------
(* The tree of processes and the system calls that act on it.               *)

Goto(from, to) == pc = from /\ pc' = to
Fault == faults < Faults /\ faults' = faults + 1

Alive == child = "runs" \/ heir \in {"kin", "stray"}
Ended == pc \in {"returned", "raised", "dropped"}

\* terminate_tree: the group on posix, everything of the job on Windows.
Doomed == heir \in {"kin", "mute"} \/ (heir = "stray" /\ job = "open")
KillHeirs == heir' = IF Doomed THEN "gone" ELSE heir
Kill == KillHeirs /\ child' = IF child = "runs" THEN "exited" ELSE child
\* and process.wait().
KillAndWait == KillHeirs /\ child' = "reaped"

\* The program does what it wants while it lives.
Emit(s) ==
    /\ Alive /\ made[s] < Chunks
    /\ made' = [made EXCEPT ![s] = @ + 1]
    /\ UNCHANGED <<system, asks, pc, child, heir, job, threads, shut, fd, artifact, errors, timed, late, cancel, faults>>
Fork ==
    /\ child = "runs" /\ heir = "none"
    /\ heir' \in {"kin", "mute"} \union (IF system \in StraySystems THEN {"stray"} ELSE {})
    /\ UNCHANGED <<system, asks, pc, child, made, job, threads, shut, fd, artifact, errors, timed, late, cancel, faults>>
Exit ==
    /\ \/ child = "runs" /\ child' = "exited" /\ UNCHANGED heir
       \/ heir \in {"kin", "mute", "stray"} /\ heir' = "gone" /\ UNCHANGED child
    /\ UNCHANGED <<system, asks, pc, made, job, threads, shut, fd, artifact, errors, timed, late, cancel, faults>>

-----------------------------------------------------------------------------
(* The call begins: a checkpoint, the process, its callback, its artifacts. *)

\* On Windows the child is suspended until the job object owns it.
Spawn ==
    /\ pc = "start" /\ cancel = "no"
    /\ \/ child' = "runs" /\ pc' = "register" /\ system = "posix" /\ UNCHANGED faults
       \/ child' = "suspended" /\ pc' = "setup" /\ system = "nt" /\ UNCHANGED faults
       \/ Fault /\ pc' = "raised" /\ UNCHANGED child
    /\ UNCHANGED <<system, asks, heir, made, job, threads, shut, fd, artifact, errors, timed, late, cancel>>

Refused ==
    /\ Goto("start", "raised") /\ cancel # "no"
    /\ UNCHANGED <<system, asks, tree, job, threads, shut, fd, artifact, errors, timed, late, cancel, faults>>

Setup ==
    /\ pc = "setup"
    /\ \/ pc' = "register" /\ job' = "open" /\ child' = "runs" /\ UNCHANGED faults
       \/ Fault /\ pc' = "raised" /\ job' = "closed" /\ child' = "reaped"
    /\ UNCHANGED <<system, asks, heir, made, threads, shut, fd, artifact, errors, timed, late, cancel>>

\* Mutant of Register: a cancellation that came before the callback is forgotten.
RegisterBlind ==
    /\ Goto("register", "open")
    /\ cancel' = IF cancel = "no" THEN "heard" ELSE "done"
    /\ UNCHANGED <<system, asks, tree, job, threads, shut, fd, artifact, errors, timed, late, faults>>

\* add_cancel calls the callback itself when the cancellation came first.
Register ==
    /\ Goto("register", "open")
    /\ IF cancel = "no"
       THEN cancel' = "heard" /\ UNCHANGED <<child, heir>>
       ELSE cancel' = "done" /\ Kill
    /\ UNCHANGED <<system, asks, made, job, threads, shut, fd, artifact, errors, timed, late, faults>>

Open ==
    /\ pc = "open"
    /\ \/ /\ pc' = "dup"
          /\ artifact' = [s \in DOMAIN artifact |-> IF "artifact" \in asks /\ s \in Pipes THEN "open" ELSE "none"]
          /\ reader' = [s \in Pipes |-> "reads"]
          /\ UNCHANGED <<tree, job, cancel, faults>>
       \/ /\ "artifact" \in asks /\ Fault /\ pc' = "raised"
          /\ KillAndWait /\ job' = (IF job = "open" THEN "closed" ELSE job)
          /\ cancel' = IF cancel = "heard" THEN "removed" ELSE cancel
          /\ UNCHANGED <<made, artifact, reader>>
    /\ UNCHANGED <<system, asks, got, writer, shut, fd, errors, timed, late>>

\* os.dup may fail: the exception leaves the process and its readers as they are.
Dup ==
    /\ pc = "dup"
    /\ \/ "input" \notin asks /\ pc' = "wait" /\ UNCHANGED <<writer, fd, faults>>
       \/ "input" \in asks /\ pc' = "wait" /\ writer' = "looks" /\ fd' = "ours" /\ UNCHANGED faults
       \/ "input" \in asks /\ Fault /\ pc' = "dropped" /\ UNCHANGED <<writer, fd>>
    /\ UNCHANGED <<system, asks, tree, job, got, reader, shut, artifact, errors, timed, late, cancel>>

-----------------------------------------------------------------------------
(* The readers.  A read takes a chunk or sees the end of the pipe.          *)

AtReader(s, from, to) == reader[s] = from /\ reader' = [reader EXCEPT ![s] = to]

\* Is a read of s waiting for a process that still holds the pipe?
Blocked(s) == reader[s] = "reads" /\ got[s] = made[s] /\ Alive

\* Mutant of Read: the end of the pipe is kept like a chunk.
ReadEnd(s) ==
    /\ s \notin shut
    /\ got[s] < made[s] \/ ~Alive
    /\ AtReader(s, "reads", "holds")
    /\ UNCHANGED <<system, asks, pc, tree, job, got, writer, shut, fd, artifact, errors, timed, late, cancel, faults>>

Read(s) ==
    /\ s \notin shut
    /\ \/ got[s] < made[s] /\ AtReader(s, "reads", "holds")
       \/ got[s] = made[s] /\ ~Alive /\ AtReader(s, "reads", "done")
    /\ UNCHANGED <<system, asks, pc, tree, job, got, writer, shut, fd, artifact, errors, timed, late, cancel, faults>>

Keep(s) ==
    /\ artifact[s] \in {"none", "open"}
    /\ AtReader(s, "holds", IF s \in shut THEN "fails" ELSE "reads")
    /\ got' = [got EXCEPT ![s] = @ + 1]
    /\ errors' = IF s \in shut THEN errors \union {s} ELSE errors
    /\ UNCHANGED <<system, asks, pc, tree, job, writer, shut, fd, artifact, timed, late, cancel, faults>>

\* The artifact refuses: a quota, the disk, or it is closed by now.
KeepFails(s) ==
    /\ artifact[s] # "none"
    /\ AtReader(s, "holds", "fails")
    /\ IF artifact[s] = "open" THEN Fault ELSE UNCHANGED faults
    /\ errors' = errors \union {s}
    /\ UNCHANGED <<system, asks, pc, tree, job, got, writer, shut, fd, artifact, timed, late, cancel>>

GiveUp(s) ==
    /\ AtReader(s, "fails", "done")
    /\ Kill
    /\ UNCHANGED <<system, asks, pc, made, job, got, writer, shut, fd, artifact, errors, timed, late, cancel, faults>>

-----------------------------------------------------------------------------
(* The writer and its descriptor, which it and the caller both close.       *)

\* Closing a number that was given to somebody else in between robs them.
CloseFd == fd' = CASE fd = "ours" -> "free" [] fd = "theirs" -> "robbed" [] OTHER -> fd

Look ==
    /\ writer = "looks"
    /\ writer' \in (IF child = "runs" THEN {"writes", "ends"} ELSE {"ends"})
    /\ UNCHANGED <<system, asks, pc, tree, job, got, reader, shut, fd, artifact, errors, timed, late, cancel, faults>>

\* os.write: taken or a broken pipe; the caller may have closed the number before.
Fed == writer = "writes" /\ Alive /\ writer' = "looks" /\ fd' = IF fd = "theirs" THEN "robbed" ELSE fd
Unfed ==
    /\ writer = "writes"
    /\ \/ ~Alive /\ writer' = "ends" /\ UNCHANGED errors
       \/ fd = "free" /\ writer' = "fails" /\ errors' = errors \union {"stdin"}
    /\ UNCHANGED fd
WriteInput ==
    /\ (Fed /\ UNCHANGED errors) \/ Unfed
    /\ UNCHANGED <<system, asks, pc, tree, job, got, reader, shut, artifact, timed, late, cancel, faults>>

WriterKills ==
    /\ writer = "fails" /\ writer' = "ends"
    /\ Kill
    /\ UNCHANGED <<system, asks, pc, made, job, got, reader, shut, fd, artifact, errors, timed, late, cancel, faults>>

WriterEnds ==
    /\ writer = "ends" /\ writer' = "done"
    /\ CloseFd
    /\ UNCHANGED <<system, asks, pc, tree, job, got, reader, shut, artifact, errors, timed, late, cancel, faults>>

\* Another thread of the server opens a file.
Reuse ==
    /\ fd = "free" /\ fd' = "theirs"
    /\ UNCHANGED <<system, asks, pc, tree, job, threads, shut, artifact, errors, timed, late, cancel, faults>>

-----------------------------------------------------------------------------
(* A client cancels.                                                        *)

Cancel ==
    /\ ~Ended
    /\ \/ cancel = "no" /\ cancel' = "early"
       \/ cancel = "heard" /\ cancel' = "called"
    /\ UNCHANGED <<system, asks, pc, tree, job, threads, shut, fd, artifact, errors, timed, late, faults>>

\* cancel_owned_tree looks whether the process still runs, then kills its tree.
CallbackLooks ==
    /\ cancel = "called"
    /\ cancel' = IF child = "runs" THEN "kills" ELSE "done"
    /\ UNCHANGED <<system, asks, pc, tree, job, threads, shut, fd, artifact, errors, timed, late, faults>>
CallbackKills ==
    /\ cancel = "kills" /\ cancel' = "done"
    /\ Kill
    /\ UNCHANGED <<system, asks, pc, made, job, threads, shut, fd, artifact, errors, timed, late, faults>>

-----------------------------------------------------------------------------
(* The caller waits, then settles with its threads.                         *)

\* Mutant of Wait: the deadline does not wait for the process that it killed.
WaitNot ==
    /\ Goto("wait", "input")
    /\ \/ child = "exited" /\ child' = "reaped" /\ UNCHANGED <<heir, timed>>
       \/ child # "exited" /\ timed' = TRUE /\ Kill
    /\ UNCHANGED <<system, asks, made, job, threads, shut, fd, artifact, errors, late, cancel, faults>>

Wait ==
    /\ Goto("wait", "input")
    /\ \/ child = "exited" /\ child' = "reaped" /\ UNCHANGED <<heir, timed>>
       \/ child # "exited" /\ timed' = TRUE /\ KillAndWait
    /\ UNCHANGED <<system, asks, made, job, threads, shut, fd, artifact, errors, late, cancel, faults>>

CloseInput ==
    /\ Goto("input", "join input")
    /\ CloseFd
    /\ UNCHANGED <<system, asks, tree, job, threads, shut, artifact, errors, timed, late, cancel, faults>>

\* The join has a deadline of a second; then what failed is killed.
JoinInput ==
    /\ Goto("join input", "join")
    /\ writer \in {"none", "done"} \/ Slow \/ (writer = "writes" /\ heir \in {"kin", "stray"})
    /\ IF timed \/ errors # {} THEN Kill ELSE UNCHANGED <<child, heir>>
    /\ UNCHANGED <<system, asks, made, job, threads, shut, fd, artifact, errors, timed, late, cancel, faults>>

Joined == \A s \in Pipes : reader[s] = "done"
Expires == ~Joined /\ (Slow \/ \E s \in Pipes : Blocked(s))

\* Mutant of Join: the pipes are closed without killing who holds them.
JoinGently ==
    /\ pc = "join"
    /\ pc' = IF Joined THEN "settle" ELSE "shut"
    /\ Joined \/ Expires
    /\ UNCHANGED <<system, asks, tree, job, threads, shut, fd, artifact, errors, timed, late, cancel, faults>>

Join ==
    /\ pc = "join"
    /\ \/ Joined /\ pc' = "settle" /\ UNCHANGED <<child, heir>>
       \/ Expires /\ Kill /\ pc' = "shut"
    /\ UNCHANGED <<system, asks, made, job, threads, shut, fd, artifact, errors, timed, late, cancel, faults>>

\* close() of a pipe waits for the read that is under way on it.
Shut(s) ==
    /\ pc = "shut" /\ s \notin shut /\ reader[s] # "reads"
    /\ s = "stderr" => "stdout" \in shut
    /\ shut' = shut \union {s}
    /\ pc' = IF s = "stderr" THEN "rejoin" ELSE pc
    /\ UNCHANGED <<system, asks, tree, job, threads, fd, artifact, errors, timed, late, cancel, faults>>

Rejoin ==
    /\ Goto("rejoin", "settle")
    /\ Joined \/ Expires
    /\ late' = ~Joined
    /\ UNCHANGED <<system, asks, tree, job, threads, shut, fd, artifact, errors, timed, cancel, faults>>

\* Mutant of Settle: the job object stays open.
SettleOpen ==
    /\ Goto("settle", "close")
    /\ cancel' = IF cancel = "heard" THEN "removed" ELSE cancel
    /\ UNCHANGED <<system, asks, tree, job, threads, shut, fd, artifact, errors, timed, late, faults>>

\* The callback is removed; closing the job object kills whoever is left in it.
Settle ==
    /\ Goto("settle", "close")
    /\ cancel' = IF cancel = "heard" THEN "removed" ELSE cancel
    /\ IF job = "open" THEN job' = "closed" /\ Kill ELSE UNCHANGED <<job, child, heir>>
    /\ UNCHANGED <<system, asks, made, threads, shut, fd, artifact, errors, timed, late, faults>>

\* Both artifacts are closed, and a failure of either is remembered.
Close ==
    /\ Goto("close", "judge")
    /\ IF "artifact" \in asks
       THEN \E s \in SUBSET Pipes :
               /\ s # {} => Fault
               /\ s = {} => UNCHANGED faults
               /\ artifact' = [p \in DOMAIN artifact |-> IF p = "manifest" THEN "none"
                                                         ELSE IF s # {} THEN "aborted" ELSE "closed"]
               /\ errors' = errors \union {"close" : p \in s}
       ELSE UNCHANGED <<artifact, errors, faults>>
    /\ UNCHANGED <<system, asks, tree, job, threads, shut, fd, timed, late, cancel>>

\* Mutant of Judge: only the errors of the closes count.
JudgeCloses ==
    /\ pc = "judge"
    /\ IF "artifact" \in asks
       THEN IF "close" \in errors
            THEN /\ artifact' = [s \in DOMAIN artifact |-> IF s = "manifest" THEN "none" ELSE "aborted"]
                 /\ pc' = "raised" /\ UNCHANGED faults
            ELSE /\ artifact' = [artifact EXCEPT !["manifest"] = "complete"]
                 /\ pc' = "answer" /\ UNCHANGED faults
       ELSE pc' = "answer" /\ UNCHANGED <<artifact, faults>>
    /\ UNCHANGED <<system, asks, tree, job, threads, shut, fd, errors, timed, late, cancel>>

\* Any error of a reader or a close aborts the capture; otherwise the manifest
\* says that it is complete.
Judge ==
    /\ pc = "judge"
    /\ LET aborted == [s \in DOMAIN artifact |-> IF s = "manifest" THEN "none" ELSE "aborted"] IN
       \/ "artifact" \notin asks /\ pc' = "answer" /\ UNCHANGED <<artifact, faults>>
       \/ /\ "artifact" \in asks /\ errors \ {"stdin"} # {}
          /\ artifact' = aborted /\ pc' = "raised" /\ UNCHANGED faults
       \/ /\ "artifact" \in asks /\ errors \ {"stdin"} = {}
          /\ \/ artifact' = [artifact EXCEPT !["manifest"] = "complete"] /\ pc' = "answer" /\ UNCHANGED faults
             \/ Fault /\ artifact' = aborted /\ pc' = "raised"
    /\ UNCHANGED <<system, asks, tree, job, threads, shut, fd, errors, timed, late, cancel>>

Answer ==
    /\ pc = "answer"
    /\ pc' = IF timed \/ errors # {} THEN "raised" ELSE "returned"
    /\ UNCHANGED <<system, asks, tree, job, threads, shut, fd, artifact, errors, timed, late, cancel, faults>>

-----------------------------------------------------------------------------
Caller ==
    \/ Spawn \/ Refused \/ Setup \/ Register \/ Open \/ Dup \/ Wait \/ CloseInput \/ JoinInput
    \/ Join \/ Rejoin \/ Settle \/ Close \/ Judge \/ Answer
    \/ \E s \in Pipes : Shut(s)
Reader(s) == Read(s) \/ Keep(s) \/ KeepFails(s) \/ GiveUp(s)
Writer == Look \/ WriteInput \/ WriterKills \/ WriterEnds
Callback == CallbackLooks \/ CallbackKills
Program == Fork \/ Exit \/ \E s \in Pipes : Emit(s)

Next == Caller \/ Writer \/ Callback \/ Program \/ Cancel \/ Reuse \/ \E s \in Pipes : Reader(s)

Spec == Init /\ [][Next]_vars

\* The threads of the server are scheduled.  The program may never do anything,
\* so that a write which it does not take never ends.
FairSpec ==
    /\ Spec /\ WF_vars(Caller) /\ WF_vars(Callback)
    /\ WF_vars(Look) /\ WF_vars(WriterKills) /\ WF_vars(WriterEnds) /\ WF_vars(WriteInput /\ ~Alive)
    /\ \A s \in Pipes : WF_vars(Reader(s))

-----------------------------------------------------------------------------
Steps == {"start", "setup", "register", "open", "dup", "wait", "input", "join input", "join", "shut",
          "rejoin", "settle", "close", "judge", "answer", "returned", "raised", "dropped"}

\* The call, its processes and what stops them.
CallTypes ==
    /\ system \in Systems /\ asks \subseteq {"input", "artifact"}
    /\ child \in {"none", "suspended", "runs", "exited", "reaped"}
    /\ heir \in {"none", "kin", "mute", "stray", "gone"}
    /\ job \in {"none", "open", "closed"}
    /\ timed \in BOOLEAN /\ late \in BOOLEAN
    /\ cancel \in {"no", "early", "heard", "called", "kills", "done", "removed"}

\* The readers, the writer and what passes through them.
ThreadTypes ==
    /\ made \in [Pipes -> 0..Chunks] /\ got \in [Pipes -> 0..Chunks]
    /\ \A s \in Pipes : got[s] <= made[s]
    /\ reader \in [Pipes -> {"none", "reads", "holds", "fails", "done"}]
    /\ shut \subseteq Pipes
    /\ writer \in {"none", "looks", "writes", "fails", "ends", "done"}
    /\ fd \in {"none", "ours", "free", "theirs", "robbed"}

\* What the call will tell.
ResultTypes ==
    /\ artifact \in [Pipes \union {"manifest"} -> {"none", "open", "closed", "aborted", "complete"}]
    /\ errors \subseteq {"stdout", "stderr", "stdin", "close"}
    /\ faults \in 0..Faults

TypeOK == pc \in Steps /\ CallTypes /\ ThreadTypes /\ ResultTypes

\* However the call ends, its process is reaped, its job object closed, its
\* callback removed and its end of the child's input closed, unless os.dup failed.
EndsClean ==
    pc \in {"returned", "raised"} =>
        child \in {"none", "reaped"} /\ job # "open" /\ cancel # "heard" /\ fd # "ours"

\* After a call that timed out no process of the group is left; on Windows no
\* descendant at all outlives any call.
TreeIsGone ==
    /\ pc \in {"returned", "raised"} /\ timed => heir \notin {"kin", "mute"}
    /\ pc \in {"returned", "raised"} /\ system = "nt" => heir \in {"none", "gone"}

\* What is returned, or recorded as complete, is all that the processes wrote,
\* unless a reader missed the last deadline.
CompleteIsAll ==
    (pc = "returned" \/ artifact["manifest"] = "complete") /\ ~late
        => \A s \in Pipes : reader[s] = "done" /\ got[s] = made[s]

\* A cancellation that came before the process or its callback still reaches it:
\* once the callback is done, the caller does not wait for a living process.
CancelReaches ==
    cancel = "done" /\ pc \in {"open", "dup", "wait"} => child # "runs"

\* How a call ends: it leaves nothing behind, tells all or an error, and a cancellation that came
\* at any moment has reached it.
CallSafe == EndsClean /\ TreeIsGone /\ CompleteIsAll /\ CancelReaches

\* test_bounded_subprocess.py: a timeout is obeyed whatever the child reads, and
\* an exited parent cannot leave an inherited pipe hanging: every call ends.
Returns == <>Ended

\* Nobody closes or writes a descriptor that another thread owns.  It does not
\* hold: the writer and the caller close the same number.
OwnDescriptors == fd # "robbed"

=============================================================================
