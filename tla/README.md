# Verification of ChatRepo MCP

TLA+ models of the parts of ChatRepo MCP in which threads, processes, files and
other programs meet, their model-checking runs, and theorems about them that
TLAPS checks. `src/` below is the repository; the Python server lives in
`src/python/src/chatrepo_mcp/`, its Go twin and the computer host in
`src/go/internal/`.

| module | what it models | checked by |
| --- | --- | --- |
| `Operations` | the operation registry, the tool wrapper, batch calls, detached work, cancel callbacks | `MCOperations`, `Operations*.cfg` |
| `OperationsProofs` | ten theorems about it | TLAPS |
| `CommandJobs` | background jobs: start, finisher, watcher, poll, cancel, exit of the server | `MCCommandJobs`, `Jobs*.cfg` |
| `CommandJobsProofs` | seven theorems about it | TLAPS |
| `LeasePool` | what the heavy limiter promises: the abstract specification | `MCResources` (refinement), `Terminals` (uses it) |
| `HeavyLimiter` | the limiter and the four kinds of calls that take a lease | `MCResources`, `Resources.cfg` |
| `OutputStore` | artifacts: claims, streams, eviction, expiry, reconciliation | `MCResources`, `Resources.cfg` |
| `ResourcesProofs` | eleven theorems about `HeavyLimiter` and `OutputStore`, the refinement of `LeasePool` among them | TLAPS |
| `Subprocess` | one call of `run_bounded` | `Subprocess.cfg` |
| `SubprocessProofs` | five theorems about it | TLAPS |
| `Terminals` | terminal sessions | `Terminals.cfg` |
| `TerminalsProofs` | seven theorems about them | TLAPS |
| `Edits` | text edits, batches with rollback, missions, patches | `MCTools`, `MCEdits` (requests in `EditJobs`) |
| `GitWorkflow` | the git tools that change the repository | `MCTools`, `MCGitWorkflow` (requests in `GitJobs`) |
| `GitHub` | the gh tools | `MCTools` |
| `Transfers` | files received from the chat, shared screenshots | `MCTools` |
| `Tools` | what the four modules above promise together | `MCTools`, `Tools.cfg` |
| `ToolsProofs` | nineteen theorems about them | TLAPS |
| `ComputerHost` | the server's computer client, the companion, the controller and its helpers' protocol | `MCTools`, `MCComputerHost` (requests) |
| `ComputerHostProofs` | three theorems about it | TLAPS |
| `X11Input`, `X11Windows`, `Elements` | the Linux driver: input, windows, accessibility | `MCDesktop`, `MCX11Input` |
| `Portal` | the Wayland portal helper | `MCDesktop` |
| `DesktopProofs` | eleven theorems about the four of them | TLAPS |

`PROJECT.json` holds the components, the runs, the mutants, the map from
definitions to source lines, the finding, the hazards and the theorems. Each
`*.cfg` names its module in the run that uses it, or, when no run does, in
section 3, "By hand".

## 1. The system

ChatRepo MCP is a server that offers a workspace to a chat client over MCP:
about 120 tools for reading, editing, searching, git, commands, terminals, file
transfer and desktop control. There are two implementations of one contract,
in Python and in Go. The models follow the Python one; the computer host and
its Linux helpers exist once, in Go and Python, and are modelled from there.

### Components

| component | state | operations |
| --- | --- | --- |
| operation registry (`operations.py`) | `Registry.operations`; per record the event, the callbacks, `finishing`, `finished`, the status | start, checkpoint, add_cancel, remove_cancel, finish, cancel, shutdown, note_resource_cancel, prune, list, get |
| tool wrapper (`server.py`, `registered`) | `started`, `done`, the coroutine and its AnyIO worker | register, queue, run, finish; on abandonment cancel, then finish or join |
| batch_call (`server.py`) | a pool of workers, a record per call | admit, track, join |
| bounded subprocess (`bounded_subprocess.py`) | one process group, two pipe readers, one writer, one cancel callback | start, drain, time out, cancel, reap |
| heavy-operation limiter (`resource_profile.py`) | a bounded semaphore and a table of leases | acquire, set_cancel, release, cancel, list |
| command jobs (`command_tools.py`) | JOB_PROCS, JOB_TIMEOUT_EVENTS, JOB_CAPTURE_ERRORS, a metadata file per job, a lock file per concurrency key | start, finish, time out, inspect, cancel, shut down |
| synchronous commands (`command_tools.py`) | one process, two artifacts, one lease | run_command |
| terminal sessions (`terminal_tools.py`) | SESSIONS, a PTY and a status per session | start, read, write, resize, close, idle close, shut down |
| output store (`output_store.py`) | usage, active streams, lifecycle holds, files | open, claim, write_aux, finish, abort, evict, clean up, reconcile |
| edit tools (`edit_tools.py`) | the files of the workspace | guarded edits, batches with compensation, missions, patches |
| git workflow (`git_workflow_tools.py`) | the repository, the remote, the working tree | switch, stash, pull, push, merge, reset, worktrees, each a plan of git commands |
| GitHub tools (`github_tools.py`) | none of its own; acts on GitHub | pull requests, checks, runs, issues, each a plan of gh commands |
| file transfer (`file_transfer.py`) | received files, shared screenshots that expire | receive, share, read |
| maintenance (`maintenance.py`) | one background thread | clean up the store and the shares |
| computer host (`computer_client.py`, Go `computer/`) | one companion, its driver and portal processes, frames with a life time | observe, act, wait, sequence |
| Linux desktop driver (`computer_driver.py`) | what it holds pressed, the scratch key, the ids of elements | input, windows, elements |
| Wayland portal (`wayland_portal.py`) | a session, a token on disk, what it holds pressed | ask, capture, input, end |
| audit log | a file | append |
| command policy, security perimeter | none (pure decisions) | check a command, check a path |
| filesystem, index, language tools | none | traversals, calls of other programs |

How they interact: every tool call goes through the wrapper, which creates a
record in the registry and runs the tool on a worker thread. Tools stop at the
registry's checkpoints, register callbacks that kill their processes, and take
leases from the limiter. Jobs and terminals take a detached record and a lease
that outlive the call that started them; their own threads finish the record
and release the lease. Jobs keep their metadata and logs in the output store;
the store, whenever anything is opened in it, rewrites metadata of jobs it
takes for leftovers of an earlier server. Git and gh run through `run_bounded`,
which puts what it captures in the store. A computer call takes the client's
lock, then goes line by line to the companion and from there to the helper of
the platform. The audit log is written by all.

### What is hard in it

* Requests are abandoned while AnyIO hands them to a worker; cancellations
  race with the registration of callbacks, with each other and with the end of
  the operation.
* A job's metadata file is read, changed and written back by the poller, the
  canceller, the timeout watcher, the finisher, the store and the exit of the
  server; a lock makes each read and each write atomic, hardly ever both.
* A lease must be held exactly as long as its process runs, on every failure
  path of the start.
* Descriptors are closed by one thread while others read or write them, and the
  kernel gives their numbers out again.
* The server may exit or be killed at any point; its commands survive it.
* Limits (leases, sessions, quota, history, frames, shares) are checked at one
  place and consumed at another.
* Batches must be undone when a later step fails, or the undoing does; git and
  gh may run out of time with their work done.
* A desktop changes while it is looked at: focus, windows, elements and
  passwords; whatever is pressed must be released however a helper ends.

`PROJECT.json` lists these hazards line by line with the properties that watch
them.

### What makes each component correct

* Registry: a record is finished once, with one outcome, the one in the audit
  log; it is finished only when the work has stopped; a cancellation is never
  lost, delivered once, visible, and ends the operation; detached work is
  cancelled only on purpose; history never drops active work.
* Jobs: at most the allowed number of commands run; a running command is
  leased; a verdict is neither early nor without a cause; a timeout is reported
  as one; every job ends; an orderly exit leaves nothing running; the lock of a
  key admits one job.
* Limiter: permits and entries add up to the capacity however a call ends; a
  cancellation that was accepted reaches the process.
* `run_bounded`: every call returns, leaves no process, thread or descriptor,
  and calls complete only what is.
* Terminals: an active session holds a lease; no descriptor is confused while
  its shell runs; an end is final, and gives everything back that no process still uses.
* Output store: what is charged is what is on disk; what somebody owns is never
  evicted, files and manifest; a success is whole, a failure leaves nothing.
* Edits: a failed atomic batch leaves the files as they were; what a hash names
  is what is edited; a preview changes nothing.
* Git and GitHub: no edit is lost that nobody agreed to lose, but for what git itself throws away
  with a merge or a revert that is aborted; the remote moves only as granted; what was done is in
  the audit log, and done once.
* Transfers: no temporary file and no shared screenshot stays behind.
* Computer: what the desktop took is what the answer says; an input reaches the
  window of its frame unless the focus moved after the check or while the frame was made; keys, buttons,
  the keyboard mapping and the permission go back however a helper ends.

## 2. The models

### Operations

One record type for three kinds of operations: `Requests` (made by the tool
wrapper), `Children` (calls of a batch, tracked as kind "tool") and `Detached`
(jobs and terminals). Threads are program counters: `pc` is the worker of an
operation, `coro` the coroutine that awaits a request, `cb` the daemon thread
of a cancel callback, `cpc` a thread inside `Registry.cancel`.

One action is one region under `registry.lock`, or one access to an event or
to a process, in the order of the code. `Operation.finish` is three steps
(`WorkerFinish`, `WorkerAudit`, `WorkerPublish`) because the audit line is
written between its two locked regions; `Registry.cancel` is `CancelLocked`,
`CancelAudit`, `CancelSpawn` for the same reason, and goes on to the children
it collected. The wrapper is `StartRequest`, `Enqueue`, `Dispatch`,
`SetStarted`, `CheckFinished`, `SetRunning`, `Gate`; the body of a tool is any
number of processes (`StartProcess` to `Reap`) with checkpoints in between
(`StopBody`); abandonment is `Abandon`, `CheckStarted` and either `CoroSetEvent`,
`CoroFinish`, `CoroAudit`, `CoroPublish` or `Join`.

Conventions: an operation owns at most one process at a time and one in its
life; batches and launchers own none themselves. The event loop's tasks are
independent threads, which allows more interleavings than the loop. Time is the
number of finished records, so that any set of the oldest ones may be a day
old (`Pruned(k)`). The callback of a job may fail before it kills, because it
must store a status first.

### CommandJobs

Variables: the processes of a job (`leader`, `others`, `code`, `pipes`), the
disk (`meta`, `lock`), the memory of the server (`procs`, `timeouts`,
`errors`), its leases and records (`leased`, `held`, `record`, `verdict`,
`asked`), and the control state of each thread (`start`, `finish`, `watch`,
`caller`, `sweep`). A call in progress carries the copy of the metadata it has
read, which is what makes the stale writes visible.

| thread | code | actions |
| --- | --- | --- |
| start | `start_command_job` | `CheckLock`, `UnlinkStale`, `Acquire`, `Launch*`, `SaveMeta`, `SaveFails`, `Register`, `StartFinisher`, `WriteLock*`, `StartWatcher` |
| finisher | `finish_heavy_audit` | `FinisherWait`, `FinalizeDrains`, `Publish`, `PublishFails`, `FinisherReadLock`, `FinisherUnlink`, `FinisherEnd` |
| watcher | `_watch_job_timeout` | `WatcherMark*`, `WatcherKill`, `WatcherPop`, `WatcherFinal*`, `WatcherUnlink`, `WatcherRelease` |
| poll | `get_command_job` | `GetRead`, `GetLook`, `GetKill`, `GetReadLock`, `CallUnlink`, `GetSave` |
| cancel | `cancel_command_job` | `CancelRead`, `CancelWrite`, `CancelKill`, `CancelPop`, `CallUnlink`, `CancelSave` |
| store | `reconcile_stale_active` | `OpenRead`, `OpenReconcile` |
| exit | `shutdown_command_jobs`, `__main__.py` | `SweepBegin`, `SweepRead`, `SweepKill`, `SweepWrite`, `Exit`, `Crash` |

The shell of a job is a zombie after it died and until somebody waits for it,
which matters because a zombie still answers `killpg(pid, 0)`; what it left in
its group may hold its pipes open (`piped`) or not (`silent`). `Kill` is the
TERM, grace, KILL sequence of `_terminate_process_group` in one step: the shell
may catch TERM and exit with 0. `Fault` lets a metadata write, a lock write, a
launch or a capture fail, within the bound `Faults`.

Left out: processes that leave their group, reuse of a process id, exit codes
and byte counts in the metadata, log reading, the wording of results, the
waiting mode of `on_conflict`, and the second of the two reads of
`_active_lock_job`, which is merged with the first.

How the two modules meet: a job is a detached operation of `Operations`, where
its finisher is the worker (`Reap`, `Decide`, `WorkerFinish`) and its cancel
callback is `CallbackPoll`/`CallbackKill`; `CommandJobs` keeps of the record
only whether it is open and its outcome, and of a cancellation only that it was
asked for (`AskCancel`).

### LeasePool and HeavyLimiter

`LeasePool` is what the limiter promises: a set `holders` of calls, never more
than `Capacity`, from which a call takes and to which it gives back one at a time.
`HeavyLimiter` is the code: `Acquire` takes a permit, `Enter` the table entry,
`Pop` and `FreePermit` undo them, each a step of its own. Four kinds of calls
run through it: `run_command`, `search_text`, the `run_bounded` calls of git and
gh, and terminals; they differ in which exceptions they catch (`Keeps`) and in
where they register their callback. Clients cancel through the registry
(`AskRegistry`, `CancelOperation`) and then through the limiter (`AskLimiter`).
`Pool == INSTANCE LeasePool WITH holders <- Holders`: a call holds a lease
from `Acquire` to `FreePermit`. The property `ImplementsPool` is that every
behaviour of the limiter is one of the pool. `Terminals` takes its leases from
the pool, as the limiter would give them.

### OutputStore

An artifact is a group of files: a data file and a sidecar per stream, a digest
and a manifest. `Claim`, `Write`, `Flush`, `Finish` and `Digest` are the
steps of a stream; `Charge`, `Evict` and `Refund` keep the cached total; `MarkStale`
and `Cleanup` are the reconciliation and the expiry before `OpenStream`; `Maintain`
is the pass of the maintenance thread. A job keeps a lifecycle lease, a
synchronous command does not. `recent` orders artifacts by their last use (the pairs of
an artifact and one used after it), which is all that eviction looks at; a chunk stands
for any number of bytes. What is on disk is a set of units (an artifact, a file of it, a
place in the file: `Stored`), so that a total is the size of a set. Every system call may
fail, within `Faults`.

### Subprocess

One call of `run_bounded`: the caller (`Setup` to `Answer`), a reader for each
pipe, a writer, the cancel callback, and the program, which writes, forks, closes
its pipes or exits. `heir` stands for all descendants: in the group, in the
group without pipes, or in a session of its own. On Windows a job object takes the
place of the group. `fd` says whose the descriptor number of the writer is,
because the writer and the caller both close it.

### Terminals

The starter checks the limit, takes the lease, forks and inserts the session in
separate steps; the reader sets the final status, closes the descriptor and
releases; closers (clients, the idle watcher, the cancel callback, shutdown) set
"closing", signal, escalate and finish. Descriptors are small numbers which the
kernel reuses. A start whose metadata cannot be written after the shell runs ends
as `"orphaned"`. `left` is what a shell that ended has left on its terminal, in its process
group or out of it: a kill of the group takes the first only, and a client may ask for a signal
that takes neither. The reader waits for the end of the terminal, so for all of them (`ReadEnds`),
`close` for the shell only (`Escalate`): a session may be answered "closed" and keep its lease.

### Edits

A text is a sequence of fragments, of which one ends a line and one makes the
text binary; a hash stands for its text. `Edited` computes each operation on
lines, headings or places. A call is `BeginEdit`, `LookAtText` (the guards),
`PlanChange` and `Do` for each operation, `Open` and `Fill` for each write (a write may
be cut short), `Snap` before and `UndoOne` after a batch. `Mission` and
`Patch` are the two other tools. Two calls interleave at every step. A request is a list of
operations, each with all the fields of `Idle`; which lists the run tries is in `EditJobs`.

### GitWorkflow and GitHub

git and gh are external: a git command is the set of outcomes it may have
(`GitSwitch`, `GitMerge` ...), a gh command acts or not and then answers,
refuses, fails, is cut short or runs out of time. The tools are plans:
`Reasons` and `Granted` say what is refused without a confirmation, `BeginGit`,
`Stash`, `Go`, `Abort`, `Unstash`, `AuditPush` and `UndoBranch` are the steps around the
command. A history is the set of its commits; an edit is what one author changed
in the working tree, and it is staged, or not; `fixes` are those made where a merge or a revert conflicts.
`GitAbort` is `git merge --abort` and `git revert --abort`, which are `git reset --merge`: they throw away what
is staged or changed where it conflicts, keep the rest, and refuse over a file that is staged and then changed
again; a rebase is aborted by `reset --hard`. `GitRevert` with `no_commit` takes a dirty index and leaves its
changes in it. In half of the initial states a second branch went its own way, so that the first call may
meet a conflict and the second one its abort. `GitOwner` and `HubOwner` are the person at the machine: they commit, edit, push
and log in or out in between.

### Transfers

A download is a temporary file, chunks up to a limit, and a link that must not
replace what is there. Shares have ages; a timer, the next share, a late read
and the maintenance pass all may remove one; a crash loses the timers.

### ComputerHost

A call is a sequence of steps (`computer_sequence` has several). The server holds
one lock for a call; the companion takes it (`Take`), checks and looks up the
frame (`LookUp`, `Check`), gives input (`Input`) or acts on an element or a window (`Act`), lists (`List`), waits (`Poll`,
`Wake`) or observes. An observation is a request for the picture (`Capture`) and four to the
driver, for the windows (`AskWindows`), the focused element and the cursor (`Glance`) and the elements (`AskElements`),
each of which may fail by itself with the focus moving in between, and then the frame is kept (`Remember`). `sight` is the frame in
the making: the window it shows, the window that was told, and whether the focus may have moved between the two (`blurred`).
A wait polls as the code does for what it waits for: with captures that nobody keeps (`PollStable`), with whole
observations that are kept and push older frames out (`PollText`), or with listings, of which those of elements give them
new ids (`PollDriver`); `Looks` bounds the polls that count. `Requested(h, o)` is a request to a helper with all that may
come of it: done or not, answered, refused, late, or the helper dead. Frames
are numbered, kept up to a limit and grow old (`GrowOld`). `SwitchFocus`
may happen between any two steps; `HelperDies`, `HostDies`, `HostDiesIdle` and `ClientTimeout`
are the faults. A host that dies does not take its helpers along: nobody signals their process groups, and a helper
that has an input in hand (`InHand`) does it before it reads the end of its input. Such an input is in `late`, and
`LateInput` does it at any later moment, in the middle of the next call as well. An input is named by its place in the request, step and number
(`Inputs`), so that what the desktop took can be compared with what was asked for.

### X11Input, X11Windows, Elements, Portal

These are the handlers of the two Linux helpers. `X11Input` is the driver's
bookkeeping against the X server: what it pressed (`held`), the modifiers it owes
(`owed`), the scratch keycode; a signal may come between an X call and its
record, which the history variable `torn` remembers. `X11Windows` sends
messages to a window manager that obeys in its own time (`Manage`), and polls.
`Elements` walks the tree of another process, which changes it meanwhile
(`Change`), and gives out ids. `Portal` is one run of the Wayland helper: the token,
the dialog, input through the portal, and the end. `Answer` has the answers that the code looks at, and
those that it does not: after an error of the bus, or a grant that is not enough, the run fails and the
token stays, spent or not (`Spend`).

### Composition

Modules that interact share state or an abstract specification: jobs with the
registry and the limiter inside `CommandJobs`, terminals with `LeasePool`, captures of
jobs and commands in one `OutputStore`. `MCResources` (which extends `HeavyLimiter` and
`OutputStore`), `MCTools` (which extends `ComputerHost` and `Tools`, and so `Edits`, `GitWorkflow`,
`GitHub` and `Transfers`) and `MCDesktop` (which extends `X11Input`, `X11Windows`, `Elements` and
`Portal`) put modules that share no state under one run: the variable `part` says which of
them moves, the others rest in their initial state, so that one run explores each
of them completely; a property of such a run is the conjunction of what the modules
promise. This leaves out nothing: no variable of one part occurs in another.

## 3. What is checked

### Runs

| run | instance | shows |
| --- | --- | --- |
| `ops_request` | one request with a process, two clients | types; one final outcome in record and audit (`AuditMatchesRecord`, `FinishedIsFinal`); `CancellationsHold` (callbacks once, none lost, one audit line, late cancellations keep success); `CancelIsVisible` |
| `ops_batch` | a batch, one call, one client | finished means stopped, active is listed, history is cut from its old end; a cancellation or abandonment ends (`CancellationsEnd`) |
| `ops_detached` | a launcher, its job, one client | the job survives its launcher |
| `jobs_end` | one job with a key, a canceller and a poller, fairness | types; every started job ends |
| `jobs_calls` | one job, a canceller, a poller, an opening of the store, one failure | no early verdict, none without a cause, timeouts reported |
| `jobs_pool` | two jobs, one lease, one key, one failure, one crash or exit | the limit holds, running is leased, nothing left running after an exit |
| `jobs_duplicate` | two starts with one key | a counterexample, see Findings |
| `resources` | two heavy calls of any kind and two clients, one permit; a job and a command under one quota, two streams each, one failure | `LeasesSafe`, `ImplementsPool`; `CapturesSafe` (a success is whole, a failure leaves nothing), `AccountsSafe` (types, and what is charged is what is there), `OwnedKept`; `TypeOK` of the limiter |
| `terminals` | two sessions, limit one, two leases, two descriptors, one closer, one writer, a shell that leaves processes on its terminal, fairness | `SessionsSafe` (types, a shell is leased, descriptors are not confused while it runs), `SessionsEnd` (an end is final; closing ends a session, whose lease comes back when nothing has its terminal open) |
| `subprocess` | one call on POSIX or Windows, with and without input and artifact, one failure, a cancellation, fairness | `CallSafe` (nothing left, all or an error, cancellations reach), `Returns` |
| `desktop` | each Linux helper with two or three requests and one failure, signal or change, fairness | `InputSafe`, `PortalSafe`, `WindowsSafe` (what an answer says of a window is true of it), `ElementsSafe` (ids, passwords, listings, toggles), `HelpersEnd` |
| `tools` | each tool module with two requests out of a set with every kind, one failure, timeout or restart; the computer host with two calls of one to three steps and one change of focus | `TextsSafe` (types, and lines nobody named stay), `EditsSafe`, `RemoteSafe`, `TransfersSafe`, `HostSafe` (what the desktop took is what the answer says; an input goes astray only as said; frames make way for newer ones only), `NothingIsLost` |

A bundled property is a conjunction of named ones, each with its own comment in
its module. For each property of a passing run `PROJECT.json` names a mutant,
written before the definition it changes, that the run refutes; several modules hold more
mutants, each of which breaks one conjunct of a bundle.

**Bounds.** The races are between the few threads of one operation, job, session or
call, so one of each kind with one or two outsiders makes every pair of threads
meet; two are needed for what they share (the lease, the lock, the quota, the
working tree), and are interchangeable there (`SYMMETRY`, used with safety
properties only: `jobs_pool`, `resources`, `tools`). `MaxHistory = 1` makes the
history cap bite at the second record; a capacity and a session limit of one make every second call
meet the limit; `Quota = 5` and `ArtifactMax = 1` let two captures of two streams and their
metadata fill the quota, so eviction, denial and the limit of an artifact all
happen; two frames make the third drop one, in the middle of a sequence or of a wait.
`Faults`, `Crashes`, `Timeouts`, `Upsets` or `Restarts = 1` let any one write,
call or process fail, at every place. Callers of `CommandJobs` repeat their calls without a
bound; the bounds `Asks`, `Listings`, `Actions`, `Acts`, `Changes`, `Turns`,
`Switches` count the requests and the acts of outsiders, and `Looks = 3` lets a wait look until its frames
have pushed an older one out. The properties of
`Operations`, `CommandJobs`, `HeavyLimiter`, `OutputStore`, `Terminals`, `Subprocess`, `Edits`,
`GitWorkflow`, `GitHub`, `Transfers`, `ComputerHost`, `X11Input` and `Portal` that section 4 names are also proved, for every value of these bounds.

`CHECK_DEADLOCK FALSE` stands in the runs whose system stops: a server whose jobs,
sessions or calls are over and whose bounds are used up has nothing left to do. The
runs of `Operations` check for deadlock.

### Fairness

Weak fairness for every thread that has something to do: the workers, coroutines
and callbacks of `Operations`; the starts, finishers, watchers and calls in
progress of `CommandJobs`; the starters, readers and closers of `Terminals`; the
caller, the readers, the writer and the callback of `Subprocess`; the helper that serves a
request in `X11Input`, `Elements`, `Portal` and `ComputerHost`. The operating system schedules
threads and none of these regions waits for a lock held across a blocking call.
Time passes (`TimeElapses`), and a pipe that no process holds ends (`PipeEnds`). A wait of the host looks at
its deadline between two polls: strong fairness of `WaitExpires` says that one which comes back to it again and again has
passed it at last.
A tool that is not waiting for a process returns sooner or later: one that
is stuck in a system call is outside the claim, as `OPERATIONS.md` says.
Nothing is assumed of clients (they need not call), of commands and processes
(they may run for ever, those that a shell leaves on its terminal too; `Subprocess` has a deadline
instead), of users, window
managers, applications or the portal: `X11Windows` has no liveness property but polls
until a deadline.

### The finding

`jobs_duplicate`: two starts with one concurrency key run in parallel, because the
lock file is checked long before it is written and nothing is held in between.
`server.py:2426` says "Jobs with the same key cannot start in parallel silently."

### By hand

The cfg files that no run uses hold further statements of the documents, comments and
tests, each with a counterexample, and the liveness of the computer host alone.
`tlc -config <cfg> <module>` shows each in seconds to a minute.

| cfg (module) | statement | what happens |
| --- | --- | --- |
| `OperationsAbandoned` (`MCOperations`) | `AbandonedIsNotFinished`, `OPERATIONS.md:77` | a request whose tool is not cancellable, abandoned while AnyIO dispatches it (`server.py:269`), gets a finished record under a live worker; a cancellable one stops at its first checkpoint (`FinishedIsStopped`, proved) |
| `OperationsLateChild` (`MCOperations`) | `LateCancelKeepsChildSuccess`, `OPERATIONS.md:64` | a call of a batch that succeeded before the cancellation reached it is recorded as cancelled (`operations.py:416`) |
| `JobsCancelled` (`MCCommandJobs`) | `CancelledStays`, `commands_edge_test.go:115` | a poll turns a cancelled job into a completed one (`command_tools.py:1413`) |
| `JobsReconciled` (`MCCommandJobs`) | `FinishedNotReconciled`, `test_bounded_output.py:343` | opening an artifact while a job finishes overwrites its verdict with `failed` (`output_store.py:606`) |
| `OutputStoreClose` (`MCResources`) | `JobKeepsManifest`, `test_bounded_output.py:610` | a job whose stream cannot be closed loses its manifest (`output_store.py:277`) |
| `SubprocessStray` (`Subprocess`) | `Returns`, `test_bounded_subprocess.py:107` | a descendant in a session of its own keeps a pipe open, and the call waits in its `close` (`bounded_subprocess.py:242`) |
| `EditsBarred` (`MCEdits`) | `BarredUntouched`, `ARCHITECTURE.md:71` | the rollback of a batch that names a barred file truncates and rewrites that file (`edit_tools.py:808`): the guard is in the operations, not in the restoring |
| `GitWorkflowAudit` (`MCGitWorkflow`) | `PushesAudited`, the comment at `git_workflow_tools.py:520` | a push that runs out of time is not in the audit log |
| `X11InputSignal` (`MCX11Input`) | `SignalReleasesAll`, the docstring at `computer_driver.py:1192` | a signal between an X call and its record leaves a key pressed (`computer_driver.py:1302`) |
| `ComputerHostEnds` (`MCComputerHost`) | `CallsEnd`, holds | two calls of two threads, one failure, one change of focus, fairness: each call ends and the lock of the client is free again |

`CancelledStays`, `CaptureFailureShown` and `FinishedNotReconciled` fail by one pattern: a copy of
the metadata read before a decision and written after it. `NoEarlyVerdict`,
`VerdictHasCause` and `TimeoutReported` say how far the pattern is harmless.
`HostSafe` says how far `InputMeetsItsFrame` holds.

Ten properties without a cfg of their own are not kept either. Under the constants of
their module's run: `SessionLimit` of `Terminals` and `AtMostMax` of `Transfers`
(`COMPUTER_USE.md:126`), limits that are checked before they are consumed, of which
`SharesBounded` and the lease pool keep a weaker bound; `FinishRecorded` of `HeavyLimiter` (`BOUNDED_OUTPUT.md`
on start and finish records), when a call ends with an exception outside its audit;
`CompletedIsWhole` of `OutputStore`, because a command owns nothing between its last
sidecar and its manifest; and `OwnDescriptors` of `Subprocess`, where the writer and the caller close one number.
Under those of `tools` without its `SYMMETRY`: the action property `PullLeavesClean` of `GitWorkflow`
(`git_workflow_tools.py:437`, "so the repo is left clean"), because `git_pull` takes every conflict that is in the tree
for its own, and when it is that of a revert or of a stash, `git merge --abort` fails, unseen
(`git_workflow_tools.py:472`), and the tree stays as it was. `PullsLeaveNone` proves what is true: a pull that met a conflict
leaves no merge or rebase of its own kind, but where git refuses over a file that is staged and changed again.
Under the constants of `JobsReconciled`, with one poller and one failure:
`CaptureFailureShown` of `CommandJobs` (`test_bounded_output.py:603`), since a poll that overlaps
the verdict of a failed capture overwrites it with `completed` (`command_tools.py:1431`). Under those of
`tools`, without its `SYMMETRY` too: `InputMeetsItsFrame` (`COMPUTER_USE.md` on foreground input), because the
focus may move between the capture and the listing of the windows (`controller.go:886`) or after the
check; and the action property `DeadIsLetGo`, because a helper that died
between two calls is not replaced while calls go on (`driver.go:145`). Under those of `ComputerHostEnds` with three
calls and `HostSpec`: `IdsDieWithTheirDriver`, because a driver started anew counts its listings from
one again and takes an old id for its own.

## 4. What is proved

The theorems hold for every set of operations, clients, jobs, heavy calls and callers, every
capacity, history length, number of failures and of restarts. They assume only
the named assumptions of the modules: the kinds of operations are disjoint, a
parent is a request and does not both run batches and launch jobs; jobs, heavy
calls, sessions and artifacts are finite in number; capacities, quotas and limits are positive; a stream
has one sidecar; a request of the computer host is a sequence of one step or more, a request of the
edit tools a list of whole operations, and the root folder is not a file; a git request that makes a
branch names one, and its tool is one of `GitTools`; the scratch key of X11 is no other key, and a
letter, a modifier, a button and a contact of the portal are different things; the windows of a desktop and the nodes of an accessibility tree are finite in number,
and an application has a window.

**Operations.** `TypeInv` is the type invariant with the locals of threads
(`LocalsReady`), inductive by itself. `RecordInv` says who may be inside
`finish`: `finishing` is true exactly while one thread is between its two
locked regions or after it. It gives `AuditAndRecordAgree` and `OutcomeIsFinal`.
`StopInv` adds the life cycle (`LifeOK`), the nesting of batch calls (`ChildOK`)
and, for the wrapper, that a coroutine which found its worker not started has
set the event first (`AbandonOK`); so a worker that starts after all stops at
the gate, which is `FinishedIsStopped`. The same invariant gives
`ActiveStaysListed`. `AskedInv` follows the names of detached operations
through the work lists of cancelling threads and gives `DetachedSurvive`.
`CancellationShows` is inductive over these.

**CommandJobs.** Each theorem has its own inductive strengthening over `TypeOK`:

* `LeaseInv` for `RunningCommandsAreLeased`: a start that is undone had no
  process or has killed it, and a finisher drains only after the process was
  reaped, so no lease is released under a live command. With
  `Cardinality(leased) <= Capacity` it gives `LimitIsKept`.
* `CauseInv` for `VerdictsHaveCauses`: every copy that any call holds blames a
  timeout or a cancellation only with cause, so it may be written back late.
* `StopInv` for `ShutdownStopsCommands`: a live command is in JOB_PROCS as soon
  as its start has returned, and neither its metadata nor any copy is terminal,
  so the sweep of the exit finds it and does not skip it.
* `EarlyInv` for `NoVerdictTooEarly` and `TimeoutsAreReported`: until the
  finisher publishes, a job nobody asked to stop stays registered and held, so
  polls read it as running, the store leaves it alone, and the mark of its
  watcher is overwritten only by copies the file refuses.

**HeavyLimiter.** `LimiterInv` is the types, the life of an entry (`EntriesOK`: in the
table from `Enter` to `Pop`, and for ever after an exception that skips the release)
and the sum of permits and holders. The sum is what bounds the permits, so that
type correctness and counting are one invariant. It gives `PermitsAreKept`,
`ListingIsWithinCapacity`, `LeasesEndWithCalls` and `LimiterImplementsPool`: `Acquire`
is `Take`, `FreePermit` is `Give`, every other step is a stutter.
`ReachInv` follows a cancellation through client, limiter, registry and call: once a
client may say "requested", the event is set or the call has started its process and that
process is dead or about to be killed (`Settled`), and no step of anybody undoes this. It
gives `AcceptedCancelsReach`, and all four together `LeasesAreSafe`, the property of
the run.

**Cancellations.** `CancellationsHold` bundles four promises, and `OperationsProofs` has an
invariant for each on top of `StopInv`. `AuditedInv`: whoever sets the event of an operation
first, under the lock, is the only thread with its audit line to write. `CallbackInv`: the
callback that was handed out with the event is in one thread's hands only and nobody has
called it. `KillInv`: as long as a cancellable tool waits for its process, its
callback is registered, and a callback that has ended has killed the process or found it gone.
`SuccessInv`: the verdict is settled before the record is finished, and a late cancellation does not
change it. Proving this showed that `NoLostCancel` must speak of cancellable operations only:
an uncancellable request that is abandoned before its worker starts has its event set by the
wrapper, although nobody accepted a cancellation. `KeptInv` gives every finished record a place
of its own in the order of the clock; it gives `HistoryKeepsNewest` and `HistoryIsBounded`: a prune keeps
at most `MaxHistory` finished records, since each one that it keeps has fewer newer ones, and no two
have equally many.

**Terminals.** `SessionInv` says by the places of the starter and of the reader who has the lease and the
descriptor (`PhasesOK`, `ReadersOK`), that closers only meet sessions in the table and write
"closed" only after the shell is gone (`ClosersOK`), and that the number which a writer has read is
still right while the shell lives (`DescriptorsOK`). It gives `SessionsAreSafe`. `SessionsUsePool` shows that
sessions take from the lease pool and give back only as the pool allows, whence `ActiveAreBounded`: the
bound on sessions and open pseudo terminals that the check of the session limit does not give.
`EndIsFinal` is the action property that no thread revives a session that has ended or is on its way there.

**Subprocess.** `CallInv` says what the caller has in hand at each of its steps (`CallerOK`),
when a reader may call itself done (`ReadersOK`) and on what the caller goes on to close
(`AnswersOK`). It gives `CallsAreSafe`, on POSIX and Windows, and `PromptAnswersAreComplete`: when no
reader with work to do misses a deadline, what is returned is all that was written.

**OutputStore.** `StoreInv` is a conjunction over captures: what the phase of a capture says
of its streams, its manifest, its owners, its files, and of the metadata write it holds
the lock for. A step touches one capture; of the others it may only take what nobody
owns (`Spared`), so that a step lemma looks at one capture and a frame lemma at the rest.
Expiry spares an owned artifact only by the status in its manifest; that this is enough is `StatusOK`
with the order of the writes, and that a mark of the reconciliation never meets the manifest of a
running job is `LookOK` with `HoldsOK`. It gives `CapturesAreSafe` and `OwnedIsKept`, the latter
an action property of every step of every other thread. `AccountInv` adds the counts. A step either
leaves the charge and the chunks of an artifact alone (`Steady`), or moves one chunk from charged to
written. The cached total is kept in two ways that differ: charged in advance and given back, or counted
from the disk at any moment (`usage_bytes` after a refresh or a rollback). What makes them agree is
the set of units that will be on disk when all that is charged has arrived (`Future`): at most one unit per
stream of it is not there yet (`Room`, since a stream that writes metadata has no chunk on its way),
and a replaced manifest, whose length is still to be given back, is there already (`AuxOK`). So a total, whether
kept or counted, falls short by no more (`Short`), and each step that counts takes and brings as many
units as it takes from and adds to the total (`Reckoned`). It gives `AccountsAreSafe`, for as long as
only one capture has begun: two captures may lose each other's charges, since a count is stored
without the lock.

**ComputerHost.** `HandOK`: what the desktop took of the call in hand is exactly what the
request has before the place that the host has reached (`Reached`), however the step may have
branched. Each way to leave a step keeps it by one of three lemmas (`Failed`, `Finished`, `WentOn`)
after what surrounds the call is known to be right (`Around`); an input is `OneInput`. An answer then
tells a beginning of the request, and all of it when it says so, which is `DeliveredAsTold`.
`FocusOK` carries the check of the focus to the inputs of the same step, and `SightOK` and `FramesOK` the
capture to the listing of the windows: as long as the focus has not moved, the window that is told is the one that
is shown (`AimFacts` and `HitFacts` put both together at an input). `LateOK` does the same for the inputs that helpers have in hand
when their host dies (`LateFits`): each is the next one of its call, so that what the desktop took of that call is
still a beginning of it when the input has come. `NewestFramesKept` counts:
the oldest frame has an id, the frames of higher ids are at most as many as the ids that
were given since (`AsManyAsIds`). It gives `HostIsSafe`.

**X11Input.** `DriverInv` accounts for every key and button: what is held was asked for and not yet asked
back (`HeldIsAskedFor`), or is in the hands of the request (its own strokes, the modifiers it must
lift); what is down is remembered, but for the one key a signal has torn from its record. A refusal of the
X server and a signal may come at every step, so that each account says whose failure may have left it
open. The scratch keycode has places of its own: where it may be mapped, and that only its own stroke has it
down. It gives `InputIsSafe` and `KeysKeepTheirMeaning`.

**Portal.** `PortalInv` follows the attempts at a session (one token each, that of the disk, and a dialog
without one is the last; a spent one on the disk is being tried, or the run has failed: `DiskOK`), and the plan of a request from its end: whatever a plan sends first, it ends as its
kind does (`Follows`, proved for every plan and any number of modifiers or contacts), so that what the request
has pressed and not yet remembered is known at every step (`OwingOK`). What the compositor takes for
pressed is what is held, unless a letter was pressed under other modifiers than it was released
under (`PressedOK`). It gives `PortalStaysSafe` and `PersonIsAskedOnce`.

**X11Windows.** `WindowsInv` says what of a request is still in the mail: a window that was placed is there, or
its message is on its way and nothing before it makes the window big again (`BoundsOK`); the focus
has been where the answer will say (`FocusOK`); a window that is gone does not come back (`CloseOK`). While the
windows stand still, what `app_at` has yet to look at is the end of the stacking order, and nothing before it would take
a click (`ScanOK`). It gives `WindowsStaySafe`.

**Elements.** `TreeInv` numbers the newest listing one by one and gives older ids older epochs (`IdsOK`), keeps what
was secure all the time out of what is told or about to be read (`SecretsOK`), and toggles a node only when it is
not as asked (`TogglesOK`). `ListingOK` is the usual account of a graph traversal, for trees with
cycles and nodes under two parents: what the walk has passed has its children passed or stacked, so that at its end
it is closed and holds the least closed set; what it has passed and matches is listed, once each, and a listing that
is cut short is full and misses one (`ListingIsWhole` counts them). It gives `ElementsStaySafe`.

**Edits.** `EditInv` is a statement per call (`Sound`): it has read every path that it names before it
changes one, it counts its results, it edits what its hash names, and while it undoes a batch, the files that
may still differ from what they were (`Dirty`) are those it has yet to restore or that somebody else
has changed. A frame lemma (`OthersStaySound`) says that the writes of one call only make files foreign to the
others. It gives `EditsAreSafe` and `PreviewsAreHarmless`.

**GitWorkflow.** There is one lemma for each git command: it keeps a possible repository possible and leaves alone what
its request does not name (`Leaves`). A plan adds that its request was granted and where in the plan it is. It
gives `EditsAreNotLost` (what somebody edited goes only in a confirmed call that discards, in a confirmed pull that ends
a rebase, into a commit, or when a call ends a merge or a revert, and then only what was staged or changed where it
conflicted), `PullsLeaveNone`, `RemoteIsGuarded`, `YoungBranchesGo` and, with the audit after the
push, `PushesAreAudited`.

**GitHub.** Every plan of every tool asks before it acts and audits after it (`Promised`); a step down a plan keeps
that promise (`PlanGoesOn`). It gives `ActsAreGranted` and `ActsAreAudited`, and with the git tools `RemoteIsSafe`.

**Transfers.** A temporary file is there only while its download works on it, whence
`DownloadsLeaveNothing` and `DownloadsOverwriteNothing`. The bound on shares counts with them the requests that have
made room and not yet used it (`RoomOK`), and gives `SharesAreBounded`. `NothingGetsLost` puts the action
properties of edits, git and downloads together, as the run states them.

Each step lemma has one step per action and below it one per conjunct the
action can disturb. The invariants were model-checked on small instances first; a few
conjuncts (`WatcherLater`, `LostTogether`, the start part of `Traces`) were
found while proving.

**Only model-checked.** The liveness properties (`CancellationsEnd`, `JobEnds`,
`SessionsEnd`, `Returns`, `HelpersEnd`), since the provers do not handle fairness and
`ENABLED`; `NoDuplicate`, which does not hold; and `TextsSafe`, what an edit makes of the lines of a text (folds
over sequences, whose value for every text would need induction over data). The modules declare no recursive operator:
the computations over sequences are folds and library operators, so that every module can be
proved about.

## 5. Plan

What is left is the Go registry and jobs, as variants of `Operations` and `CommandJobs`.

## 6. Not modelled, and why

* The command policy and the security perimeter are pure decisions over the text of a
  command or a path, with table-driven tests; `Edits` takes the outcome as the set of barred
  files. Configuration, profiles and workspace detection are read once at start.
* `git_tools.py`, the filesystem, index and language tools read and keep no state between
  calls, but for `search_text`, which is a caller of the limiter.
* The Windows and macOS drivers are twins of the Linux one in PowerShell and
  Swift; the Go server and its client of the host are twins of the Python ones.
* Contracts and schemas are generated. The geometry and scaling of pictures, the
  streams of the portal, the marshalling of D-Bus and the installation of the helpers' files
  are data or I/O.
* Within the modelled components: session identity, progress counters and
  the internal maintenance record of the registry; log reading, paging and summaries; the
  parsing of what git and gh print; the diffs of edits; Windows job objects
  outside `Subprocess`; processes that leave their group outside `Subprocess` and `Terminals`; reuse of process ids;
  the reading of text in a frame and the status call of the computer host; a `git apply` of `Patch` that runs out of
  time, and a removal that fails in `Transfers`.
