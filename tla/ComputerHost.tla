--------------------------- MODULE ComputerHost ---------------------------
(***************************************************************************)
(* The computer host and the server's client of it: computer_client.py,    *)
(* the companion's main.go, controller.go and driver.go.  The server holds *)
(* one lock for a whole call; the host serves one line at a time through a *)
(* driver and, on Wayland, a portal helper that it starts when they are    *)
(* needed, restarts after a failure and releases when nobody calls.        *)
(*                                                                         *)
(* A call is a sequence of steps: an operation is one step, and            *)
(* computer_sequence is several.  A helper may refuse, time out or die at  *)
(* any request, with what it was asked for done or not, and between two    *)
(* requests; the host may die, whose helpers still finish what they have   *)
(* in hand; the focus may move; snapshots grow old.  The reading of text   *)
(* in a frame (include_ocr) is left out.                                   *)
(***************************************************************************)
EXTENDS Naturals, Sequences, FiniteSets

CONSTANTS
    Callers,        \* threads of the server
    NoCaller,
    Windows,        \* native windows
    NoWindow,       \* no window has the focus, or its identity is not known
    MaxSnapshots,   \* maxRetainedSnapshots
    MaxSteps,       \* COMPUTER_MAX_SEQUENCE_STEPS
    Wanted,         \* the kinds of steps that callers ask for
    Asks, Upsets, Switches, \* bounds: calls, failures, changes of focus
    Looks           \* bound: a wait that has seen as many frames or listings looks no more

Framed == {"click", "type", "zoom", "share"}          \* need a snapshot
Foreground == {"click", "type"}                       \* and the focus where it was
Semantic == {"element", "window"}                     \* need only the driver
ControlMethods == Foreground \cup Semantic
\* wait, until what; "sleep" is until=time.
Waits == {"wait_stable", "wait_text", "wait_element", "wait_window"}
Sequenced == ControlMethods \cup Waits \cup {"sleep"} \* what sequence allows
Kinds == Framed \cup Sequenced \cup {"observe", "list"}

\* What the constants must be.
ASSUME ComputerHostAssumption ==
    /\ NoCaller \notin Callers /\ NoWindow \notin Windows
    /\ {MaxSnapshots, MaxSteps} \subseteq Nat \ {0} /\ {Asks, Upsets, Switches, Looks} \subseteq Nat
    /\ Wanted \subseteq Seq(Kinds) \ {<<>>}

VARIABLES
    wayland,    \* the session is a Wayland session: the portal is eye and hand
    control,    \* COMPUTER_CONTROL_ENABLED
    host,       \* the companion: "none", "up" or "exited", as poll() would tell
    turn,       \* the caller that holds ComputerHostClient._lock
    calls,      \* the steps that each caller asks for, <<>> for nothing
    at, step,   \* where the host is in the call of turn
    helper,     \* driver and portal: "none", "up", "ended" by the host, or "dead" by itself
    epoch,      \* the driver's count of its listings of elements
    snaps, shots,   \* Controller.snapshots, and how many frames were made
    sight,      \* of the frame in hand: the window that had the focus when it was captured, the
                \* window that the driver told, and whether the focus may have moved in between
    ids,        \* the element ids that were told, and whether the driver that told them is there
    evicted,    \* the newest snapshot that was dropped for a newer one
    took,       \* the inputs of this call that the desktop took
    acts,       \* the ids of the elements that were acted on
    focus,      \* the window that has the focus
    moved,      \* it may have moved since a check told it, or since a capture
    answer,     \* the last answer, until the next call: its outcome, its steps, what the desktop took
    late,       \* calls whose host died with an input in the hand of a helper: their steps, what the
                \* desktop took, the input, and whether it is still in hand
    asks, upsets, switches

clientVars == <<turn, calls, answer, asks>>
runtimeVars == <<host, helper, epoch, ids>>
frameVars == <<snaps, shots, sight, evicted>>
handVars == <<took, acts>>
desktopVars == <<focus, moved, switches>>
hostVars == <<wayland, control, clientVars, at, step, runtimeVars, frameVars, handVars, desktopVars, late, upsets>>

-----------------------------------------------------------------------------
\* The inputs of a step: computer_type clears, types and submits.
Parts(kind) ==
    CASE kind = "type" -> 3
      [] kind \in {"click"} \cup Semantic -> 1
      [] OTHER -> 0

\* Who captures and presses, and who is there at all.
Eye == IF wayland THEN "portal" ELSE "driver"
Helpers == IF wayland THEN {"driver", "portal"} ELSE {"driver"}

\* A step names a snapshot, 0 for one that is gone, or an element id that was told.
NoElement == [epoch |-> 0, mine |-> FALSE]
FrameOf(kind) == IF kind \in Framed THEN {0} \cup {s.id : s \in snaps} ELSE {0}
ElementOf(kind) == IF kind = "element" THEN ids ELSE {NoElement}
StepsOf(w) ==
    {r \in [1..Len(w) -> [kind : {w[i] : i \in 1..Len(w)}, frame : UNION {FrameOf(w[i]) : i \in 1..Len(w)},
                          id : UNION {ElementOf(w[i]) : i \in 1..Len(w)}]] :
        \A i \in 1..Len(w) : r[i].kind = w[i] /\ r[i].frame \in FrameOf(w[i]) /\ r[i].id \in ElementOf(w[i])}

Now == calls[turn][step]
NoSight == [shown |-> NoWindow, window |-> NoWindow, blurred |-> TRUE]
NoAnswer == [ok |-> TRUE, steps |-> <<>>, took |-> <<>>]
Frame == CHOOSE s \in snaps : s.id = Now.frame
Young == {s \in snaps : ~s.old}

HostInit ==
    /\ wayland \in BOOLEAN /\ control \in BOOLEAN
    /\ host = "none" /\ turn = NoCaller /\ calls = [t \in Callers |-> <<>>] /\ at = "idle" /\ step = 0
    /\ helper = [h \in {"driver", "portal"} |-> "none"] /\ epoch = 0
    /\ snaps = {} /\ shots = 0 /\ sight = NoSight /\ ids = {} /\ evicted = 0
    /\ took = <<>> /\ acts = {} /\ focus \in Windows /\ moved = TRUE
    /\ answer = NoAnswer /\ late = {}
    /\ asks = 0 /\ upsets = 0 /\ switches = 0

-----------------------------------------------------------------------------
(* The call and its answer. *)

\* computer_call: the thread waits for the lock of the client.
Call(t) ==
    /\ calls[t] = <<>> /\ asks < Asks
    /\ \E w \in Wanted : \E r \in StepsOf(w) : calls' = [calls EXCEPT ![t] = r]
    /\ asks' = asks + 1
    /\ UNCHANGED <<wayland, control, turn, answer, at, step, runtimeVars, frameVars, handVars, desktopVars, late, upsets>>

\* The line that ends the call of t; an error tells nothing else, also not the results of the
\* steps before it.
Answer(t, ok) ==
    /\ answer' = [ok |-> ok, steps |-> calls[t], took |-> took']
    /\ calls' = [calls EXCEPT ![t] = <<>>] /\ turn' = NoCaller /\ at' = "idle" /\ step' = 0
    /\ UNCHANGED asks

GoTo(place) == at' = place /\ UNCHANGED <<clientVars, step>>
Finish ==
    IF step < Len(calls[turn]) THEN at' = "step" /\ step' = step + 1 /\ UNCHANGED clientVars
    ELSE Answer(turn, TRUE)

\* isControlMethod: a sequence is one, whatever its steps are.
Gated(r) == (Len(r) > 1 \/ r[1].kind \in ControlMethods) /\ ~control

\* ensureRuntimeLocked starts what is missing; running() knows only of the helpers that this host
\* has ended, and takes one that died by itself for running.
Ensured == [h \in {"driver", "portal"} |-> IF h \in Helpers /\ helper[h] # "dead" THEN "up" ELSE helper[h]]

\* _ensure_process starts a host when poll() tells that there is none; the host reads the line,
\* drops old snapshots, starts its helpers and counts the steps of a sequence.
Take(t) ==
    /\ turn = NoCaller /\ calls[t] # <<>>
    /\ host' = "up" /\ took' = <<>>
    /\ IF Gated(calls[t]) THEN UNCHANGED <<helper, epoch, ids, snaps>>
       ELSE /\ snaps' = Young /\ helper' = Ensured
            /\ IF helper["driver"] \in {"up", "dead"} THEN UNCHANGED <<epoch, ids>>
               ELSE epoch' = 0 /\ ids' = {[i EXCEPT !.mine = FALSE] : i \in ids}
    /\ IF Gated(calls[t]) \/ Len(calls[t]) > MaxSteps THEN Answer(t, FALSE)
       ELSE turn' = t /\ at' = "step" /\ step' = 1 /\ answer' = NoAnswer /\ UNCHANGED <<calls, asks>>
    /\ UNCHANGED <<wayland, control, shots, sight, evicted, acts, desktopVars, late, upsets>>

\* A helper that is missing cannot be started: the driver is not there, or is closed because the
\* portal is not.
StartFails(t) ==
    /\ turn = NoCaller /\ calls[t] # <<>> /\ ~Gated(calls[t]) /\ upsets < Upsets
    /\ \E h \in Helpers : helper[h] \in {"none", "ended"}
    /\ host' = "up" /\ took' = <<>> /\ snaps' = Young
    /\ helper' = [h \in {"driver", "portal"} |-> IF h = "driver" \/ helper[h] = "ended" THEN "none" ELSE helper[h]]
    /\ Answer(t, FALSE) /\ upsets' = upsets + 1
    /\ UNCHANGED <<wayland, control, epoch, ids, shots, sight, evicted, acts, desktopVars, late>>

-----------------------------------------------------------------------------
(* A request to a helper, lineProcess.call. *)

Outcome(ok, done, then) == [ok |-> ok, done |-> done, then |-> then]

\* A refusal leaves the helper; a fatal error, a timeout or an end ends it, with the request done
\* or not; the write to a helper that died fails and ends nothing.
Outcomes(h) ==
    CASE helper[h] = "up" -> {Outcome(TRUE, TRUE, "up")} \cup
            (IF upsets < Upsets THEN {Outcome(FALSE, FALSE, "up"), Outcome(FALSE, FALSE, "ended"), Outcome(FALSE, TRUE, "ended")}
             ELSE {})
      [] OTHER -> {Outcome(FALSE, FALSE, helper[h])}
Requested(h, o) ==
    /\ helper' = [helper EXCEPT ![h] = o.then]
    /\ upsets' = IF helper[h] = "up" /\ ~o.ok THEN upsets + 1 ELSE upsets
    /\ UNCHANGED host

-----------------------------------------------------------------------------
(* The steps, callLocked. *)

\* A sequence looks at the names of its operations as it comes to them.
Unsupported ==
    /\ at = "step" /\ Len(calls[turn]) > 1 /\ Now.kind \notin Sequenced
    /\ UNCHANGED took /\ Answer(turn, FALSE)
    /\ UNCHANGED <<wayland, control, runtimeVars, frameVars, acts, desktopVars, late, upsets>>
Supported == at = "step" /\ (Len(calls[turn]) > 1 => Now.kind \in Sequenced)

\* Mutant of Stale: a sequence goes on with its next step.
StaleSkipped == snaps' = {s \in snaps : s.id # Now.frame} /\ Finish
\* An expired snapshot is dropped, and the call ends with stale_snapshot.
Stale == snaps' = {s \in snaps : s.id # Now.frame} /\ Answer(turn, FALSE)

\* snapshot: unknown, expired, or there.
LookUp ==
    /\ Supported /\ Now.kind \in Framed /\ UNCHANGED took
    /\ IF \E s \in Young : s.id = Now.frame
       THEN /\ CASE Now.kind = "share" -> Finish
                 [] Now.kind = "zoom" -> GoTo("observe")
                 [] OTHER -> GoTo("check")
            /\ UNCHANGED snaps
       ELSE Stale
    /\ UNCHANGED <<wayland, control, runtimeVars, shots, sight, evicted, acts, desktopVars, late, upsets>>

\* validateSnapshotContext: on X11 the window of the snapshot must have the focus still, as far as
\* the driver tells.
Check ==
    /\ at = "check" /\ UNCHANGED <<took, late>>
    /\ IF wayland \/ Frame.window = NoWindow THEN GoTo("input") /\ moved' = TRUE /\ UNCHANGED <<runtimeVars, upsets>>
       ELSE \E o \in Outcomes("driver") :
            /\ Requested("driver", o) /\ UNCHANGED <<epoch, ids>>
            /\ IF o.ok /\ focus \notin {NoWindow, Frame.window} THEN Answer(turn, FALSE) /\ UNCHANGED moved
               ELSE GoTo("input") /\ moved' = ~(o.ok /\ focus # NoWindow)
    /\ UNCHANGED <<wayland, control, frameVars, acts, focus, switches>>

\* The next input of the step, and the frame that it is meant for, ...
Nth == IF took # <<>> /\ took[Len(took)].step = step THEN took[Len(took)].nth + 1 ELSE 1
Aim ==
    IF Now.kind \in Semantic
    THEN [step |-> step, nth |-> 1, moved |-> TRUE, window |-> NoWindow, shown |-> NoWindow, blurred |-> TRUE]
    ELSE [step |-> step, nth |-> Nth, moved |-> moved, window |-> Frame.window, shown |-> Frame.shown,
          blurred |-> Frame.blurred]

\* ... as the desktop takes it.
Hit(aim) ==
    [step |-> aim.step, nth |-> aim.nth, moved |-> aim.moved, blurred |-> aim.blurred,
     astray |-> NoWindow \notin {aim.window, focus} /\ aim.window # focus,
     shown |-> (NoWindow \in {aim.shown, focus} \/ aim.shown = focus)]

\* input: one of the inputs of the step.
Input ==
    /\ at = "input"
    /\ \E o \in Outcomes(Eye) :
        /\ Requested(Eye, o) /\ took' = IF o.done THEN Append(took, Hit(Aim)) ELSE took
        /\ IF ~o.ok THEN Answer(turn, FALSE)
           ELSE IF Nth < Parts(Now.kind) THEN GoTo("input") ELSE GoTo("observe")
    /\ UNCHANGED <<wayland, control, epoch, ids, frameVars, acts, desktopVars, late>>

\* element, window and launch: one request to the driver, which knows the ids of its last listing.
Forgotten == Now.kind = "element" /\ helper["driver"] = "up" /\ Now.id.epoch # epoch
ActOutcomes == IF Forgotten THEN {Outcome(FALSE, FALSE, "up")} ELSE Outcomes("driver")
Act ==
    /\ Supported /\ Now.kind \in Semantic
    /\ \E o \in ActOutcomes :
        /\ helper' = [helper EXCEPT !["driver"] = o.then]
        /\ upsets' = IF o.ok \/ helper["driver"] # "up" \/ Forgotten THEN upsets ELSE upsets + 1
        /\ took' = IF o.done THEN Append(took, Hit(Aim)) ELSE took
        /\ acts' = IF o.done /\ Now.kind = "element" THEN acts \cup {Now.id} ELSE acts
        /\ IF o.ok THEN GoTo("observe") ELSE Answer(turn, FALSE)
    /\ UNCHANGED <<wayland, control, host, epoch, ids, frameVars, desktopVars, late>>

\* A listing of the elements gives them new ids.
Listed(o) ==
    /\ epoch' = IF o.ok THEN epoch + 1 ELSE epoch
    /\ ids' = IF o.ok THEN ids \cup {[epoch |-> epoch + 1, mine |-> TRUE]} ELSE ids

\* elements, and windows, which lists none.
List ==
    /\ Supported /\ Now.kind = "list" /\ UNCHANGED took
    /\ \E o \in Outcomes("driver") :
        /\ Requested("driver", o) /\ (Listed(o) \/ UNCHANGED <<epoch, ids>>)
        /\ IF o.ok THEN Finish ELSE Answer(turn, FALSE)
    /\ UNCHANGED <<wayland, control, frameVars, acts, desktopVars, late>>

Enter ==
    /\ Supported /\ Now.kind \in {"observe", "sleep"} \cup Waits
    /\ GoTo(IF Now.kind \in Waits THEN "poll" ELSE Now.kind)
    /\ UNCHANGED <<wayland, control, runtimeVars, frameVars, handVars, desktopVars, late, upsets>>

\* capture; its failure makes the outcome of an input only uncertain, and to a poll it is nothing.
Capture ==
    /\ at = "observe" /\ UNCHANGED took
    /\ \E o \in Outcomes(Eye) :
        /\ Requested(Eye, o)
        /\ IF o.ok THEN GoTo("windows") /\ sight' = [NoSight EXCEPT !.shown = focus] /\ moved' = FALSE
           ELSE /\ \/ Now.kind \in ControlMethods /\ Finish
                   \/ Now.kind = "wait_text" /\ GoTo("poll")
                   \/ Now.kind \notin ControlMethods \cup {"wait_text"} /\ Answer(turn, FALSE)
                /\ UNCHANGED <<sight, moved>>
    /\ UNCHANGED <<wayland, control, epoch, ids, snaps, shots, evicted, acts, focus, switches, late>>

\* buildScene asks for the windows after the capture, then for the focused element and the cursor,
\* whatever comes of each, ...
AskWindows ==
    /\ at = "windows" /\ UNCHANGED took
    /\ \E o \in Outcomes("driver") :
        /\ Requested("driver", o)
        /\ sight' = IF o.ok THEN [sight EXCEPT !.window = focus, !.blurred = moved] ELSE sight
    /\ GoTo("focused") /\ moved' = TRUE
    /\ UNCHANGED <<wayland, control, epoch, ids, snaps, shots, evicted, acts, focus, switches, late>>
Glance ==
    /\ at \in {"focused", "cursor"} /\ UNCHANGED took
    /\ \E o \in Outcomes("driver") : Requested("driver", o)
    /\ GoTo(IF at = "focused" THEN "cursor" ELSE "elements")
    /\ UNCHANGED <<wayland, control, epoch, ids, frameVars, acts, desktopVars, late>>

\* ... and for the elements.
AskElements ==
    /\ at = "elements" /\ UNCHANGED took
    /\ \E o \in Outcomes("driver") : Requested("driver", o) /\ Listed(o)
    /\ GoTo("remember")
    /\ UNCHANGED <<wayland, control, frameVars, acts, desktopVars, late>>

\* rememberSnapshot: old ones go, and the oldest when there are too many.
Kept(new) ==
    IF Cardinality(Young) < MaxSnapshots THEN Young \cup {new}
    ELSE (Young \ {CHOOSE s \in Young : \A r \in Young : s.id <= r.id}) \cup {new}

\* The frame is kept, and a wait for a text looks for it there.
Remember ==
    /\ at = "remember" /\ UNCHANGED took
    /\ snaps' = Kept([id |-> shots + 1, old |-> FALSE, window |-> sight.window, shown |-> sight.shown,
                      blurred |-> sight.blurred])
    /\ shots' = shots + 1 /\ sight' = NoSight
    /\ evicted' = IF Young \subseteq snaps' THEN evicted ELSE CHOOSE e \in 1..shots : Young \ snaps' = {s \in Young : s.id = e}
    /\ Finish \/ (Now.kind = "wait_text" /\ GoTo("poll"))
    /\ UNCHANGED <<wayland, control, runtimeVars, acts, desktopVars, late, upsets>>

\* wait polls whatever a poll says, until what it waits for is there or its deadline: with captures
\* that are not kept, after which it observes; with frames that are; or with listings of windows, or
\* of elements, which moves their ids.
PollStable ==
    /\ at = "poll" /\ Now.kind = "wait_stable" /\ UNCHANGED took
    /\ \E o \in Outcomes(Eye) : Requested(Eye, o) /\ \E place \in {"poll"} \cup (IF o.ok THEN {"observe"} ELSE {}) : GoTo(place)
    /\ UNCHANGED <<wayland, control, epoch, ids, frameVars, acts, desktopVars, late>>
PollText ==
    /\ at = "poll" /\ Now.kind = "wait_text" /\ shots < Looks /\ GoTo("observe")
    /\ UNCHANGED <<wayland, control, runtimeVars, frameVars, handVars, desktopVars, late, upsets>>
PollDriver ==
    /\ at = "poll" /\ Now.kind \in {"wait_element", "wait_window"} /\ epoch < Looks /\ UNCHANGED took
    /\ \E o \in Outcomes("driver") :
        /\ Requested("driver", o) /\ (IF Now.kind = "wait_element" THEN Listed(o) ELSE UNCHANGED <<epoch, ids>>)
        /\ GoTo("poll") \/ (o.ok /\ Finish)
    /\ UNCHANGED <<wayland, control, frameVars, acts, desktopVars, late>>
Poll == PollStable \/ PollText \/ PollDriver

WaitExpires ==
    /\ at = "poll" /\ UNCHANGED took /\ Answer(turn, FALSE)
    /\ UNCHANGED <<wayland, control, runtimeVars, frameVars, acts, desktopVars, late, upsets>>
Wake ==
    /\ at = "sleep" /\ UNCHANGED took /\ Finish
    /\ UNCHANGED <<wayland, control, runtimeVars, frameVars, acts, desktopVars, late, upsets>>

-----------------------------------------------------------------------------
(* The end of the host, and the world. *)

\* The host is gone with its frames.  Its helpers are not: each has a process group of its own,
\* which nobody signals, finishes what it has in hand, and ends when it reads the end of its input.
\* The next host starts others.
HostGone(then) ==
    /\ host' = then /\ helper' = [h \in {"driver", "portal"} |-> "none"]
    /\ snaps' = {} /\ sight' = NoSight /\ upsets' = upsets + 1
    /\ UNCHANGED <<wayland, control, epoch, ids, shots, evicted, acts, desktopVars>>

\* What a helper may have in hand: an input that was written to it, and that it does.
InHand ==
    IF (at = "input" /\ \E o \in Outcomes(Eye) : o.done)
       \/ (Supported /\ Now.kind \in Semantic /\ \E o \in ActOutcomes : o.done)
    THEN {[steps |-> calls[turn], took |-> took, aim |-> Aim, due |-> TRUE]} ELSE {}

\* A sleep may outlast the 185 seconds of the client, which then kills the host.
ClientTimeout ==
    /\ at = "sleep" /\ upsets < Upsets
    /\ UNCHANGED <<took, late>> /\ Answer(turn, FALSE) /\ HostGone("none")

\* The host dies in a call: the client reads the end of its output.
HostDies ==
    /\ turn # NoCaller /\ upsets < Upsets
    /\ \E hand \in SUBSET InHand : late' = late \cup hand
    /\ UNCHANGED took /\ Answer(turn, FALSE) /\ HostGone("none")
HostDiesIdle ==
    /\ turn = NoCaller /\ host = "up" /\ upsets < Upsets
    /\ UNCHANGED <<took, clientVars, at, step, late>> /\ HostGone("exited")

\* A helper without a host does what it had in hand, after the answer and perhaps in another call.
LateInput ==
    /\ \E l \in late :
        /\ l.due
        /\ late' = (late \ {l}) \cup {[l EXCEPT !.took = Append(@, Hit(l.aim)), !.due = FALSE]}
    /\ UNCHANGED <<wayland, control, clientVars, at, step, runtimeVars, frameVars, handVars, desktopVars, upsets>>

\* idleLoop lets everything go when the driver is there and nobody called.
IdleRelease ==
    /\ turn = NoCaller /\ helper["driver"] # "none"
    /\ helper' = [h \in {"driver", "portal"} |-> "none"] /\ snaps' = {}
    /\ UNCHANGED <<wayland, control, clientVars, at, step, host, epoch, ids, shots, sight, evicted, handVars, desktopVars, late, upsets>>

\* A helper dies while nobody asks it.
HelperDies(h) ==
    /\ helper[h] = "up" /\ upsets < Upsets
    /\ helper' = [helper EXCEPT ![h] = "dead"] /\ upsets' = upsets + 1
    /\ UNCHANGED <<wayland, control, clientVars, at, step, host, epoch, ids, frameVars, handVars, desktopVars, late>>

SwitchFocus ==
    /\ switches < Switches /\ switches' = switches + 1
    /\ focus' \in (Windows \cup {NoWindow}) \ {focus} /\ moved' = TRUE
    /\ late' = {[l EXCEPT !.aim.moved = TRUE] : l \in late}
    /\ UNCHANGED <<wayland, control, clientVars, at, step, runtimeVars, frameVars, handVars, upsets>>

\* Time passes over COMPUTER_SNAPSHOT_TTL_SECONDS: the oldest snapshot first.
GrowOld ==
    /\ at \in {"idle", "step"}
    /\ \E s \in Young : (\A r \in Young : s.id <= r.id) /\ snaps' = (snaps \ {s}) \cup {[s EXCEPT !.old = TRUE]}
    /\ UNCHANGED <<wayland, control, clientVars, at, step, runtimeVars, shots, sight, evicted, handVars, desktopVars, late, upsets>>

Serve ==
    \/ \E t \in Callers : Take(t) \/ StartFails(t)
    \/ Unsupported \/ LookUp \/ Check \/ Input \/ Act \/ List \/ Enter \/ Capture
    \/ AskWindows \/ Glance \/ AskElements \/ Remember
    \/ Poll \/ WaitExpires \/ Wake
HostNext ==
    \/ \E t \in Callers : Call(t)
    \/ Serve
    \/ ClientTimeout \/ HostDies \/ HostDiesIdle \/ LateInput \/ IdleRelease \/ SwitchFocus \/ GrowOld
    \/ \E h \in Helpers : HelperDies(h)

HostSpec == HostInit /\ [][HostNext]_hostVars
\* The host goes on, and a wait that comes back to its deadline again and again has passed it at last.
FairHostSpec == HostSpec /\ WF_hostVars(Serve) /\ SF_hostVars(WaitExpires)

-----------------------------------------------------------------------------
(* Properties *)

\* The type of the state.
HostTypeOK ==
    /\ {wayland, control, moved} \subseteq BOOLEAN /\ host \in {"none", "up", "exited"}
    /\ turn \in Callers \cup {NoCaller} /\ (turn = NoCaller <=> at = "idle")
    /\ at \in {"idle", "step", "check", "input", "observe", "windows", "focused", "cursor", "elements", "remember", "poll", "sleep"}
    /\ step \in 0..MaxSteps
    /\ helper \in [{"driver", "portal"} -> {"none", "up", "ended", "dead"}] /\ (~wayland => helper["portal"] = "none")
    /\ focus \in Windows \cup {NoWindow} /\ evicted \in 0..shots
    /\ \A s \in snaps : s.id \in 1..shots /\ s.window \in Windows \cup {NoWindow}

\* The inputs that a call asks for, <<step, nth>>, and their order.
Inputs(r) == {p \in (1..Len(r)) \X (1..3) : p[2] <= Parts(r[p[1]].kind)}
Before(p, q) == p[1] < q[1] \/ (p[1] = q[1] /\ p[2] < q[2])

\* Where the inputs are that the desktop has taken.
Told(given) == {<<given[n].step, given[n].nth>> : n \in DOMAIN given}
InOrder(given) == \A n, m \in DOMAIN given :
    n < m => Before(<<given[n].step, given[n].nth>>, <<given[m].step, given[m].nth>>)

\* What was taken of a request is its beginning, each input once and in its order.
Beginning(r, given) ==
    /\ InOrder(given) /\ Told(given) \subseteq Inputs(r)
    /\ \A p \in Inputs(r), q \in Told(given) : Before(p, q) => p \in Told(given)

\* What the desktop took of a call is the beginning of what was asked for, each input once and in
\* its order, and all of it when the call was answered with success (typeText, sequence: "stopping
\* on first error"); also when its host died, and a helper did the input in hand after the answer.
DeliveredAsTold ==
    /\ Beginning(answer.steps, answer.took) /\ (answer.ok => Told(answer.took) = Inputs(answer.steps))
    /\ \A l \in late : Beginning(l.steps, l.took)

\* An input meets another window than its snapshot names only when the focus could move after the
\* check of that very step told it, and another than its picture shows only then or when it could
\* move between the capture and the listing of the windows.  A late input is no exception.  Nothing
\* is said where no check tells the focus: on Wayland, for a frame whose windows were not told, and
\* after a check that failed or saw no focus.
AsAimed(i) == (i.astray => i.moved) /\ (~i.shown => i.moved \/ i.blurred)
AstrayOnlyAfterSwitch ==
    /\ \A n \in DOMAIN took : AsAimed(took[n])
    /\ \A l \in late : \A n \in DOMAIN l.took : AsAimed(l.took[n])

\* A young snapshot is dropped only for MaxSnapshots newer ones, and no more are kept.
NewestFramesKept ==
    /\ Cardinality(snaps) <= MaxSnapshots
    /\ evicted # 0 => evicted + MaxSnapshots <= shots

\* All of it: what the desktop took is what the answer says; an input goes to another window only
\* when the focus moved after the check of its own step, or while its frame was made; and a frame
\* is dropped only for newer ones.
HostSafe == DeliveredAsTold /\ AstrayOnlyAfterSwitch /\ NewestFramesKept

\* Whoever holds the lock of the client gives it back.
CallsEnd == turn # NoCaller ~> turn = NoCaller

\* COMPUTER_USE.md: foreground input is rejected when the active window changed after the
\* screenshot, where windows are told.  It is not: the window of a frame is asked for after the
\* capture, and checked before the input.
InputMeetsItsFrame == ~wayland => (\A i \in DOMAIN took : took[i].shown)

\* An action on an element is done by the driver that gave the id.  It is not: a driver that is
\* started anew counts its listings from one again.
IdsDieWithTheirDriver == \A i \in acts : i.mine

\* A call that a dead helper failed has let it go.  It has not: the write fails, and nothing ends.
DeadIsLetGo == [][(at \in {"input", "observe"} /\ turn' = NoCaller) => helper'[Eye] # "dead"]_hostVars
=============================================================================
