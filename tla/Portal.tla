------------------------------- MODULE Portal -------------------------------
(***************************************************************************)
(* The Wayland helper (wayland_portal.py): one run opens one session with  *)
(* xdg-desktop-portal, with the permission it has saved or by asking the   *)
(* person, and sends captures and input through it.  Its parent sends one  *)
(* request at a time.  While a portal request is pending the main loop     *)
(* runs: the person answers or stops sharing, 120 seconds pass, or the     *)
(* parent ends the run.  A D-Bus call may fail at any point.               *)
(*                                                                         *)
(* Images, coordinates (a point is on a monitor or off), names and the     *)
(* codes of keys are left out.                                             *)
(***************************************************************************)
EXTENDS Naturals, Sequences, FiniteSets, SequencesExt

CONSTANTS
    Letters,                \* keys whose event depends on the modifiers held
    Modifiers,              \* the modifiers that make a letter a shortcut
    MouseButtons, Slots,    \* mouse buttons; touch contacts
    PortalAsks, Faults      \* bounds: requests, failing calls

\* What the constants must be: a key, a button or a contact is one of these only.
ASSUME PortalAssumption ==
    /\ {PortalAsks, Faults} \subseteq Nat
    /\ IsFiniteSet(Modifiers) /\ IsFiniteSet(Slots)
    /\ Letters \intersect Modifiers = {}
    /\ Slots \intersect (Letters \union Modifiers \union MouseButtons) = {}

VARIABLES
    disk,           \* the saved token: "none", "good", "spent" (used or revoked)
    token,          \* the token of the attempt
    session,        \* self.session: "none", "open", "gone" (closed by the portal)
    started, closed, failed,
    streams,        \* the PipeWire streams are open
    prompts,        \* history: dialogs shown: with a token, and normal ones
    cancelled,      \* history: the person has cancelled a dialog
    spared,         \* history: a token could not be written, or deleted
    portalHeld, touches,    \* keys and buttons, contacts that the driver remembers
    portalOwed,     \* key_mods, button_mods
    pressed,        \* the events the compositor has taken and that are not undone
    portalAsked,    \* history: keys and buttons of a key_down or mouse_down
    crossed,        \* history: a modifier went down or up while a letter was held
    portalRequest, portalPc, plan, portalAcquired, err,
    stop,           \* the parent has closed the input or sent SIGTERM
    portalAsks, faults

grant == <<disk, token, session, started, streams, prompts, cancelled, spared>>
keys == <<portalHeld, touches, portalOwed, pressed, portalAsked, crossed>>
input == <<portalHeld, touches, pressed, portalAsked, crossed>>
portalCall == <<portalRequest, plan, portalAcquired, err>>
portalVars == <<grant, closed, failed, keys, portalCall, portalPc, stop, portalAsks, faults>>

Items == Letters \union Modifiers \union MouseButtons
Nothing == [kind |-> "none", item |-> "", mods |-> {}, off |-> FALSE]

PortalInit ==
    /\ disk \in {"none", "good", "spent"}
    /\ token = "none" /\ session = "none" /\ started = FALSE /\ closed = FALSE /\ failed = FALSE
    /\ streams = FALSE /\ prompts = [saved |-> 0, normal |-> 0] /\ cancelled = FALSE /\ spared = FALSE
    /\ portalHeld = {} /\ touches = {} /\ portalOwed = [i \in Items |-> {}]
    /\ pressed = {} /\ portalAsked = {} /\ crossed = FALSE
    /\ portalRequest = Nothing /\ portalPc = "idle" /\ plan = <<>> /\ portalAcquired = {} /\ err = "no"
    /\ stop = FALSE /\ portalAsks = 0 /\ faults = 0

Fault == faults < Faults /\ faults' = faults + 1
Fails(kind) == err' = kind /\ portalPc' = "undo"

-----------------------------------------------------------------------------
(* Requests: dispatch.                                                      *)

PortalRequests ==
    [kind : {"capture"}, item : {""}, mods : {{}}, off : {FALSE}]
        \union [kind : {"key", "key_down", "key_up"}, item : Letters \union Modifiers, mods : SUBSET Modifiers,
                off : {FALSE}]
        \union [kind : {"click", "drag", "mouse_down", "mouse_up"}, item : MouseButtons, mods : SUBSET Modifiers,
                off : BOOLEAN]
        \union [kind : {"touch"}, item : {""}, mods : {{}}, off : BOOLEAN]

Do(op, x) == [op |-> op, item |-> x]
Move(off) == Do("move", IF off THEN "off" ELSE "on")
Presses(S) == LET order == SetToSeq(S) IN [i \in DOMAIN order |-> Do("press", order[i])]
Contacts(op) == LET order == SetToSeq(Slots) IN [i \in DOMAIN order |-> Do(op, order[i])]

\* What an action sends, in order.
Plan(r) ==
    LET mods == Presses(r.mods \ portalHeld) IN
    CASE r.kind = "key" -> mods \o <<Do("press", r.item), Do("lift", r.item)>>
      [] r.kind = "key_down" -> mods \o <<Do("press", r.item)>>
      [] r.kind = "key_up" -> <<Do("lift", r.item)>>
      [] r.kind = "click" -> mods \o <<Move(r.off), Do("press", r.item), Do("lift", r.item)>>
      [] r.kind = "drag" -> mods \o <<Move(FALSE), Do("press", r.item), Move(r.off), Do("lift", r.item)>>
      [] r.kind = "mouse_down" -> mods \o <<Move(r.off), Do("press", r.item)>>
      [] r.kind = "mouse_up" -> <<Move(r.off), Do("lift", r.item)>>
      [] r.kind = "touch" -> Contacts("touch") \o <<Move(r.off)>>
      [] OTHER -> <<>>

PortalAsk(r) ==
    /\ portalPc = "idle" /\ ~stop /\ portalAsks < PortalAsks /\ portalAsks' = portalAsks + 1
    /\ portalRequest' = r /\ err' = "no"
    /\ IF failed THEN portalPc' = "idle" /\ UNCHANGED <<plan, portalAcquired>>
       ELSE IF r.kind = "capture" THEN portalPc' = "start" /\ plan' = <<>> /\ portalAcquired' = {}
       ELSE IF ~started \/ closed \/ ~streams
       THEN portalPc' = "fail" /\ plan' = <<>> /\ portalAcquired' = {}
       ELSE /\ portalPc' = "run" /\ plan' = Plan(r)
            /\ portalAcquired' = IF r.kind \in {"key_up", "mouse_up"} THEN {} ELSE r.mods \ portalHeld
    /\ UNCHANGED <<grant, closed, failed, keys, stop, faults>>

-----------------------------------------------------------------------------
(* start, probe, open_session.                                              *)

Start ==
    /\ portalPc = "start"
    /\ \/ started /\ portalPc' = (IF closed THEN "fail" ELSE "frame") /\ UNCHANGED <<token, started, faults>>
       \/ ~started /\ started' = TRUE /\ token' = disk /\ portalPc' = "create" /\ UNCHANGED faults
       \/ ~started /\ started' = TRUE /\ Fault /\ portalPc' = "fail" /\ UNCHANGED token
    /\ UNCHANGED <<disk, session, streams, prompts, cancelled, spared, closed, failed, keys, portalCall,
                   stop, portalAsks>>

\* request: CreateSession, SelectDevices and SelectSources; Start may bring up a dialog,
\* always when there is no token.
Send ==
    /\ portalPc \in {"create", "consent"}
    /\ IF portalPc = "create" THEN portalPc' = "creating" /\ UNCHANGED prompts
       ELSE /\ portalPc' = "asking"
            /\ \/ token # "none" /\ UNCHANGED prompts
               \/ token = "none" /\ prompts' = [prompts EXCEPT !.normal = @ + 1]
               \/ token = "spent" /\ prompts' = [prompts EXCEPT !.saved = @ + 1]
    /\ UNCHANGED <<disk, token, session, started, streams, cancelled, spared, closed, failed, keys,
                   portalCall, stop, portalAsks, faults>>

\* write_token, delete_token: the file is replaced, or an OSError is passed over.
Unwritten == Fault /\ spared' = TRUE /\ disk' = (IF portalPc = "save" /\ disk = "good" THEN "spent" ELSE disk)
WriteToken == (disk' = "good" /\ UNCHANGED <<spared, faults>>) \/ Unwritten
DeleteToken == (disk' = "none" /\ UNCHANGED <<spared, faults>>) \/ Unwritten

Rejected == IF token = "none" THEN portalPc' = "fail" ELSE portalPc' = "forget"

\* A Start that has been granted, or may have been, has used the token.
Spend == disk' = IF disk = "good" THEN "spent" ELSE disk

\* The main loop of a pending request ends: the answer, or 120 seconds without one.  Only an answer
\* of the portal is looked at by start: after an error of the bus, or a grant without a monitor, a
\* keyboard and a pointer, the run fails with the token where it is.
Answer ==
    /\ portalPc \in {"creating", "asking"}
    /\ UNCHANGED <<token, started, streams, prompts, spared, failed, keys, portalRequest, plan,
                   portalAcquired, stop, portalAsks>>
    /\ \/ closed /\ portalPc' = "fail" /\ UNCHANGED <<disk, session, cancelled, closed, err, faults>>
       \/ ~closed /\ portalPc = "creating" /\ session' = "open" /\ portalPc' = "consent"
          /\ UNCHANGED <<disk, cancelled, closed, err, faults>>
       \/ ~closed /\ portalPc = "asking" /\ portalPc' = "save"
          /\ UNCHANGED <<disk, session, cancelled, closed, err, faults>>
       \/ ~closed /\ portalPc = "asking" /\ portalPc' = "fail" /\ Spend
          /\ UNCHANGED <<session, cancelled, closed, err, faults>>
       \/ ~closed /\ Fault /\ portalPc' = "fail" /\ (UNCHANGED disk \/ (portalPc = "asking" /\ Spend))
          /\ UNCHANGED <<session, cancelled, closed, err>>
       \/ /\ ~closed /\ portalPc = "asking" /\ (token # "good" \/ prompts # [saved |-> 0, normal |-> 0])
          /\ cancelled' = TRUE /\ err' = "cancelled" /\ Rejected /\ UNCHANGED <<disk, session, closed, faults>>
       \/ ~closed /\ Rejected /\ err' = "other" /\ UNCHANGED <<disk, session, cancelled, closed, faults>>

\* Mutant of Forget: the kind of the answer is not looked at.
ForgetAndAsk ==
    /\ portalPc = "forget" /\ disk' = "none" /\ UNCHANGED <<spared, faults>>
    /\ token' = "none" /\ portalPc' = "drop"
    /\ UNCHANGED <<session, started, streams, prompts, cancelled, closed, failed, keys, portalCall, stop,
                   portalAsks>>

\* Mutant of Forget: the permission is deleted, and tried once more.
ForgetNothing ==
    /\ portalPc = "forget" /\ disk' = "none" /\ UNCHANGED <<token, spared, faults>>
    /\ portalPc' = (IF err = "cancelled" THEN "fail" ELSE "drop")
    /\ UNCHANGED <<session, started, streams, prompts, cancelled, closed, failed, keys, portalCall, stop,
                   portalAsks>>

\* A saved permission that did not work is deleted; only a person's own no ends the run.
Forget ==
    /\ portalPc = "forget"
    /\ DeleteToken
    /\ IF err = "cancelled" THEN portalPc' = "fail" /\ UNCHANGED token ELSE token' = "none" /\ portalPc' = "drop"
    /\ UNCHANGED <<session, started, streams, prompts, cancelled, closed, failed, keys, portalCall, stop,
                   portalAsks>>

\* Mutant of Drop: the half-open session is closed under its own subscription.
DropHeard ==
    /\ portalPc = "drop" /\ session' = "none" /\ err' = "no" /\ portalPc' = "create" /\ closed' = (session = "open")
    /\ UNCHANGED <<disk, token, started, streams, prompts, cancelled, spared, failed, keys, portalRequest,
                   plan, portalAcquired, stop, portalAsks, faults>>

\* drop_session: nobody listens to the old session any more.
Drop ==
    /\ portalPc = "drop" /\ session' = "none" /\ err' = "no" /\ portalPc' = "create"
    /\ UNCHANGED <<disk, token, started, streams, prompts, cancelled, spared, closed, failed, keys,
                   portalRequest, plan, portalAcquired, stop, portalAsks, faults>>

\* Mutant of Save: the spent token stays when the portal gives no other.
SaveFresh ==
    /\ portalPc = "save" /\ disk' \in {"good", IF token = "none" THEN disk ELSE "spent"}
    /\ portalPc' = "open"
    /\ UNCHANGED <<token, session, started, streams, prompts, cancelled, spared, closed, failed, keys,
                   portalCall, stop, portalAsks, faults>>

\* The token that Start returned, if it did, takes the place of the one that is spent.
Save ==
    /\ portalPc = "save" /\ portalPc' = "open"
    /\ WriteToken \/ (disk' = "none" /\ UNCHANGED <<spared, faults>>)
    /\ UNCHANGED <<token, session, started, streams, prompts, cancelled, closed, failed, keys, portalCall,
                   stop, portalAsks>>

\* OpenPipeWireRemote and a pipeline for every monitor.
Open ==
    /\ portalPc = "open"
    /\ \/ portalPc' = "frame" /\ streams' = TRUE /\ UNCHANGED faults
       \/ Fault /\ portalPc' = "fail" /\ UNCHANGED streams
    /\ UNCHANGED <<disk, token, session, started, prompts, cancelled, spared, closed, failed, keys,
                   portalCall, stop, portalAsks>>

\* The frames of a capture; there is none when sharing was stopped.
Frame ==
    /\ portalPc = "frame" /\ portalPc' \in {"idle", "fail"}
    /\ UNCHANGED <<grant, closed, failed, keys, portalCall, stop, portalAsks, faults>>

-----------------------------------------------------------------------------
(* action: key, button, touch_point, touch_up.                              *)

\* key: a letter under a modifier is sent as a physical key.
Event(x) == [item |-> x, code |-> x \in Letters /\ portalHeld \intersect Modifiers # {}]
Crosses(x) == x \in Modifiers /\ portalHeld \intersect Letters # {}

Pressing(x) ==
    /\ pressed' = pressed \union {Event(x)} /\ portalHeld' = portalHeld \union {x}
    /\ crossed' = (crossed \/ Crosses(x)) /\ UNCHANGED <<touches, portalAsked>>

\* Mutant of Lifting: a key is released under its own name.
LiftingByName(x) ==
    /\ pressed' = pressed \ {[item |-> x, code |-> FALSE]} /\ portalHeld' = portalHeld \ {x} /\ portalAsked' = portalAsked \ {x}
    /\ crossed' = (crossed \/ Crosses(x)) /\ UNCHANGED touches

Lifting(x) ==
    /\ pressed' = pressed \ {Event(x)} /\ portalHeld' = portalHeld \ {x} /\ portalAsked' = portalAsked \ {x}
    /\ crossed' = (crossed \/ Crosses(x)) /\ UNCHANGED touches
Touch(x) == [item |-> x, code |-> FALSE]
Touching(x) ==
    touches' = touches \union {x} /\ pressed' = pressed \union {Touch(x)} /\ UNCHANGED <<portalHeld, portalAsked, crossed>>
Untouching(x) ==
    touches' = touches \ {x} /\ pressed' = pressed \ {Touch(x)} /\ UNCHANGED <<portalHeld, portalAsked, crossed>>

\* One notify of the plan.
Run ==
    /\ portalPc = "run" /\ plan # <<>>
    /\ LET do == Head(plan) IN
       \/ Fault /\ Fails("fatal") /\ UNCHANGED <<keys, plan>>
       \/ do = Move(TRUE) /\ Fails("input") /\ UNCHANGED <<keys, plan, faults>>
       \/ /\ do # Move(TRUE) /\ plan' = Tail(plan) /\ UNCHANGED <<portalPc, err, portalOwed, faults>>
          /\ \/ do.op = "press" /\ Pressing(do.item)
             \/ do.op = "lift" /\ Lifting(do.item)
             \/ do.op = "touch" /\ Touching(do.item)
             \/ do.op = "move" /\ UNCHANGED input
    /\ UNCHANGED <<grant, closed, failed, portalRequest, portalAcquired, stop, portalAsks>>

\* Mutant of Ran: modifiers of a mouse_down are remembered by its button only if it had none.
RanForgetting ==
    /\ portalPc = "run" /\ plan = <<>> /\ portalPc' = "undo"
    /\ portalAcquired' = (IF portalRequest.kind \in {"key_down", "mouse_down"} THEN {} ELSE portalAcquired)
    /\ UNCHANGED <<grant, closed, failed, keys, portalRequest, plan, err, stop, portalAsks, faults>>

\* remember: the modifiers of a key_down or mouse_down stay.
Ran ==
    /\ portalPc = "run" /\ plan = <<>> /\ portalPc' = "undo"
    /\ IF portalRequest.kind \in {"key_down", "mouse_down"}
       THEN /\ portalOwed' = [portalOwed EXCEPT ![portalRequest.item] = @ \union portalAcquired] /\ portalAcquired' = {}
            /\ portalAsked' = portalAsked \union {portalRequest.item}
       ELSE UNCHANGED <<portalOwed, portalAcquired, portalAsked>>
    /\ UNCHANGED <<grant, closed, failed, portalHeld, touches, pressed, crossed, portalRequest, plan, err,
                   stop, portalAsks, faults>>

\* The finally blocks: a drag's button, a gesture's contacts, then the modifiers that the
\* request has pressed and, of a key_up or mouse_up, those that its pair has.
PortalUps == {"key_up", "mouse_up"}
Owes == IF portalRequest.kind \in PortalUps THEN portalOwed[portalRequest.item] \union portalRequest.mods ELSE portalAcquired
Dragged == IF portalRequest.kind = "drag" THEN MouseButtons \intersect portalHeld \intersect {portalRequest.item} ELSE {}

Undo ==
    /\ portalPc = "undo"
    /\ \/ Dragged # {} /\ \E x \in Dragged : Lifting(x) /\ UNCHANGED <<faults, portalPc, err>>
       \/ portalRequest.kind = "touch" /\ \E x \in touches : Untouching(x) /\ UNCHANGED <<faults, portalPc, err>>
       \/ Dragged = {} /\ \E x \in Owes \intersect portalHeld : Lifting(x) /\ UNCHANGED <<faults, portalPc, err>>
       \/ /\ Fault
          /\ Dragged \union (Owes \intersect portalHeld) \union (IF portalRequest.kind = "touch" THEN touches ELSE {}) # {}
          /\ err' = "fatal" /\ portalPc' = "undone" /\ UNCHANGED input
    /\ UNCHANGED <<grant, closed, failed, portalOwed, portalRequest, plan, portalAcquired, stop, portalAsks>>

Undone ==
    /\ \/ portalPc = "undone"
       \/ portalPc = "undo" /\ Dragged = {} /\ Owes \intersect portalHeld = {} /\ (portalRequest.kind = "touch" => touches = {})
    /\ portalOwed' = IF portalRequest.kind \in PortalUps THEN [portalOwed EXCEPT ![portalRequest.item] = {}] ELSE portalOwed
    /\ portalPc' = IF err = "fatal" THEN "fail" ELSE "idle"
    /\ UNCHANGED <<grant, closed, failed, input, portalCall, stop, portalAsks, faults>>

-----------------------------------------------------------------------------
(* The end of a run: a fatal error, the end of the input, SIGTERM.          *)

Fail ==
    /\ portalPc = "fail" /\ failed' = TRUE /\ portalPc' = "close"
    /\ UNCHANGED <<grant, closed, keys, portalCall, stop, portalAsks, faults>>

\* close: contacts, keys and buttons, each its own; the first that fails is the last.
Release ==
    /\ portalPc = "close" /\ ~closed /\ portalHeld \union touches # {}
    /\ \/ session = "open" /\ (\E x \in touches : Untouching(x)) /\ UNCHANGED <<portalPc, faults>>
       \/ session = "open" /\ touches = {} /\ (\E x \in portalHeld : Lifting(x)) /\ UNCHANGED <<portalPc, faults>>
       \/ session = "open" /\ Fault /\ portalPc' = "end" /\ UNCHANGED input
    /\ UNCHANGED <<grant, closed, failed, portalOwed, portalCall, stop, portalAsks>>

\* Mutant of Close: only the input is closed.
CloseInput ==
    /\ \/ portalPc = "end"
       \/ portalPc = "close" /\ (closed \/ portalHeld \union touches = {})
    /\ closed' = TRUE /\ streams' = FALSE /\ UNCHANGED <<session, pressed>>
    /\ portalPc' = IF stop THEN "ended" ELSE "idle"
    /\ UNCHANGED <<disk, token, started, prompts, cancelled, spared, failed, portalHeld, touches,
                   portalOwed, portalAsked, crossed, portalCall, stop, portalAsks, faults>>

\* Mutant of Close: the main loop is not told to quit.
CloseAndWait ==
    /\ \/ portalPc = "end"
       \/ portalPc = "close" /\ (closed \/ portalHeld \union touches = {})
    /\ closed' = TRUE /\ streams' = FALSE /\ session' = (IF session = "open" THEN "gone" ELSE session)
    /\ pressed' = {} /\ portalPc' = "idle"
    /\ UNCHANGED <<disk, token, started, prompts, cancelled, spared, failed, portalHeld, touches,
                   portalOwed, portalAsked, crossed, portalCall, stop, portalAsks, faults>>

\* on_closed, and the session is closed: the compositor lets go of all it has taken.
Close ==
    /\ \/ portalPc = "end"
       \/ portalPc = "close" /\ (closed \/ portalHeld \union touches = {})
    /\ closed' = TRUE /\ streams' = FALSE /\ session' = (IF session = "open" THEN "gone" ELSE session)
    /\ pressed' = {}
    /\ portalPc' = IF stop THEN "ended" ELSE "idle"
    /\ UNCHANGED <<disk, token, started, prompts, cancelled, spared, failed, portalHeld, touches,
                   portalOwed, portalAsked, crossed, portalCall, stop, portalAsks, faults>>

\* The parent closes the input, or sends SIGTERM.
Stop ==
    /\ ~stop /\ stop' = TRUE
    /\ UNCHANGED <<grant, closed, failed, keys, portalCall, portalPc, portalAsks, faults>>

\* The main loop takes the stop: when it idles, or inside a pending request.
Stopping ==
    /\ stop
    /\ \/ portalPc = "idle" /\ portalPc' = "close" /\ UNCHANGED <<closed, streams, session, pressed>>
       \/ /\ portalPc \in {"creating", "asking"} /\ ~closed /\ UNCHANGED portalPc
          /\ closed' = TRUE /\ streams' = FALSE /\ pressed' = {}
          /\ session' = (IF session = "open" THEN "gone" ELSE session)
    /\ UNCHANGED <<disk, token, started, prompts, cancelled, spared, failed, portalHeld, touches,
                   portalOwed, portalAsked, crossed, portalCall, stop, portalAsks, faults>>

\* on_closed: the person stops sharing; the loop hears of it when it runs.
Revoke ==
    /\ session = "open" /\ ~closed /\ portalPc \in {"idle", "asking"} /\ Fault
    /\ session' = "gone" /\ closed' = TRUE /\ streams' = FALSE /\ pressed' = {}
    /\ UNCHANGED <<disk, token, started, prompts, cancelled, spared, failed, portalHeld, touches,
                   portalOwed, portalAsked, crossed, portalCall, portalPc, stop, portalAsks>>

-----------------------------------------------------------------------------
PortalServe ==
    \/ Start \/ Send \/ Answer \/ Forget \/ Drop \/ Save \/ Open \/ Frame
    \/ Run \/ Ran \/ Undo \/ Undone \/ Fail \/ Release \/ Close \/ Stopping
PortalNext == (\E r \in PortalRequests : PortalAsk(r)) \/ PortalServe \/ Stop \/ Revoke
PortalSpec == PortalInit /\ [][PortalNext]_portalVars
PortalFairSpec == PortalSpec /\ WF_portalVars(PortalServe)

-----------------------------------------------------------------------------
PortalTypeOK ==
    /\ {disk, token} \subseteq {"none", "good", "spent"} /\ session \in {"none", "open", "gone"}
    /\ {started, closed, failed, streams, cancelled, spared, crossed, stop} \subseteq BOOLEAN
    /\ portalHeld \subseteq Items /\ touches \subseteq Slots /\ portalOwed \in [Items -> SUBSET Modifiers]
    /\ pressed \subseteq [item : Items \union Slots, code : BOOLEAN]
    /\ portalAcquired \subseteq Modifiers /\ err \in {"no", "input", "fatal", "cancelled", "other"}
    /\ prompts \in [saved : 0..1, normal : 0..1]

\* The person is asked at most once for a permission they have not given, and never
\* again after a no, in one run of the helper.
AskedOnce == [][prompts' # prompts => ~cancelled /\ prompts.normal = 0]_portalVars

\* The helper takes its run for ended only when it was told to end, when sharing was
\* stopped, or after an error: not when it drops a session to ask again.
ClosedForCause == closed => stop \/ failed \/ session = "gone"

\* A token that is spent or was rejected is no longer saved once the streams are open, the person
\* was asked without it, or has said no; and no run goes on with one on the disk.  It stays there when
\* the run fails on the way: by an error of the bus, or by a grant that is not enough.
SpentIsGone ==
    ~spared /\ disk = "spent" =>
        /\ ~streams /\ prompts.normal = 0
        /\ portalPc = "idle" => ~cancelled /\ (started => failed)

\* Between two requests, the contacts are off, and a key or button is held only for a
\* key_down or mouse_down whose pair has not come, or as a modifier of such a one.
PressedIsAskedFor ==
    portalPc = "idle" /\ ~closed => touches = {} /\ portalHeld \subseteq portalAsked \union UNION {portalOwed[i] : i \in Items}

\* What the compositor takes for pressed is what the driver holds: a letter is released
\* as it was pressed, by its name or as a physical key, unless a modifier went down or
\* up in between.
PressedIsHeld ==
    portalPc = "idle" /\ ~closed /\ ~crossed => {e.item : e \in pressed} = portalHeld \union touches

\* When the helper ends, its session is closed, with all that was pressed in it.
EndsClosed == portalPc = "ended" => session # "open" /\ pressed = {} /\ ~streams

\* The portal session is given up for a cause, a spent token outlives only a run that fails before
\* its streams are open, and what the compositor takes for pressed is what was asked for.
PortalSafe ==
    PortalTypeOK /\ ClosedForCause /\ SpentIsGone /\ PressedIsAskedFor /\ PressedIsHeld /\ EndsClosed

\* The helper ends when its parent closes the input, though a dialog may be up.
StopEnds == stop ~> (portalPc = "ended")

=============================================================================
