----------------------------- MODULE X11Windows -----------------------------
(***************************************************************************)
(* Windows on X11, as computer_driver.py lists, moves and focuses them     *)
(* (EWMH): the driver sends messages to the window manager, which obeys in *)
(* its own time, or declines; the driver looks at the properties of the    *)
(* windows until a deadline and answers what it sees.                      *)
(*                                                                         *)
(* Sizes, titles and pids are left out; a window covers the point or not.  *)
(***************************************************************************)
EXTENDS Naturals, Sequences, FiniteSets, SequencesExt

CONSTANTS
    Windows,        \* application windows, dialogs among them
    Overlay,        \* the server's own overlay, over everything, or NoWindow
    Owner,          \* the window that a dialog is transient for
    Covers,         \* windows over the point that app_at asks about
    NoWindow,
    WindowAsks, Acts    \* bounds: requests, acts of the user

\* What the constants must be.
ASSUME X11WindowsAssumption ==
    /\ NoWindow \notin Windows
    /\ Overlay \in Windows \union {NoWindow}
    /\ Owner \in [Windows -> Windows \union {NoWindow}]
    /\ Covers \subseteq Windows
    /\ IsFiniteSet(Windows)
    /\ {WindowAsks, Acts} \subseteq Nat

VARIABLES
    order,          \* _NET_CLIENT_LIST_STACKING, front first
    activeWindow,   \* _NET_ACTIVE_WINDOW
    hidden, big, placed,    \* windows that are minimized, maximized, where set_bounds put them
    mail,           \* messages to the window manager
    windowRequest, windowPc,
    was,            \* _NET_WM_STATE at the beginning of the request: hidden, big; and whether the
                    \* window manager had done what it was told before (history)
    rest,           \* windows that app_at has yet to look at
    windowReply,
    focused,        \* history: windows that have been active since the request
    windowSteady,   \* history: the windows have not changed since the request
    windowAsks, acts

screen == <<order, activeWindow, hidden, big, placed>>
windowCall == <<windowRequest, windowPc, was, rest, windowReply>>
windowsVars == <<screen, mail, windowCall, focused, windowSteady, windowAsks, acts>>

There(w) == w \in ToSet(order)
Unasked == [action |-> "none", window |-> NoWindow]

WindowsInit ==
    /\ order \in SetToSeqs(Windows) /\ activeWindow \in Windows \union {NoWindow}
    /\ Overlay # NoWindow => order[1] = Overlay /\ activeWindow # Overlay
    /\ hidden = {} /\ big \in {{}, Windows \ {Overlay}} /\ placed = {}
    /\ mail = <<>>
    /\ windowRequest = Unasked /\ windowPc = "idle" /\ windowReply = Unasked
    /\ was = [hidden |-> FALSE, big |-> FALSE, calm |-> TRUE] /\ rest = <<>>
    /\ focused = {} /\ windowSteady = TRUE
    /\ windowAsks = 0 /\ acts = 0

-----------------------------------------------------------------------------
(* The driver.                                                              *)

WindowActions == {"focus", "minimize", "maximize", "restore", "close", "set_bounds"}
WindowRequests == [action : WindowActions, window : Windows \ {Overlay}] \union [action : {"app_at"}, window : {NoWindow}]

AnswerWindow(action, w) == windowReply' = [action |-> action, window |-> w] /\ windowPc' = "idle"
Message(kind, w) == [kind |-> kind, window |-> w]

\* window_action, app_at: the window is among the client windows, or the answer is not_found.
AskWindow(r) ==
    /\ windowPc = "idle" /\ windowAsks < WindowAsks /\ windowAsks' = windowAsks + 1
    /\ windowRequest' = r
    /\ IF r.action = "app_at" THEN windowPc' = "scan" /\ rest' = order /\ windowReply' = Unasked
       ELSE /\ rest' = <<>>
            /\ IF There(r.window) THEN windowPc' = "send" /\ windowReply' = Unasked ELSE AnswerWindow("not_found", NoWindow)
    /\ was' = [hidden |-> r.window \in hidden, big |-> r.window \in big, calm |-> mail = <<>>]
    /\ focused' = {activeWindow} /\ windowSteady' = TRUE
    /\ UNCHANGED <<screen, mail, acts>>

\* Mutant of Messages: restore goes to the window manager under its own name.
MessagesAsNamed(action, w) == <<Message(IF action = "focus" THEN "activate" ELSE action, w)>>

\* The messages of an action, in the order they are sent.
Messages(action, w) ==
    LET if(b, kind) == IF b THEN <<Message(kind, w)>> ELSE <<>> IN
    CASE action = "restore" -> if(was.hidden, "activate") \o if(TRUE, "unmaximize")
      [] action = "set_bounds" -> if(was.big, "unmaximize") \o if(TRUE, "place")
      [] action = "focus" -> if(TRUE, "activate")
      [] OTHER -> if(TRUE, action)

\* Mutant of SendMessages: a maximized window is placed as it is.
SendMessagesPlaceOnly ==
    /\ windowPc = "send"
    /\ IF There(windowRequest.window)
       THEN /\ mail' = mail \o (IF windowRequest.action = "set_bounds" THEN <<Message("place", windowRequest.window)>>
                                ELSE Messages(windowRequest.action, windowRequest.window))
            /\ windowPc' = (IF windowRequest.action = "focus" THEN "wait" ELSE "poll") /\ UNCHANGED windowReply
       ELSE AnswerWindow("not_found", NoWindow) /\ UNCHANGED mail
    /\ UNCHANGED <<screen, windowRequest, was, rest, focused, windowSteady, windowAsks, acts>>

\* A window that has gone meanwhile: the X error becomes not_found (trap).
SendMessages ==
    /\ windowPc = "send"
    /\ IF There(windowRequest.window)
       THEN /\ mail' = mail \o Messages(windowRequest.action, windowRequest.window)
            /\ windowPc' = (IF windowRequest.action = "focus" THEN "wait" ELSE "poll") /\ UNCHANGED windowReply
       ELSE AnswerWindow("not_found", NoWindow) /\ UNCHANGED mail
    /\ UNCHANGED <<screen, windowRequest, was, rest, focused, windowSteady, windowAsks, acts>>

\* Mutant of WaitActive: at the deadline the answer is as if it had come.
WaitAnyway ==
    /\ windowPc = "wait" /\ windowPc' = "poll" /\ UNCHANGED windowReply
    /\ UNCHANGED <<screen, mail, windowRequest, was, rest, focused, windowSteady, windowAsks, acts>>

\* wait_active: the window, or a dialog on its behalf, has the focus; or 300 ms are over.
WaitActive ==
    /\ windowPc = "wait"
    /\ IF activeWindow = windowRequest.window \/ (activeWindow # NoWindow /\ Owner[activeWindow] = windowRequest.window)
       THEN windowPc' = "poll" /\ UNCHANGED windowReply
       ELSE AnswerWindow("blocked", NoWindow)
    /\ UNCHANGED <<screen, mail, windowRequest, was, rest, focused, windowSteady, windowAsks, acts>>

\* Mutant of Poll: a close is answered when the message is sent.
PollClosed ==
    /\ windowPc = "poll"
    /\ AnswerWindow("window", IF There(windowRequest.window) /\ windowRequest.action # "close" THEN windowRequest.window ELSE NoWindow)
    /\ UNCHANGED <<screen, mail, windowRequest, was, rest, focused, windowSteady, windowAsks, acts>>

\* The last loop of window_action: what is there at the deadline; a close need not wait for it.
Poll ==
    /\ windowPc = "poll"
    /\ AnswerWindow("window", IF There(windowRequest.window) THEN windowRequest.window ELSE NoWindow)
    /\ UNCHANGED <<screen, mail, windowRequest, was, rest, focused, windowSteady, windowAsks, acts>>

\* Mutant of Scan: minimized windows keep their place.
ScanHidden ==
    /\ windowPc = "scan"
    /\ IF rest = <<>> THEN AnswerWindow("app_at", NoWindow) /\ UNCHANGED rest
       ELSE IF There(Head(rest)) /\ Head(rest) \in Covers /\ Head(rest) # Overlay
       THEN AnswerWindow("app_at", Head(rest)) /\ UNCHANGED rest
       ELSE rest' = Tail(rest) /\ UNCHANGED <<windowPc, windowReply>>
    /\ UNCHANGED <<screen, mail, windowRequest, was, focused, windowSteady, windowAsks, acts>>

\* One window of app_at: one that covers the point, and is viewable_here and not our overlay.
Scan ==
    /\ windowPc = "scan"
    /\ IF rest = <<>> THEN AnswerWindow("app_at", NoWindow) /\ UNCHANGED rest
       ELSE LET w == Head(rest) IN
            IF There(w) /\ w \notin hidden /\ w \in Covers /\ w # Overlay
            THEN AnswerWindow("app_at", w) /\ UNCHANGED rest
            ELSE rest' = Tail(rest) /\ UNCHANGED <<windowPc, windowReply>>
    /\ UNCHANGED <<screen, mail, windowRequest, was, focused, windowSteady, windowAsks, acts>>

-----------------------------------------------------------------------------
(* The window manager and the user.                                         *)

\* The place of the front window: the overlay stays over it.
Foremost == IF order[1] = Overlay THEN 2 ELSE 1

\* The window to the front, with the focus.
Raise(w) ==
    /\ activeWindow' = w /\ hidden' = hidden \ {w}
    /\ \E i \in DOMAIN order :
          /\ order[i] = w
          /\ order' = [j \in DOMAIN order |->
                IF j \in (Foremost + 1)..i THEN order[j - 1] ELSE IF j = Foremost THEN w ELSE order[j]]
TakeAway(w) ==
    /\ \E i \in DOMAIN order : order[i] = w /\ order' = RemoveAt(order, i)
    /\ activeWindow' = (IF activeWindow = w THEN NoWindow ELSE activeWindow)
    /\ UNCHANGED hidden

Same == UNCHANGED <<order, activeWindow, hidden>>
Shrink(w) == big' = big \ {w}

\* One message: obeyed, or declined (focus stealing prevention, a dialog that asks to save).
Manage ==
    /\ mail # <<>> /\ mail' = Tail(mail)
    /\ windowSteady' = FALSE
    /\ LET w == Head(mail).window
           kind == Head(mail).kind
       IN \/ kind \in {"activate", "close"} /\ UNCHANGED screen
          \/ ~There(w) /\ UNCHANGED screen
          \/ There(w) /\ kind = "activate" /\ Raise(w) /\ UNCHANGED <<big, placed>>
          \/ There(w) /\ kind = "close" /\ TakeAway(w) /\ UNCHANGED <<big, placed>>
          \/ /\ There(w) /\ kind = "minimize"
             /\ hidden' = hidden \union {w} /\ UNCHANGED <<order, big, placed>>
             /\ activeWindow' = (IF activeWindow = w THEN NoWindow ELSE activeWindow)
          \/ There(w) /\ kind = "maximize" /\ big' = big \union {w} /\ Same /\ placed' = placed \ {w}
          \/ There(w) /\ kind = "unmaximize" /\ Shrink(w) /\ Same /\ UNCHANGED placed
          \/ /\ There(w) /\ kind = "place"
             /\ placed' = (IF w \in big THEN placed ELSE placed \union {w})
             /\ Same /\ UNCHANGED big
    /\ focused' = focused \union {activeWindow'}
    /\ UNCHANGED <<windowCall, windowAsks, acts>>

\* The user raises a window, or the application closes one.
User ==
    /\ acts < Acts /\ acts' = acts + 1 /\ windowSteady' = FALSE
    /\ \E w \in ToSet(order) \ {Overlay} : Raise(w) \/ TakeAway(w)
    /\ focused' = focused \union {activeWindow'}
    /\ UNCHANGED <<big, placed, mail, windowCall, windowAsks>>

WindowsServe == SendMessages \/ WaitActive \/ Poll \/ Scan
WindowsNext == (\E r \in WindowRequests : AskWindow(r)) \/ WindowsServe \/ Manage \/ User
WindowsSpec == WindowsInit /\ [][WindowsNext]_windowsVars

-----------------------------------------------------------------------------
WindowsTypeOK ==
    /\ order \in Seq(Windows) /\ activeWindow \in Windows \union {NoWindow}
    /\ {hidden, big, placed} \subseteq SUBSET Windows
    /\ mail \in Seq([kind : {"activate", "close", "minimize", "maximize", "unmaximize", "place"}, window : Windows])
    /\ windowRequest \in WindowRequests \union {Unasked} /\ windowPc \in {"idle", "send", "wait", "poll", "scan"}
    /\ windowReply.window \in Windows \union {NoWindow}

\* A focus request that is answered with the window had its effect: since it was asked,
\* the window, or a dialog of its own, has been the active window.
FocusCame ==
    windowPc = "idle" /\ windowRequest.action = "focus" /\ windowReply.action = "window" =>
        \E w \in focused \ {NoWindow} : windowRequest.window \in {w, Owner[w]}

\* A close that is answered with no window closed it.
ClosedIsGone ==
    windowPc = "idle" /\ windowRequest.action = "close" /\ windowReply = [action |-> "window", window |-> NoWindow] =>
        ~There(windowRequest.window)

\* A window that set_bounds was asked for is where it should be when the window manager
\* has done what it was told, though it does not move maximized windows: unless it was asked while
\* an earlier message, to maximize it, was still on its way.
BoundsTake ==
    /\ mail = <<>> /\ was.calm /\ There(windowRequest.window)
    /\ windowRequest.action = "set_bounds" /\ windowReply.action = "window"
    => windowRequest.window \in placed

\* app_at names the front window over the point that a click would reach, when the
\* windows stood still: never the server's own overlay, nor a hidden window.
AppAtIsFront ==
    LET seen == {i \in DOMAIN order : order[i] \in Covers \ (hidden \union {Overlay})} IN
    windowPc = "idle" /\ windowReply.action = "app_at" /\ windowSteady =>
        \/ seen = {} /\ windowReply.window = NoWindow
        \/ \E front \in seen : windowReply.window = order[front] /\ \A i \in seen : front <= i

\* An answer that says a window was focused, closed or placed is true of the window itself,
\* though the window manager obeys late or declines, and app_at names the front one.
WindowsSafe == WindowsTypeOK /\ FocusCame /\ ClosedIsGone /\ BoundsTake /\ AppAtIsFront

=============================================================================
