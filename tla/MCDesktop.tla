----------------------------- MODULE MCDesktop -----------------------------
(***************************************************************************)
(* The helpers of a Linux desktop for TLC.  computer_driver.py serves      *)
(* input, windows and elements, wayland_portal.py the portal; they share   *)
(* no state, so one run explores each of them with the others at rest.     *)
(***************************************************************************)
EXTENDS X11Input, X11Windows, Elements, Portal

VARIABLE part

\* Two layouts that put "." on different keys and have no "e"; "control" names a modifier.
Key(k, s) == [code |-> k, shift |-> s]
TwoLayouts == [g \in {"us", "ru"} |->
    [c \in {".", "e", "control"} |-> IF c = "e" THEN Key(NoKey, FALSE)
                          ELSE IF c = "control" THEN Key("ctrl", FALSE)
                          ELSE IF g = "us" THEN Key("k60", FALSE) ELSE Key("k61", TRUE)]]
ShortTexts == {<<"e">>, <<".", "e">>, <<"e", ".">>}

DialogOfEditor == [w \in {"editor", "dialog", "overlay"} |-> IF w = "dialog" THEN "editor" ELSE "no window"]

\* A row that is told twice tells its window as a child of its own; the windows have one title.
TwoWindows == <<"w1", "w2">>
Rows == [x \in {"w1", "w2", "row", "field"} |->
    IF x = "w1" THEN <<"row", "field">> ELSE IF x = "row" THEN <<"field", "w1">> ELSE <<>>]
OneTitle == [w \in {"w1", "w2"} |-> "title"]

vars == <<part, inputVars, windowsVars, elementsVars, portalVars>>

Init ==
    /\ part \in {"input", "windows", "elements", "portal"}
    /\ InputInit /\ (part # "input" => group = "us")
    /\ WindowsInit /\ (part # "windows" => order = <<"overlay", "dialog", "editor">> /\ activeWindow = "editor" /\ big = {})
    /\ ElementsInit /\ secure = {"field"}
    /\ PortalInit /\ (part # "portal" => disk = "none")

Next ==
    /\ UNCHANGED part
    /\ \/ part = "input" /\ InputNext /\ UNCHANGED <<windowsVars, elementsVars, portalVars>>
       \/ part = "windows" /\ WindowsNext /\ UNCHANGED <<inputVars, elementsVars, portalVars>>
       \/ part = "elements" /\ ElementsNext /\ UNCHANGED <<inputVars, windowsVars, portalVars>>
       \/ part = "portal" /\ PortalNext /\ UNCHANGED <<inputVars, windowsVars, elementsVars>>

\* The helper of the part goes on with a request it has taken.
Serve ==
    /\ UNCHANGED part
    /\ \/ part = "input" /\ InputServe /\ UNCHANGED <<windowsVars, elementsVars, portalVars>>
       \/ part = "elements" /\ ElementsServe /\ UNCHANGED <<inputVars, windowsVars, portalVars>>
       \/ part = "portal" /\ PortalServe /\ UNCHANGED <<inputVars, windowsVars, elementsVars>>

FairSpec == Init /\ [][Next]_vars /\ WF_vars(Serve)

-----------------------------------------------------------------------------
\* Every helper comes to the end of its request, also on a tree with a cycle, and of its run when
\* it is told to: by a signal or, though a dialog may be up, by the end of its input.  On the way a
\* key is remapped only while it is up, and the person is asked once for a permission.
HelpersEnd ==
    /\ RemapsReleasedKeys /\ AskedOnce
    /\ (\/ part = "input" /\ signals > 0
        \/ part = "elements" /\ elementPc # "idle"
        \/ part = "portal" /\ stop)
       ~> (\/ part = "input" /\ pc = "ended"
           \/ part = "elements" /\ elementPc = "idle"
           \/ part = "portal" /\ portalPc = "ended")
=============================================================================
