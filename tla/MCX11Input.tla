----------------------------- MODULE MCX11Input -----------------------------
(* Two layouts that put "." on different keys and have no "e"; "control" names a modifier. *)
EXTENDS X11Input

Key(k, s) == [code |-> k, shift |-> s]
TwoLayouts == [g \in {"us", "ru"} |->
    [c \in {".", "e", "control"} |-> IF c = "e" THEN Key(NoKey, FALSE)
                          ELSE IF c = "control" THEN Key("ctrl", FALSE)
                          ELSE IF g = "us" THEN Key("k60", FALSE) ELSE Key("k61", TRUE)]]
ShortTexts == {<<"e">>, <<".", "e">>, <<"e", ".">>}
=============================================================================
