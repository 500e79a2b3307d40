-------------------------- MODULE MCComputerHost --------------------------
(* What callers ask of the computer host in the instances for TLC. *)
EXTENDS ComputerHost

\* Every kind of step, sequences of inputs and of waits, one that names an operation that sequence
\* does not take, and one that is too long.
HostAsked ==
    {<<"observe">>, <<"zoom">>, <<"share">>, <<"list">>, <<"element", "type">>, <<"wait_text", "click">>,
     <<"wait_element">>, <<"wait_stable">>, <<"sleep", "wait_window">>, <<"window", "observe">>,
     <<"sleep", "sleep", "sleep">>}

\* Two calls before the last may give it two frames, and ids of two drivers.
FewAsked == {<<"observe">>, <<"click">>, <<"element">>, <<"type">>, <<"wait_text">>, <<"wait_element">>, <<"sleep">>}
=============================================================================
