------------------------ MODULE ComputerHostProofs ------------------------
(***************************************************************************)
(* Proofs about the computer host, for any number of callers, windows,     *)
(* steps and failures, any limits and any requests.  What the desktop took *)
(* of the call in hand is exactly what comes, in the order of the request, *)
(* before the step and the input that the host has reached, and so it is   *)
(* for a call whose host died with an input in hand; an input is meant for *)
(* the window that has the focus unless that may have moved; the rest      *)
(* follows from the types and from counting the frames.                    *)
(***************************************************************************)
EXTENDS ComputerHost, FiniteSetTheorems, WellFoundedInduction, TLAPS

-----------------------------------------------------------------------------
(* The invariant.                                                           *)

Looking == {"observe", "windows", "focused", "cursor", "elements", "remember"}
Places == {"idle", "step", "check", "input", "poll", "sleep"} \cup Looking
Conditions == {"none", "up", "ended", "dead"}
Programs == {"driver", "portal"}
Focused == Windows \cup {NoWindow}
Elements == [epoch : Nat, mine : BOOLEAN]
Step == [kind : Kinds, frame : Nat, id : Elements]
Taken == [step : Nat, nth : Nat, moved : BOOLEAN, blurred : BOOLEAN, astray : BOOLEAN, shown : BOOLEAN]
Snapshot == [id : Nat \ {0}, window : Focused, shown : Focused, blurred : BOOLEAN, old : BOOLEAN]
Aims == [step : Nat, nth : 1..3, moved : BOOLEAN, window : Focused, shown : Focused, blurred : BOOLEAN]
Lates == [steps : Seq(Step), took : Seq(Taken), aim : Aims, due : BOOLEAN]

\* The types of the variables.
ClientTypes ==
    /\ turn \in Callers \cup {NoCaller} /\ at \in Places /\ step \in 0..MaxSteps
    /\ calls \in [Callers -> Seq(Step)]
    /\ answer \in [ok : BOOLEAN, steps : Seq(Step), took : Seq(Taken)]
RuntimeTypes ==
    /\ wayland \in BOOLEAN /\ control \in BOOLEAN /\ host \in {"none", "up", "exited"}
    /\ helper \in [Programs -> Conditions] /\ epoch \in Nat /\ ids \subseteq Elements
FrameTypes ==
    /\ snaps \subseteq Snapshot /\ shots \in Nat /\ evicted \in 0..shots
HandTypes == took \in Seq(Taken)
DesktopTypes == focus \in Focused /\ moved \in BOOLEAN

\* Whose call it is, and where the host can be in a step of its kind.
PlaceOK ==
    /\ turn = NoCaller <=> at = "idle"
    /\ turn = NoCaller => step = 0
    /\ turn # NoCaller => step \in 1..Len(calls[turn]) /\ Len(calls[turn]) <= MaxSteps /\ host = "up"
    /\ at \in {"check", "input"} => Now.kind \in Foreground
    /\ at = "poll" => Now.kind \in Waits
    /\ at = "sleep" => Now.kind = "sleep"

\* A helper that the host has started, or that ended since, has its host.
NoStrayHelper == \A h \in Programs : helper[h] # "none" => host = "up" /\ h \in Helpers

\* A frame has an id of its own, up to the last one made, and tells the window that it shows unless
\* the focus may have moved while it was made.
FramesOK ==
    /\ IsFiniteSet(snaps) /\ \A s \in snaps : s.id <= shots /\ (~s.blurred => s.shown = s.window)
    /\ \A s, r \in snaps : s.id = r.id => s = r
SightOK ==
    /\ sight \in [shown : Focused, window : Focused, blurred : BOOLEAN]
    /\ ~sight.blurred => sight.shown = sight.window

\* The inputs of a call that come before the q-th of step s.
UpTo(r, s, q) == {p \in Inputs(r) : Before(p, <<s, q>>)}

\* The input that the host has reached in the step: the first, the next one, or the end.
Reached ==
    CASE at \in Looking -> 4
      [] at = "input" -> Nth
      [] OTHER -> 1

\* What the desktop took of the call in hand is all that comes before what the host has reached.
HandOK ==
    turn # NoCaller =>
        /\ InOrder(took) /\ Told(took) = UpTo(calls[turn], step, Reached)
        /\ at = "input" => Nth <= Parts(Now.kind)

\* An input has its frame, and the focus is where the frame has it unless it may have moved; and
\* so it is between a capture and the listing of the windows.
FocusOK ==
    /\ at \in {"check", "input"} => \E s \in snaps : s.id = Now.frame
    /\ at = "input" /\ ~moved => Frame.window = focus
    /\ at = "windows" /\ ~moved => sight.shown = focus

\* The inputs of the call in hand went where they were meant to, and what was answered was so.
TookOK == \A n \in DOMAIN took : AsAimed(took[n])
AnswerOK == Beginning(answer.steps, answer.took) /\ (answer.ok => Told(answer.took) = Inputs(answer.steps))

\* What is still in the hand of a helper without a host is the next input of its call, and meant
\* for the window that has the focus unless that may have moved since.
LateFits(l) ==
    /\ Beginning(l.steps, l.took) /\ \A n \in DOMAIN l.took : AsAimed(l.took[n])
    /\ l.due => /\ Told(l.took) = UpTo(l.steps, l.aim.step, l.aim.nth)
                /\ l.aim.step \in 1..Len(l.steps) /\ l.aim.nth <= Parts(l.steps[l.aim.step].kind)
    /\ ~l.aim.moved => l.aim.window = focus /\ (l.aim.blurred \/ l.aim.shown = focus)
LateOK == late \subseteq Lates /\ \A l \in late : LateFits(l)

\* The inductive invariant.
HostInv ==
    /\ ClientTypes /\ RuntimeTypes /\ FrameTypes /\ HandTypes /\ DesktopTypes
    /\ PlaceOK /\ NoStrayHelper /\ FramesOK /\ SightOK /\ NewestFramesKept
    /\ HandOK /\ FocusOK /\ TookOK /\ AnswerOK /\ LateOK

-----------------------------------------------------------------------------
(* Facts about requests, their order, and sequences of inputs.              *)

\* How many inputs a step has.
LEMMA PartsFacts ==
    ASSUME NEW kind
    PROVE  /\ Parts(kind) \in 0..3
           /\ kind \in Foreground => Parts(kind) \in {1, 3}
           /\ kind \in Semantic => Parts(kind) = 1
           /\ kind \notin ControlMethods => Parts(kind) = 0
  BY DEF Parts, Foreground, Semantic, ControlMethods

\* The inputs before a place are the beginning of the request.
LEMMA PrefixFacts ==
    ASSUME NEW r \in Seq(Step), NEW s \in Nat, NEW q \in Nat
    PROVE  /\ UpTo(r, s, q) \subseteq Inputs(r)
           /\ \A p \in Inputs(r), u \in UpTo(r, s, q) : Before(p, u) => p \in UpTo(r, s, q)
  <1>1. \A p \in Inputs(r) : p[1] \in Nat /\ p[2] \in Nat
    BY DEF Inputs
  <1>2. ASSUME NEW p \in Inputs(r), NEW u \in UpTo(r, s, q), Before(p, u)
        PROVE  Before(p, <<s, q>>)
    <2>1. u \in Inputs(r) /\ Before(u, <<s, q>>)
      BY DEF UpTo
    <2> QED BY <1>1, <1>2, <2>1 DEF Before
  <1> QED BY <1>2 DEF UpTo

\* Nothing comes after the third input of a step but the next step,
LEMMA NextStep ==
    ASSUME NEW r \in Seq(Step), NEW s \in Nat
    PROVE  /\ UpTo(r, s, 4) = UpTo(r, s + 1, 1)
           /\ s = Len(r) => UpTo(r, s, 4) = Inputs(r)
  <1>1. \A p \in Inputs(r) : p[1] \in 1..Len(r) /\ p[2] \in 1..3
    BY DEF Inputs
  <1>2. \A p \in Inputs(r) : Before(p, <<s, 4>>) <=> Before(p, <<s + 1, 1>>)
    BY <1>1 DEF Before
  <1>3. s = Len(r) => \A p \in Inputs(r) : Before(p, <<s, 4>>)
    BY <1>1 DEF Before
  <1> QED BY <1>2, <1>3 DEF UpTo

\* nor after the last input that the step has,
LEMMA StepOver ==
    ASSUME NEW r \in Seq(Step), NEW s \in 1..Len(r), NEW q \in 1..4, Parts(r[s].kind) < q
    PROVE  UpTo(r, s, q) = UpTo(r, s, 4)
  <1>1. \A p \in Inputs(r) : p[1] \in 1..Len(r) /\ p[2] \in 1..3 /\ p[2] <= Parts(r[p[1]].kind)
    BY DEF Inputs
  <1>2. Parts(r[s].kind) \in 0..3
    BY PartsFacts
  <1>3. \A p \in Inputs(r) : Before(p, <<s, q>>) <=> Before(p, <<s, 4>>)
    BY <1>1, <1>2 DEF Before
  <1> QED BY <1>3 DEF UpTo

\* and one input comes between two that follow each other.
LEMMA NextInput ==
    ASSUME NEW r \in Seq(Step), NEW s \in 1..Len(r), NEW q \in 1..3, q <= Parts(r[s].kind)
    PROVE  UpTo(r, s, q + 1) = UpTo(r, s, q) \cup {<<s, q>>}
  <1>1. \A p \in Inputs(r) : p \in (1..Len(r)) \X (1..3)
    BY DEF Inputs
  <1>2. <<s, q>> \in Inputs(r)
    BY DEF Inputs
  <1>3. \A p \in Inputs(r) : Before(p, <<s, q + 1>>) <=> Before(p, <<s, q>>) \/ p = <<s, q>>
    BY <1>1 DEF Before
  <1> QED BY <1>2, <1>3 DEF UpTo

\* An input that comes after all others keeps the order.
LEMMA AppendFacts ==
    ASSUME NEW given \in Seq(Taken), NEW i \in Taken
    PROVE  /\ Append(given, i) \in Seq(Taken)
           /\ Told(Append(given, i)) = Told(given) \cup {<<i.step, i.nth>>}
           /\ InOrder(given) /\ (\A p \in Told(given) : Before(p, <<i.step, i.nth>>)) => InOrder(Append(given, i))
  <1> DEFINE longer == Append(given, i)  k == Len(given) + 1
  <1>1. /\ longer \in Seq(Taken) /\ DOMAIN longer = 1..k /\ DOMAIN given = 1..(k - 1) /\ k \in Nat \ {0}
        /\ longer[k] = i /\ \A n \in 1..(k - 1) : longer[n] = given[n]
    OBVIOUS
  <1> HIDE DEF longer, k
  <1>2. Told(longer) = Told(given) \cup {<<i.step, i.nth>>}
    BY <1>1 DEF Told
  <1>3. ASSUME InOrder(given), \A p \in Told(given) : Before(p, <<i.step, i.nth>>)
        PROVE  InOrder(longer)
    <2>1. \A n \in 1..(k - 1) : <<given[n].step, given[n].nth>> \in Told(given)
      BY <1>1 DEF Told
    <2>2. ASSUME NEW n \in 1..k, NEW m \in 1..k, n < m
          PROVE  Before(<<longer[n].step, longer[n].nth>>, <<longer[m].step, longer[m].nth>>)
      <3>1. CASE m = k
        <4>1. n \in 1..(k - 1)
          BY <1>1, <2>2, <3>1
        <4>2. longer[n] = given[n] /\ longer[m] = i
          BY <1>1, <3>1, <4>1
        <4>3. <<given[n].step, given[n].nth>> \in Told(given)
          BY <2>1, <4>1
        <4> QED BY <1>3, <4>2, <4>3
      <3>2. CASE m # k
        <4>1. n \in 1..(k - 1) /\ m \in 1..(k - 1)
          BY <1>1, <2>2, <3>2
        <4> QED BY <1>1, <1>3, <2>2, <4>1 DEF InOrder
      <3> QED BY <3>1, <3>2
    <2> QED BY <1>1, <2>2 DEF InOrder
  <1> QED BY <1>1, <1>2, <1>3 DEF longer

\* What was taken is a beginning when it is all that comes before a place.
LEMMA PrefixBegins ==
    ASSUME NEW r \in Seq(Step), NEW s \in Nat, NEW q \in Nat, NEW given, InOrder(given), Told(given) = UpTo(r, s, q)
    PROVE  Beginning(r, given)
  BY PrefixFacts DEF Beginning

\* One more input was taken, the one that was next.
LEMMA OneMore ==
    ASSUME NEW r \in Seq(Step), NEW given \in Seq(Taken), NEW s \in 1..Len(r), NEW q \in 1..3, NEW i \in Taken,
           i.step = s, i.nth = q, q <= Parts(r[s].kind), InOrder(given), Told(given) = UpTo(r, s, q),
           \A n \in DOMAIN given : AsAimed(given[n]), AsAimed(i)
    PROVE  /\ Append(given, i) \in Seq(Taken) /\ InOrder(Append(given, i))
           /\ Told(Append(given, i)) = UpTo(r, s, q + 1)
           /\ \A n \in DOMAIN Append(given, i) : AsAimed(Append(given, i)[n])
           /\ Append(given, i) # <<>> /\ Append(given, i)[Len(Append(given, i))] = i
  <1> DEFINE longer == Append(given, i)  k == Len(given) + 1
  <1>1. \A p \in Told(given) : Before(p, <<i.step, i.nth>>)
    BY DEF UpTo
  <1>2. longer \in Seq(Taken) /\ InOrder(longer) /\ Told(longer) = Told(given) \cup {<<s, q>>}
    BY <1>1, AppendFacts
  <1>3. UpTo(r, s, q + 1) = UpTo(r, s, q) \cup {<<s, q>>}
    BY NextInput
  <1>4. /\ longer \in Seq(Taken) /\ DOMAIN longer = 1..k /\ DOMAIN given = 1..(k - 1) /\ k \in Nat \ {0}
        /\ longer[k] = i /\ \A n \in 1..(k - 1) : longer[n] = given[n] /\ Len(longer) = k
    OBVIOUS
  <1> HIDE DEF longer, k
  <1>6. longer # <<>> /\ longer[Len(longer)] = i
    BY <1>4
  <1>5. ASSUME NEW n \in DOMAIN longer PROVE AsAimed(longer[n])
    <2>1. CASE n = k
      BY <1>4, <2>1
    <2>2. CASE n # k
      <3>1. n \in 1..(k - 1)
        BY <1>4, <1>5, <2>2
      <3> QED BY <1>4, <3>1
    <2> QED BY <2>1, <2>2
  <1> QED BY <1>2, <1>3, <1>5, <1>6 DEF longer

\* An input meets its window when the focus is where it was.
LEMMA HitFacts ==
    ASSUME DesktopTypes, NEW aim \in Aims,
           ~aim.moved => aim.window = focus /\ (aim.blurred \/ aim.shown = focus)
    PROVE  Hit(aim) \in Taken /\ Hit(aim).step = aim.step /\ Hit(aim).nth = aim.nth /\ AsAimed(Hit(aim))
  <1>1. PICK a \in BOOLEAN, v \in BOOLEAN :
            /\ a = (NoWindow \notin {aim.window, focus} /\ aim.window # focus)
            /\ v = (NoWindow \in {aim.shown, focus} \/ aim.shown = focus)
    OBVIOUS
  <1>2. Hit(aim) = [step |-> aim.step, nth |-> aim.nth, moved |-> aim.moved, blurred |-> aim.blurred, astray |-> a, shown |-> v]
    BY <1>1 DEF Hit
  <1>3. (a => aim.moved) /\ (~v => aim.moved \/ aim.blurred)
    BY <1>1
  <1>4. aim.step \in Nat /\ aim.nth \in Nat /\ aim.moved \in BOOLEAN /\ aim.blurred \in BOOLEAN
    BY DEF Aims
  <1> QED BY <1>2, <1>3, <1>4 DEF Taken, AsAimed

-----------------------------------------------------------------------------
(* Facts about the state.                                                   *)

\* Where the step in hand is.
LEMMA NowFacts ==
    ASSUME ClientTypes, PlaceOK, turn # NoCaller
    PROVE  /\ turn \in Callers /\ calls[turn] \in Seq(Step) /\ Now \in Step
           /\ step \in 1..Len(calls[turn]) /\ step \in Nat
           /\ Len(calls[turn]) \in Nat /\ Len(calls[turn]) <= MaxSteps /\ host = "up"
           /\ MaxSteps \in Nat
  BY ComputerHostAssumption DEF ClientTypes, PlaceOK, Now

\* What may come of a request to a helper.
LEMMA OutcomeFacts ==
    ASSUME RuntimeTypes, NEW h \in Programs, NEW o \in Outcomes(h)
    PROVE  /\ o.ok \in BOOLEAN /\ o.done \in BOOLEAN /\ o.then \in Conditions
           /\ o.ok => o.done
           /\ helper[h] = "none" => o.then = "none"
  <1>1. CASE helper[h] = "up"
    <2>1. o \in {Outcome(TRUE, TRUE, "up"), Outcome(FALSE, FALSE, "up"), Outcome(FALSE, FALSE, "ended"),
                 Outcome(FALSE, TRUE, "ended")}
      BY <1>1 DEF Outcomes
    <2>2. \E ok \in BOOLEAN, done \in BOOLEAN, then \in {"up", "ended"} : (ok => done) /\ o = Outcome(ok, done, then)
      BY <2>1
    <2>3. PICK ok \in BOOLEAN, done \in BOOLEAN, then \in {"up", "ended"} : (ok => done) /\ o = Outcome(ok, done, then)
      BY <2>2
    <2>4. o.ok = ok /\ o.done = done /\ o.then = then
      BY <2>3 DEF Outcome
    <2> QED BY <1>1, <2>3, <2>4 DEF Conditions
  <1>2. CASE helper[h] # "up"
    <2>1. o = Outcome(FALSE, FALSE, helper[h]) /\ helper[h] \in Conditions
      BY <1>2 DEF Outcomes, RuntimeTypes
    <2> QED BY <2>1 DEF Outcome
  <1> QED BY <1>1, <1>2

\* Whom a request goes to.
LEMMA HelperFacts ==
    ASSUME RuntimeTypes
    PROVE  "driver" \in Helpers /\ Eye \in Helpers /\ Helpers \subseteq Programs /\ Eye \in Programs
  BY DEF RuntimeTypes, Helpers, Eye, Programs

\* The first input of a step is the next one as long as none of the step was taken.
LEMMA FirstInput ==
    ASSUME HandTypes, ClientTypes, PlaceOK, turn # NoCaller, Told(took) = UpTo(calls[turn], step, 1)
    PROVE  Nth = 1
  <1> SUFFICES ASSUME took # <<>>, took[Len(took)].step = step PROVE FALSE
    BY DEF Nth
  <1>1. Len(took) \in DOMAIN took /\ took[Len(took)] \in Taken
    BY DEF HandTypes
  <1>2. <<step, took[Len(took)].nth>> \in Inputs(calls[turn])
        /\ Before(<<step, took[Len(took)].nth>>, <<step, 1>>)
    BY <1>1 DEF Told, UpTo
  <1>3. took[Len(took)].nth \in 1..3 /\ step \in Nat
    BY <1>2, NowFacts DEF Inputs
  <1> QED BY <1>2, <1>3 DEF Before

\* At the end of a step, all of it is taken.
LEMMA WholeStep ==
    ASSUME ClientTypes, PlaceOK, HandOK, turn # NoCaller,
           at \in Looking \/ (at # "input" /\ Parts(Now.kind) = 0)
    PROVE  Told(took) = UpTo(calls[turn], step, 4)
  <1>1. CASE at \in Looking
    BY <1>1 DEF HandOK, Reached, Looking
  <1>2. CASE at \notin Looking \cup {"input"} /\ Parts(Now.kind) = 0
    <2>1. Told(took) = UpTo(calls[turn], step, 1)
      BY <1>2 DEF HandOK, Reached, Looking
    <2> QED BY <1>2, <2>1, NowFacts, StepOver DEF Now
  <1> QED BY <1>1, <1>2

\* Before the inputs of a step, and in one that has none, nothing of it is taken.
LEMMA NoneOfStep ==
    ASSUME ClientTypes, PlaceOK, HandOK, turn # NoCaller, at # "input", at \notin Looking \/ Parts(Now.kind) = 0
    PROVE  Told(took) = UpTo(calls[turn], step, 1)
  <1>1. CASE at \notin Looking
    BY <1>1 DEF HandOK, Reached
  <1>2. CASE at \in Looking /\ Parts(Now.kind) = 0
    <2>1. Told(took) = UpTo(calls[turn], step, 4)
      BY <1>2, WholeStep
    <2> QED BY <1>2, <2>1, NowFacts, StepOver DEF Now
  <1> QED BY <1>1, <1>2

-----------------------------------------------------------------------------
(* What the steps do to the call: they go on in the step, finish it, or     *)
(* answer.                                                                  *)

\* The host goes to another place of the step.
LEMMA GoToKeeps ==
    ASSUME ClientTypes, PlaceOK, turn # NoCaller, host' = "up", NEW place \in Places \ {"idle"}, GoTo(place),
           place \in {"check", "input"} => Now.kind \in Foreground,
           place = "poll" => Now.kind \in Waits,
           place = "sleep" => Now.kind = "sleep"
    PROVE  ClientTypes' /\ PlaceOK'
  <1>1. at' = place /\ UNCHANGED <<turn, calls, answer, step>>
    BY DEF GoTo, clientVars
  <1>2. Now' = Now
    BY <1>1 DEF Now
  <1>3. ClientTypes'
    BY <1>1 DEF ClientTypes
  <1>4. PlaceOK'
    BY <1>1, <1>2 DEF PlaceOK
  <1> QED BY <1>3, <1>4

\* It answers.
LEMMA AnswerKeeps ==
    ASSUME ClientTypes, took' \in Seq(Taken), NEW t \in Callers, NEW ok \in BOOLEAN, Answer(t, ok)
    PROVE  ClientTypes' /\ PlaceOK' /\ at' = "idle" /\ turn' = NoCaller
  <1>1. /\ answer' = [ok |-> ok, steps |-> calls[t], took |-> took']
        /\ calls' = [calls EXCEPT ![t] = <<>>] /\ turn' = NoCaller /\ at' = "idle" /\ step' = 0
    BY DEF Answer
  <1>2. calls[t] \in Seq(Step) /\ <<>> \in Seq(Step) /\ 0 \in 0..MaxSteps
    BY ComputerHostAssumption DEF ClientTypes
  <1>3. ClientTypes'
    BY <1>1, <1>2 DEF ClientTypes, Places, Looking
  <1>4. PlaceOK'
    BY <1>1 DEF PlaceOK
  <1> QED BY <1>1, <1>3, <1>4

\* It finishes the step.
LEMMA FinishKeeps ==
    ASSUME ClientTypes, PlaceOK, turn # NoCaller, host' = "up", took' \in Seq(Taken), Finish
    PROVE  ClientTypes' /\ PlaceOK' /\ at' \in {"idle", "step"}
  <1>1. CASE step < Len(calls[turn])
    <2>1. at' = "step" /\ step' = step + 1 /\ UNCHANGED <<turn, calls, answer>>
      BY <1>1 DEF Finish, clientVars
    <2>2. step' \in 1..Len(calls[turn]) /\ step' \in 0..MaxSteps
      BY <1>1, <2>1, NowFacts
    <2>3. ClientTypes'
      BY <2>1, <2>2 DEF ClientTypes, Places, Looking
    <2>4. PlaceOK'
      BY <2>1, <2>2 DEF PlaceOK
    <2> QED BY <2>1, <2>3, <2>4
  <1>2. CASE ~(step < Len(calls[turn]))
    <2>1. Answer(turn, TRUE) /\ turn \in Callers
      BY <1>2, NowFacts DEF Finish
    <2>2. ClientTypes' /\ PlaceOK' /\ at' = "idle"
      BY <2>1, AnswerKeeps
    <2> QED BY <2>2
  <1> QED BY <1>1, <1>2

\* What an answer told stays true until the next.
LEMMA SameAnswer ==
    ASSUME AnswerOK, answer' = answer
    PROVE  AnswerOK'
  BY DEF AnswerOK

\* What was taken is as the answer tells it,
LEMMA AnswerTells ==
    ASSUME NEW t \in Callers, NEW ok \in BOOLEAN, Answer(t, ok), calls[t] \in Seq(Step), InOrder(took'),
           NEW s \in Nat, NEW q \in Nat, Told(took') = UpTo(calls[t], s, q),
           ok => UpTo(calls[t], s, q) = Inputs(calls[t])
    PROVE  HandOK' /\ AnswerOK'
  <1>1. answer' = [ok |-> ok, steps |-> calls[t], took |-> took'] /\ turn' = NoCaller
    BY DEF Answer
  <1>2. HandOK'
    BY <1>1 DEF HandOK
  <1>3. Beginning(calls[t], took')
    BY PrefixBegins
  <1>4. answer'.took = took' /\ answer'.steps = calls[t] /\ answer'.ok = ok
    BY <1>1
  <1>5. AnswerOK'
    BY <1>3, <1>4 DEF AnswerOK
  <1> QED BY <1>2, <1>5

\* also when nothing was taken in this step,
LEMMA AnswerTellsSame ==
    ASSUME ClientTypes, PlaceOK, HandTypes, HandOK, turn # NoCaller, UNCHANGED took, Answer(turn, FALSE)
    PROVE  HandOK' /\ AnswerOK'
  <1>1. turn \in Callers /\ calls[turn] \in Seq(Step) /\ step \in Nat
    BY NowFacts
  <1>2. Reached \in Nat
    <2>1. CASE at = "input"
      <3>1. took # <<>> => Len(took) \in DOMAIN took /\ took[Len(took)] \in Taken
        BY DEF HandTypes
      <3> QED BY <2>1, <3>1 DEF Reached, Looking, Nth, Taken
    <2> QED BY <2>1 DEF Reached, Looking
  <1>3. InOrder(took') /\ Told(took') = UpTo(calls[turn], step, Reached)
    BY DEF HandOK
  <1> QED BY <1>1, <1>2, <1>3, AnswerTells

\* or all of the step was taken before.
LEMMA FinishTells ==
    ASSUME ClientTypes, PlaceOK, HandOK, AnswerOK, turn # NoCaller, UNCHANGED took, Finish,
           Told(took) = UpTo(calls[turn], step, 4)
    PROVE  HandOK' /\ AnswerOK'
  <1>0. turn \in Callers /\ calls[turn] \in Seq(Step) /\ step \in Nat /\ step \in 1..Len(calls[turn])
    BY NowFacts
  <1>1. CASE step < Len(calls[turn])
    <2>1. at' = "step" /\ step' = step + 1 /\ UNCHANGED <<turn, calls, answer>>
      BY <1>1 DEF Finish, clientVars
    <2>2. Reached' = 1
      BY <2>1 DEF Reached, Looking
    <2>3. Told(took) = UpTo(calls[turn], step + 1, 1)
      BY <1>0, NextStep
    <2>4. HandOK'
      BY <2>1, <2>2, <2>3 DEF HandOK
    <2>5. AnswerOK'
      BY <2>1, SameAnswer
    <2> QED BY <2>4, <2>5
  <1>2. CASE ~(step < Len(calls[turn]))
    <2>0. Answer(turn, TRUE)
      BY <1>2 DEF Finish
    <2>1. step = Len(calls[turn])
      BY <1>2, NowFacts
    <2>2. UpTo(calls[turn], step, 4) = Inputs(calls[turn])
      BY <1>0, <2>1, NextStep
    <2>3. InOrder(took') /\ Told(took') = UpTo(calls[turn], step, 4)
      BY DEF HandOK
    <2> QED BY <1>0, <2>0, <2>2, <2>3, AnswerTells
  <1> QED BY <1>1, <1>2

\* To go on within a step, before or after its inputs, changes nothing of this.
LEMMA GoToTells ==
    ASSUME ClientTypes, PlaceOK, HandTypes, HandOK, AnswerOK, turn # NoCaller, UNCHANGED took,
           NEW place, GoTo(place), at # "input",
           \/ place \in Looking /\ Told(took) = UpTo(calls[turn], step, 4)
           \/ place \notin Looking /\ Told(took) = UpTo(calls[turn], step, 1)
              /\ (place = "input" => Now.kind \in Foreground)
    PROVE  HandOK' /\ AnswerOK'
  <1>1. at' = place /\ UNCHANGED <<turn, calls, answer, step>>
    BY DEF GoTo, clientVars
  <1>2. AnswerOK'
    BY <1>1, SameAnswer
  <1>3. InOrder(took) /\ Told(took) = UpTo(calls[turn], step, Reached)
    BY DEF HandOK
  <1>4. CASE place \in Looking
    <2>1. Reached' = 4
      BY <1>1, <1>4 DEF Reached, Looking
    <2>2. Told(took)' = UpTo(calls[turn], step, 4) /\ at' # "input"
      BY <1>1, <1>4 DEF Looking
    <2> QED BY <1>1, <1>2, <1>3, <1>4, <2>1, <2>2 DEF HandOK
  <1>5. CASE place \notin Looking
    <2>1. Told(took) = UpTo(calls[turn], step, 1)
      BY <1>5
    <2>2. Nth = 1
      BY <2>1, FirstInput
    <2>3. Nth' = 1
      BY <1>1, <2>2 DEF Nth
    <2>4. Reached' = 1
      BY <1>1, <1>5, <2>3 DEF Reached, Looking
    <2>5. place = "input" => 1 <= Parts(Now.kind) /\ Now' = Now
      BY <1>1, <1>5, PartsFacts DEF Now
    <2> QED BY <1>1, <1>2, <1>3, <2>1, <2>3, <2>4, <2>5 DEF HandOK
  <1> QED BY <1>4, <1>5

-----------------------------------------------------------------------------
(* What the steps do to the helpers, to the frames and to late inputs.      *)

\* Nothing happens to late inputs.
LEMMA LateStays ==
    ASSUME LateOK, UNCHANGED <<late, focus>>
    PROVE  LateOK'
  BY DEF LateOK, LateFits

\* A helper that answered, refused or ended was one that the host may have.
LEMMA RequestKeeps ==
    ASSUME RuntimeTypes, NoStrayHelper, host = "up", NEW h \in Helpers, NEW then \in Conditions,
           helper' = [helper EXCEPT ![h] = then], UNCHANGED <<wayland, control, host>>,
           epoch' \in Nat, ids' \subseteq Elements
    PROVE  RuntimeTypes' /\ NoStrayHelper'
  <1>1. h \in Programs
    BY HelperFacts
  <1>2. Helpers' = Helpers
    BY DEF Helpers
  <1>3. RuntimeTypes'
    BY <1>1 DEF RuntimeTypes
  <1>4. NoStrayHelper'
    BY <1>1, <1>2 DEF NoStrayHelper, RuntimeTypes, Programs
  <1> QED BY <1>3, <1>4

\* Nothing of them changes.
LEMMA RuntimeStays ==
    ASSUME RuntimeTypes, NoStrayHelper, UNCHANGED <<wayland, control, runtimeVars>>
    PROVE  RuntimeTypes' /\ NoStrayHelper'
  BY DEF RuntimeTypes, NoStrayHelper, runtimeVars, Helpers

\* A listing gives new ids.
LEMMA ListedTypes ==
    ASSUME RuntimeTypes, NEW o, Listed(o)
    PROVE  epoch' \in Nat /\ ids' \subseteq Elements
  <1>1. [epoch |-> epoch + 1, mine |-> TRUE] \in Elements
    BY DEF RuntimeTypes, Elements
  <1>2. CASE o.ok
    <2>1. epoch' = epoch + 1 /\ ids' = ids \cup {[epoch |-> epoch + 1, mine |-> TRUE]}
      BY <1>2 DEF Listed
    <2>2. epoch' \in Nat
      BY <2>1 DEF RuntimeTypes
    <2>3. ids' \subseteq Elements
      BY <1>1, <2>1 DEF RuntimeTypes
    <2> QED BY <2>2, <2>3
  <1>3. CASE ~o.ok
    BY <1>3 DEF RuntimeTypes, Listed
  <1> QED BY <1>2, <1>3

\* Frames are dropped.
LEMMA FramesShrink ==
    ASSUME FrameTypes, FramesOK, NewestFramesKept, snaps' \subseteq snaps, UNCHANGED <<shots, evicted>>
    PROVE  FrameTypes' /\ FramesOK' /\ NewestFramesKept'
  <1>1. /\ IsFiniteSet(snaps') /\ Cardinality(snaps') <= Cardinality(snaps)
        /\ Cardinality(snaps') \in Nat /\ Cardinality(snaps) \in Nat
    BY FS_Subset, FS_CardinalityType DEF FramesOK
  <1>2. MaxSnapshots \in Nat
    BY ComputerHostAssumption
  <1>3. FrameTypes'
    BY DEF FrameTypes
  <1>4. FramesOK'
    BY <1>1 DEF FramesOK
  <1>5. NewestFramesKept'
    BY <1>1, <1>2 DEF NewestFramesKept
  <1> QED BY <1>3, <1>4, <1>5

\* One frame has grown old.
LEMMA FramesGrowOld ==
    ASSUME FrameTypes, FramesOK, NewestFramesKept, NEW s \in snaps,
           snaps' = (snaps \ {s}) \cup {[s EXCEPT !.old = TRUE]}, UNCHANGED <<shots, evicted>>
    PROVE  FrameTypes' /\ FramesOK' /\ NewestFramesKept'
  <1> DEFINE old == [s EXCEPT !.old = TRUE]  rest == snaps \ {s}
  <1>0. MaxSnapshots \in Nat /\ s \in Snapshot
    BY ComputerHostAssumption DEF FrameTypes
  <1>1. old \in Snapshot /\ old.id = s.id /\ (~old.blurred => old.shown = old.window)
    BY <1>0 DEF Snapshot, FramesOK
  <1>2. /\ IsFiniteSet(rest) /\ Cardinality(rest) = Cardinality(snaps) - 1
        /\ Cardinality(snaps) \in Nat /\ Cardinality(rest) \in Nat
    BY FS_RemoveElement, FS_CardinalityType DEF FramesOK
  <1> HIDE DEF old
  <1>3. IsFiniteSet(rest \cup {old}) /\ Cardinality(rest \cup {old}) \in {Cardinality(rest), Cardinality(rest) + 1}
    BY <1>2, FS_AddElement
  <1>4. snaps' = rest \cup {old}
    BY DEF old
  <1>5. FrameTypes'
    BY <1>1, <1>4 DEF FrameTypes
  <1>6. FramesOK'
    <2>1. \A r \in rest : r.id <= shots /\ (~r.blurred => r.shown = r.window) /\ r.id # s.id
      BY DEF FramesOK
    <2>2. s.id <= shots
      BY DEF FramesOK
    <2>3. \A r, q \in rest : r.id = q.id => r = q
      BY DEF FramesOK
    <2>4. shots' = shots /\ IsFiniteSet(snaps')
      BY <1>3, <1>4
    <2>5. \A r \in snaps' : r.id <= shots' /\ (~r.blurred => r.shown = r.window)
      BY <1>1, <1>4, <2>1, <2>2, <2>4
    <2>6. \A r, q \in snaps' : r.id = q.id => r = q
      BY <1>1, <1>4, <2>1, <2>3
    <2> QED BY <2>4, <2>5, <2>6 DEF FramesOK
  <1>7. NewestFramesKept'
    <2>1. Cardinality(snaps') = Cardinality(rest \cup {old})
      BY <1>4
    <2>2. Cardinality(snaps') <= Cardinality(snaps)
      BY <1>2, <1>3, <2>1
    <2>3. Cardinality(snaps) <= MaxSnapshots /\ (evicted # 0 => evicted + MaxSnapshots <= shots)
      BY DEF NewestFramesKept
    <2>4. Cardinality(snaps') <= MaxSnapshots
      <3>1. Cardinality(snaps') \in Nat
        BY <1>2, <1>3, <2>1
      <3> QED BY <1>0, <1>2, <2>2, <2>3, <3>1
    <2> QED BY <2>3, <2>4 DEF NewestFramesKept
  <1> QED BY <1>5, <1>6, <1>7

\* There is an oldest one.
LEMMA OldestIsThere ==
    ASSUME FrameTypes, NEW some \in SUBSET snaps, some # {}
    PROVE  \E s \in some : \A r \in some : s.id <= r.id
  <1> DEFINE less == OpToRel(<, Nat)  names == {s.id : s \in some}
  <1>1. names \subseteq Nat /\ names # {}
    BY DEF FrameTypes, Snapshot
  <1>2. \A x, y \in Nat : <<y, x>> \in less <=> y < x
    BY DEF OpToRel
  <1>3. IsWellFoundedOn(less, Nat)
    BY NatLessThanWellFounded
  <1> HIDE DEF less, names
  <1>4. PICK x \in names : \A y \in names : <<y, x>> \notin less
    BY <1>1, <1>3, WFMin
  <1>5. ASSUME NEW y \in names PROVE x <= y
    <2>1. x \in Nat /\ y \in Nat /\ <<y, x>> \notin less
      BY <1>1, <1>4, <1>5
    <2>2. ~(y < x)
      BY <1>2, <2>1
    <2> QED BY <2>1, <2>2
  <1> QED BY <1>5 DEF names

\* The frames of some ids are at most as many as the ids.
LEMMA AsManyAsIds ==
    ASSUME FrameTypes, FramesOK, NEW some \in SUBSET snaps, NEW e \in Nat, \A s \in some : e <= s.id, e <= shots
    PROVE  IsFiniteSet(some) /\ Cardinality(some) \in Nat /\ Cardinality(some) <= shots - e + 1
  <1> DEFINE name == [s \in some |-> s.id]
  <1>0. e \in Int /\ shots \in Int /\ shots \in Nat
    BY DEF FrameTypes
  <1>1. \A s \in some : s.id \in e..shots
    BY DEF FrameTypes, FramesOK, Snapshot
  <1>2. name \in [some -> e..shots]
    BY <1>1
  <1>3. \A s, r \in some : name[s] = name[r] => s = r
    BY DEF FramesOK
  <1>4. name \in Injection(some, e..shots)
    BY <1>2, <1>3 DEF Injection, IsInjective
  <1>5. IsFiniteSet(e..shots) /\ Cardinality(e..shots) = shots - e + 1
    BY <1>0, FS_Interval
  <1> HIDE DEF name
  <1>6. IsFiniteSet(some) /\ Cardinality(some) <= Cardinality(e..shots)
    BY <1>4, <1>5, FS_Injection
  <1> QED BY <1>0, <1>5, <1>6, FS_CardinalityType

\* One frame has been made, and some are left of those before.
LEMMA FrameAdded ==
    ASSUME FrameTypes, FramesOK, NEW new \in Snapshot, new.id = shots + 1, NEW rest \in SUBSET snaps,
           snaps' = rest \cup {new}, shots' = shots + 1, evicted' \in 0..shots, ~new.blurred => new.shown = new.window
    PROVE  /\ FrameTypes' /\ FramesOK'
           /\ Cardinality(rest) \in Nat /\ Cardinality(snaps') = Cardinality(rest) + 1
  <1>0. shots \in Nat /\ \A s \in rest : s.id \in Nat /\ s.id <= shots
    BY DEF FrameTypes, FramesOK, Snapshot
  <1>1. IsFiniteSet(rest) /\ Cardinality(rest) \in Nat
    BY FS_Subset, FS_CardinalityType DEF FramesOK
  <1>2. new \notin rest
    BY <1>0
  <1>3. IsFiniteSet(snaps') /\ Cardinality(snaps') = Cardinality(rest) + 1
    BY <1>1, <1>2, FS_AddElement
  <1>4. FrameTypes'
    BY <1>0 DEF FrameTypes
  <1>5. FramesOK'
    <2>1. \A s \in snaps' : s.id <= shots' /\ (~s.blurred => s.shown = s.window)
      BY <1>0 DEF FramesOK
    <2>2. \A s, r \in snaps' : s.id = r.id => s = r
      BY <1>0 DEF FramesOK
    <2> QED BY <1>3, <2>1, <2>2 DEF FramesOK
  <1> QED BY <1>1, <1>3, <1>4, <1>5

\* The oldest goes if there would be too many.
LEMMA FramesKept ==
    ASSUME FrameTypes, FramesOK, NewestFramesKept, NEW new \in Snapshot, new.id = shots + 1, snaps' = Kept(new),
           shots' = shots + 1, ~new.blurred => new.shown = new.window,
           evicted' = IF Young \subseteq snaps' THEN evicted
                      ELSE CHOOSE e \in 1..shots : Young \ snaps' = {s \in Young : s.id = e}
    PROVE  FrameTypes' /\ FramesOK' /\ NewestFramesKept'
  <1>0. MaxSnapshots \in Nat \ {0} /\ shots \in Nat /\ evicted \in 0..shots
    BY ComputerHostAssumption DEF FrameTypes
  <1>1. Young \in SUBSET snaps
    BY DEF Young
  <1>2. /\ IsFiniteSet(Young) /\ Cardinality(Young) <= Cardinality(snaps)
        /\ Cardinality(Young) \in Nat /\ Cardinality(snaps) \in Nat /\ Cardinality(snaps) <= MaxSnapshots
    BY <1>1, FS_Subset, FS_CardinalityType DEF FramesOK, NewestFramesKept
  <1>3. \A s \in Young : s.id \in 1..shots
    BY <1>1 DEF FrameTypes, FramesOK, Snapshot
  <1>4. CASE Cardinality(Young) < MaxSnapshots
    <2>1. snaps' = Young \cup {new}
      BY <1>4 DEF Kept
    <2>2. evicted' = evicted
      BY <2>1
    <2>3. FrameTypes' /\ FramesOK' /\ Cardinality(snaps') = Cardinality(Young) + 1
      BY <1>0, <1>1, <2>1, <2>2, FrameAdded
    <2>4. NewestFramesKept'
      BY <1>0, <1>2, <1>4, <2>2, <2>3 DEF NewestFramesKept
    <2> QED BY <2>3, <2>4
  <1>5. CASE ~(Cardinality(Young) < MaxSnapshots)
    <2> DEFINE oldest == CHOOSE s \in Young : \A r \in Young : s.id <= r.id
    <2>1. Young # {}
      BY <1>0, <1>2, <1>5, FS_EmptySet
    <2>2. \E s \in Young : \A r \in Young : s.id <= r.id
      BY <1>1, <2>1, OldestIsThere
    <2>3. oldest \in Young /\ \A r \in Young : oldest.id <= r.id
      BY <2>2
    <2>4. snaps' = (Young \ {oldest}) \cup {new}
      BY <1>5 DEF Kept
    <2> HIDE DEF oldest
    <2>5. new \notin Young
      BY <1>0, <1>3
    <2>6. Young \ snaps' = {oldest}
      BY <2>3, <2>4, <2>5
    <2>7. oldest.id \in 1..shots /\ {oldest} = {s \in Young : s.id = oldest.id}
      BY <1>1, <1>3, <2>3 DEF FramesOK
    <2>8. \A e \in 1..shots : {oldest} = {s \in Young : s.id = e} => e = oldest.id
      OBVIOUS
    <2>9. evicted' = oldest.id
      <3>1. evicted' = CHOOSE e \in 1..shots : Young \ snaps' = {s \in Young : s.id = e}
        BY <2>3, <2>6
      <3>2. evicted' \in 1..shots /\ Young \ snaps' = {s \in Young : s.id = evicted'}
        BY <2>6, <2>7, <3>1
      <3> QED BY <2>6, <2>8, <3>2
    <2>10. FrameTypes' /\ FramesOK' /\ Cardinality(snaps') = Cardinality(Young \ {oldest}) + 1
      <3> DEFINE rest == Young \ {oldest}
      <3>1. evicted' \in 0..shots /\ rest \in SUBSET snaps /\ snaps' = rest \cup {new}
        BY <1>0, <1>1, <2>4, <2>7, <2>9
      <3> HIDE DEF rest
      <3>2. FrameTypes' /\ FramesOK' /\ Cardinality(snaps') = Cardinality(rest) + 1
        BY <3>1, FrameAdded
      <3> QED BY <3>2 DEF rest
    <2>11. Cardinality(Young \ {oldest}) = Cardinality(Young) - 1
      BY <1>2, <2>3, FS_RemoveElement
    <2>12. Cardinality(Young) <= shots - oldest.id + 1
      BY <1>1, <2>3, <2>7, AsManyAsIds
    <2>13. NewestFramesKept'
      BY <1>0, <1>2, <1>5, <2>7, <2>9, <2>10, <2>11, <2>12 DEF NewestFramesKept
    <2> QED BY <2>10, <2>13
  <1> QED BY <1>4, <1>5

-----------------------------------------------------------------------------
(* The steps keep the invariant: how a step leaves the call, once it is     *)
(* known what it does to everything around it.                              *)

\* The helpers, the frames, the desktop and late inputs.
Around ==
    /\ RuntimeTypes /\ NoStrayHelper
    /\ FrameTypes /\ FramesOK /\ SightOK /\ NewestFramesKept
    /\ DesktopTypes /\ LateOK

\* The call has failed, and nothing more was taken.
LEMMA Failed ==
    ASSUME HostInv, turn # NoCaller, UNCHANGED took, Answer(turn, FALSE), Around'
    PROVE  HostInv'
  <1> USE DEF HostInv
  <1>1. took' \in Seq(Taken) /\ HandTypes'
    BY DEF HandTypes
  <1>2. turn \in Callers
    BY NowFacts
  <1>3. ClientTypes' /\ PlaceOK' /\ at' = "idle"
    BY <1>1, <1>2, AnswerKeeps
  <1>4. HandOK' /\ AnswerOK'
    BY AnswerTellsSame
  <1>5. FocusOK' /\ TookOK'
    BY <1>3 DEF FocusOK, TookOK
  <1> QED BY <1>1, <1>3, <1>4, <1>5 DEF Around

\* The step is finished, with all of its inputs taken.
LEMMA Finished ==
    ASSUME HostInv, turn # NoCaller, host' = "up", UNCHANGED took, Finish, Around',
           at \in Looking \/ (at # "input" /\ Parts(Now.kind) = 0)
    PROVE  HostInv'
  <1> USE DEF HostInv
  <1>1. took' \in Seq(Taken) /\ HandTypes'
    BY DEF HandTypes
  <1>2. ClientTypes' /\ PlaceOK' /\ at' \in {"idle", "step"}
    BY <1>1, FinishKeeps
  <1>3. HandOK' /\ AnswerOK'
    BY WholeStep, FinishTells
  <1>4. FocusOK' /\ TookOK'
    BY <1>2 DEF FocusOK, TookOK
  <1> QED BY <1>1, <1>2, <1>3, <1>4 DEF Around

\* The host goes on in the step, before its inputs or after them.
LEMMA WentOn ==
    ASSUME HostInv, turn # NoCaller, host' = "up", UNCHANGED took, NEW place \in Places \ {"idle"}, GoTo(place), Around',
           at # "input",
           place \in {"check", "input"} => Now.kind \in Foreground,
           place = "poll" => Now.kind \in Waits,
           place = "sleep" => Now.kind = "sleep",
           \/ place \in Looking /\ (at \in Looking \/ Parts(Now.kind) = 0)
           \/ place \notin Looking /\ (at \notin Looking \/ Parts(Now.kind) = 0),
           FocusOK'
    PROVE  HostInv'
  <1> USE DEF HostInv
  <1>1. HandTypes'
    BY DEF HandTypes
  <1>2. ClientTypes' /\ PlaceOK'
    BY GoToKeeps
  <1>3. at \in Looking \/ Parts(Now.kind) = 0 => Told(took) = UpTo(calls[turn], step, 4)
    BY WholeStep
  <1>4. HandOK' /\ AnswerOK'
    <2>1. at \notin Looking \/ Parts(Now.kind) = 0 => Told(took) = UpTo(calls[turn], step, 1)
      BY NoneOfStep
    <2> HIDE DEF HostInv
    <2>2. ClientTypes /\ PlaceOK /\ HandTypes /\ HandOK /\ AnswerOK
      BY DEF HostInv
    <2>3. place = "input" => Now.kind \in Foreground
      OBVIOUS
    <2> QED BY <1>3, <2>1, <2>2, <2>3, GoToTells
  <1>5. TookOK'
    BY DEF TookOK
  <1> QED BY <1>1, <1>2, <1>4, <1>5 DEF Around

\* The call in hand is where it was.
LEMMA Stayed ==
    ASSUME HostInv, UNCHANGED <<turn, at, step, took, answer>>, calls' \in [Callers -> Seq(Step)],
           turn # NoCaller => host' = "up" /\ calls'[turn] = calls[turn],
           Around', FocusOK'
    PROVE  HostInv'
  <1> USE DEF HostInv
  <1>1. ClientTypes' /\ HandTypes' /\ AnswerOK' /\ TookOK'
    BY SameAnswer DEF ClientTypes, HandTypes, TookOK
  <1>2. CASE turn = NoCaller
    <2>1. at = "idle" /\ step = 0
      BY <1>2 DEF PlaceOK
    <2>2. PlaceOK' /\ HandOK'
      BY <1>2, <2>1 DEF PlaceOK, HandOK
    <2> QED BY <1>1, <2>2 DEF Around
  <1>3. CASE turn # NoCaller
    <2>1. Now' = Now
      BY <1>3 DEF Now
    <2>2. PlaceOK'
      BY <1>3, <2>1 DEF PlaceOK
    <2>3. Nth' = Nth /\ Reached' = Reached
      BY DEF Nth, Reached, Looking
    <2>4. HandOK'
      BY <1>3, <2>1, <2>3 DEF HandOK
    <2> QED BY <1>1, <2>2, <2>4 DEF Around
  <1> QED BY <1>2, <1>3

-----------------------------------------------------------------------------
(* One lemma per action.                                                    *)

\* A thread asks.
LEMMA CallStep == ASSUME HostInv, NEW t \in Callers, Call(t) PROVE HostInv'
  <1> USE DEF HostInv
  <1>0. /\ UNCHANGED <<wayland, control, turn, answer, at, step, runtimeVars, frameVars, handVars, desktopVars, late>>
        /\ calls[t] = <<>>
    BY DEF Call
  <1>1. PICK w \in Wanted : \E r \in StepsOf(w) : calls' = [calls EXCEPT ![t] = r]
    BY DEF Call
  <1>2. PICK r \in StepsOf(w) : calls' = [calls EXCEPT ![t] = r]
    BY <1>1
  <1>3. r \in Seq(Step)
    <2>1. w \in Seq(Kinds) /\ Len(w) \in Nat
      BY ComputerHostAssumption
    <2>2. \A kind : FrameOf(kind) \subseteq Nat /\ ElementOf(kind) \subseteq Elements
      <3>1. \A s \in snaps : s.id \in Nat
        BY DEF FrameTypes, Snapshot
      <3>2. NoElement \in Elements /\ ids \subseteq Elements
        BY DEF NoElement, Elements, RuntimeTypes
      <3>3. \A kind : FrameOf(kind) \subseteq Nat
        BY <3>1 DEF FrameOf
      <3>4. \A kind : ElementOf(kind) \subseteq Elements
        BY <3>2 DEF ElementOf
      <3> QED BY <3>3, <3>4
    <2>3. \A i \in 1..Len(w) : w[i] \in Kinds
      BY <2>1
    <2>4. /\ {w[i] : i \in 1..Len(w)} \subseteq Kinds
          /\ UNION {FrameOf(w[i]) : i \in 1..Len(w)} \subseteq Nat
          /\ UNION {ElementOf(w[i]) : i \in 1..Len(w)} \subseteq Elements
      BY <2>2, <2>3
    <2>5. r \in [1..Len(w) -> Step]
      BY <2>4 DEF StepsOf, Step
    <2> QED BY <2>1, <2>5
  <1>4. calls' \in [Callers -> Seq(Step)]
    BY <1>2, <1>3 DEF ClientTypes
  <1>5. turn # NoCaller => host' = "up" /\ calls'[turn] = calls[turn]
    <2>1. turn # NoCaller => Len(calls[turn]) > 0 /\ turn \in Callers
      BY NowFacts
    <2>2. Len(<<>>) = 0
      OBVIOUS
    <2>3. turn # NoCaller => turn # t
      BY <1>0, <2>1, <2>2
    <2> QED BY <1>0, <1>2, <2>1, <2>3 DEF ClientTypes, PlaceOK, runtimeVars
  <1>6. Around'
    <2>1. RuntimeTypes' /\ NoStrayHelper'
      BY <1>0, RuntimeStays
    <2>2. FrameTypes' /\ FramesOK' /\ SightOK' /\ NewestFramesKept'
      BY <1>0, FramesShrink DEF frameVars, SightOK
    <2>3. LateOK'
      BY <1>0, LateStays DEF desktopVars
    <2> QED BY <1>0, <2>1, <2>2, <2>3 DEF Around, DesktopTypes, desktopVars
  <1>7. FocusOK'
    <2>1. CASE turn = NoCaller
      BY <1>0, <2>1 DEF PlaceOK, FocusOK
    <2>2. CASE turn # NoCaller
      <3>1. Now' = Now /\ snaps' = snaps
        BY <1>0, <1>5, <2>2 DEF Now, frameVars
      <3>2. Frame' = Frame
        BY <3>1 DEF Frame
      <3> QED BY <1>0, <3>1, <3>2 DEF FocusOK, desktopVars, frameVars
    <2> QED BY <2>1, <2>2
  <1> QED BY <1>0, <1>4, <1>5, <1>6, <1>7, Stayed DEF handVars

\* Nothing was taken of a call that begins.
LEMMA NothingYet ==
    ASSUME NEW r \in Seq(Step)
    PROVE  <<>> \in Seq(Taken) /\ InOrder(<<>>) /\ Told(<<>>) = {} /\ UpTo(r, 1, 1) = {}
  <1>1. DOMAIN <<>> = {}
    OBVIOUS
  <1>2. InOrder(<<>>) /\ Told(<<>>) = {}
    BY <1>1 DEF InOrder, Told
  <1>3. \A p \in Inputs(r) : p[1] \in 1..Len(r) /\ p[2] \in 1..3
    BY DEF Inputs
  <1>4. \A p \in Inputs(r) : ~Before(p, <<1, 1>>)
    BY <1>3 DEF Before
  <1> QED BY <1>2, <1>4 DEF UpTo

\* The host turns a line down before its first step.
LEMMA TurnedDown ==
    ASSUME HostInv, NEW t \in Callers, turn = NoCaller, took' = <<>>, Answer(t, FALSE), Around'
    PROVE  HostInv'
  <1> USE DEF HostInv
  <1>1. calls[t] \in Seq(Step) /\ 1 \in Nat
    BY DEF ClientTypes
  <1>2. took' \in Seq(Taken) /\ InOrder(took') /\ Told(took') = UpTo(calls[t], 1, 1) /\ HandTypes'
    BY <1>1, NothingYet DEF HandTypes
  <1>3. ClientTypes' /\ PlaceOK' /\ at' = "idle"
    BY <1>2, AnswerKeeps
  <1>4. HandOK' /\ AnswerOK'
    BY <1>1, <1>2, AnswerTells
  <1>5. FocusOK' /\ TookOK'
    BY <1>3 DEF FocusOK, TookOK
  <1> QED BY <1>2, <1>3, <1>4, <1>5 DEF Around

\* The host takes the line of a call.
LEMMA TakeStep == ASSUME HostInv, NEW t \in Callers, Take(t) PROVE HostInv'
  <1> USE DEF HostInv
  <1>0. /\ turn = NoCaller /\ calls[t] # <<>> /\ host' = "up" /\ took' = <<>>
        /\ UNCHANGED <<wayland, control, shots, sight, evicted, desktopVars, late>>
    BY DEF Take
  <1>1. snaps' \subseteq snaps
    BY DEF Take, Young
  <1>2. helper' \in {helper, Ensured}
    BY DEF Take
  <1>3. epoch' \in {epoch, 0} /\ ids' \in {ids, {[i EXCEPT !.mine = FALSE] : i \in ids}}
    BY DEF Take
  <1>4. Around'
    <2>1. Helpers' = Helpers /\ Helpers \subseteq Programs
      BY <1>0, HelperFacts DEF Helpers
    <2>2. helper' \in [Programs -> Conditions]
      BY <1>2 DEF Ensured, RuntimeTypes, Programs, Conditions
    <2>3. ids' \subseteq Elements
      <3>1. ids \subseteq Elements
        BY DEF RuntimeTypes
      <3>2. \A i \in ids : [i EXCEPT !.mine = FALSE] \in Elements
        BY <3>1 DEF Elements
      <3> QED BY <1>3, <3>1, <3>2
    <2>4. RuntimeTypes'
      BY <1>0, <1>3, <2>2, <2>3 DEF RuntimeTypes
    <2>5. \A h \in Programs : helper'[h] # "none" => h \in Helpers
      BY <1>2 DEF Ensured, NoStrayHelper, Programs
    <2>6. NoStrayHelper'
      BY <1>0, <2>1, <2>5 DEF NoStrayHelper, Programs
    <2>7. FrameTypes' /\ FramesOK' /\ SightOK' /\ NewestFramesKept'
      BY <1>0, <1>1, FramesShrink DEF SightOK
    <2>8. LateOK'
      BY <1>0, LateStays DEF desktopVars
    <2> QED BY <1>0, <2>4, <2>6, <2>7, <2>8 DEF Around, DesktopTypes, desktopVars
  <1>5. CASE Gated(calls[t]) \/ Len(calls[t]) > MaxSteps
    <2>1. Answer(t, FALSE)
      BY <1>5 DEF Take
    <2> QED BY <1>0, <1>4, <2>1, TurnedDown
  <1>6. CASE ~(Gated(calls[t]) \/ Len(calls[t]) > MaxSteps)
    <2>1. turn' = t /\ at' = "step" /\ step' = 1 /\ answer' = NoAnswer /\ UNCHANGED <<calls, asks>>
      BY <1>6 DEF Take
    <2>2. calls[t] \in Seq(Step) /\ Len(calls[t]) \in Nat \ {0} /\ Len(calls[t]) <= MaxSteps /\ MaxSteps \in Nat
      BY <1>0, <1>6, ComputerHostAssumption DEF ClientTypes
    <2>3. <<>> \in Seq(Taken) /\ InOrder(<<>>) /\ Told(<<>>) = UpTo(calls[t], 1, 1) /\ <<>> \in Seq(Step)
      <3>1. <<>> \in Seq(Step)
        OBVIOUS
      <3> QED BY <2>2, <3>1, NothingYet
    <2>4. ClientTypes'
      <3>1. answer' \in [ok : BOOLEAN, steps : Seq(Step), took : Seq(Taken)]
        BY <2>1, <2>3 DEF NoAnswer
      <3> QED BY <2>1, <2>2, <3>1 DEF ClientTypes, Places, Looking
    <2>5. t # NoCaller
      BY ComputerHostAssumption
    <2>6. PlaceOK'
      BY <1>0, <2>1, <2>2, <2>5 DEF PlaceOK
    <2>7. HandTypes' /\ TookOK' /\ FocusOK'
      BY <1>0, <2>1, <2>3 DEF HandTypes, TookOK, FocusOK
    <2>8. HandOK'
      <3>1. Reached' = 1
        BY <2>1 DEF Reached, Looking
      <3> QED BY <1>0, <2>1, <2>3, <3>1 DEF HandOK
    <2>9. AnswerOK'
      <3>1. answer'.ok = TRUE /\ answer'.steps = <<>> /\ answer'.took = <<>>
        BY <2>1 DEF NoAnswer
      <3>2. Inputs(<<>>) = {}
        BY DEF Inputs
      <3>3. Told(<<>>) = {}
        BY <2>2, NothingYet
      <3> QED BY <2>3, <3>1, <3>2, <3>3 DEF AnswerOK, Beginning
    <2> QED BY <1>4, <2>4, <2>6, <2>7, <2>8, <2>9 DEF Around
  <1> QED BY <1>5, <1>6

\* A helper cannot be started.
LEMMA StartFailsStep == ASSUME HostInv, NEW t \in Callers, StartFails(t) PROVE HostInv'
  <1> USE DEF HostInv
  <1>0. /\ turn = NoCaller /\ host' = "up" /\ took' = <<>> /\ snaps' = Young /\ Answer(t, FALSE)
        /\ helper' = [h \in {"driver", "portal"} |-> IF h = "driver" \/ helper[h] = "ended" THEN "none" ELSE helper[h]]
        /\ UNCHANGED <<wayland, control, epoch, ids, shots, sight, evicted, desktopVars, late>>
    BY DEF StartFails
  <1>1. Helpers' = Helpers
    BY <1>0 DEF Helpers
  <1>2. RuntimeTypes' /\ NoStrayHelper'
    BY <1>0, <1>1 DEF RuntimeTypes, NoStrayHelper, Programs, Conditions
  <1>3. FrameTypes' /\ FramesOK' /\ SightOK' /\ NewestFramesKept'
    BY <1>0, FramesShrink DEF SightOK, Young
  <1>4. LateOK'
    BY <1>0, LateStays DEF desktopVars
  <1> QED BY <1>0, <1>2, <1>3, <1>4, TurnedDown DEF Around, DesktopTypes, desktopVars

\* Nothing happens to the frame that a step names.
LEMMA FrameStays ==
    ASSUME UNCHANGED <<clientVars, step, frameVars>>
    PROVE  Now' = Now /\ Frame' = Frame
  BY DEF Now, Frame, clientVars, frameVars

\* Where a call is, the host is.
LEMMA InCall ==
    ASSUME HostInv, at # "idle"
    PROVE  turn # NoCaller /\ host = "up" /\ turn \in Callers /\ Now \in Step
  BY NowFacts DEF HostInv, PlaceOK

\* The frame that a step names is its only one.
LEMMA FrameThere ==
    ASSUME HostInv, at \in {"check", "input"}
    PROVE  Frame \in snaps /\ Frame \in Snapshot /\ (~Frame.blurred => Frame.shown = Frame.window)
  <1>1. Frame \in snaps
    BY DEF HostInv, FocusOK, Frame
  <1> QED BY <1>1 DEF HostInv, FrameTypes, FramesOK

\* A step that asks no helper, and drops frames at most.
LEMMA NobodyAsked ==
    ASSUME HostInv, UNCHANGED <<wayland, control, runtimeVars, shots, evicted>>, snaps' \subseteq snaps,
           SightOK', UNCHANGED <<focus, late>>, moved' \in BOOLEAN
    PROVE  Around'
  <1> USE DEF HostInv
  <1>1. RuntimeTypes' /\ NoStrayHelper'
    BY RuntimeStays
  <1>2. FrameTypes' /\ FramesOK' /\ NewestFramesKept'
    BY FramesShrink
  <1> QED BY <1>1, <1>2, LateStays DEF Around, DesktopTypes

\* A step that asks a helper for something, and leaves the frames.
LEMMA HelperAsked ==
    ASSUME HostInv, host = "up", NEW h \in Helpers, NEW then \in Conditions,
           helper' = [helper EXCEPT ![h] = then], UNCHANGED <<wayland, control, host>>,
           epoch' \in Nat, ids' \subseteq Elements,
           UNCHANGED <<snaps, shots, evicted>>, SightOK', UNCHANGED <<focus, late>>, moved' \in BOOLEAN
    PROVE  Around'
  <1> USE DEF HostInv
  <1>1. RuntimeTypes' /\ NoStrayHelper'
    BY RequestKeeps
  <1>2. FrameTypes' /\ FramesOK' /\ NewestFramesKept'
    BY FramesShrink
  <1> QED BY <1>1, <1>2, LateStays DEF Around, DesktopTypes

\* An operation that a sequence does not have.
LEMMA UnsupportedStep == ASSUME HostInv, Unsupported PROVE HostInv'
  <1>1. /\ at = "step" /\ UNCHANGED took /\ Answer(turn, FALSE)
        /\ UNCHANGED <<wayland, control, runtimeVars, frameVars, desktopVars, late>>
    BY DEF Unsupported
  <1>2. Around'
    BY <1>1, NobodyAsked DEF HostInv, frameVars, desktopVars, SightOK, DesktopTypes
  <1> QED BY <1>1, <1>2, InCall, Failed

\* A step looks its snapshot up.
LEMMA LookUpStep == ASSUME HostInv, LookUp PROVE HostInv'
  <1>0. /\ at = "step" /\ Now.kind \in Framed /\ UNCHANGED took
        /\ UNCHANGED <<wayland, control, runtimeVars, shots, sight, evicted, desktopVars, late>>
    BY DEF LookUp, Supported
  <1>1. turn # NoCaller /\ host' = "up"
    BY <1>0, InCall DEF runtimeVars
  <1>2. snaps' \subseteq snaps
    BY DEF LookUp, Stale
  <1>3. Around'
    BY <1>0, <1>2, NobodyAsked DEF HostInv, desktopVars, SightOK, DesktopTypes
  <1>4. CASE \E s \in Young : s.id = Now.frame
    <2>1. CASE Now.kind = "share"
      <3>1. Finish
        BY <1>4, <2>1 DEF LookUp
      <3>2. Parts(Now.kind) = 0
        BY <2>1 DEF Parts, Semantic
      <3> QED BY <1>0, <1>1, <1>3, <3>1, <3>2, Finished
    <2>2. CASE Now.kind = "zoom"
      <3>1. GoTo("observe") /\ at' = "observe"
        BY <1>4, <2>2 DEF LookUp, GoTo
      <3>2. Parts(Now.kind) = 0
        BY <2>2 DEF Parts, Semantic
      <3>3. FocusOK' /\ "observe" \in Places \ {"idle"}
        BY <3>1 DEF FocusOK, Places, Looking
      <3> QED BY <1>0, <1>1, <1>3, <3>1, <3>2, <3>3, WentOn DEF Looking
    <2>3. CASE Now.kind \notin {"share", "zoom"}
      <3>1. /\ GoTo("check") /\ at' = "check" /\ UNCHANGED <<snaps, turn, calls, step>>
        BY <1>4, <2>3 DEF LookUp, GoTo, clientVars
      <3>2. Now.kind \in Foreground
        BY <1>0, <2>3 DEF Framed, Foreground
      <3>3. FocusOK' /\ "check" \in Places \ {"idle"}
        <4>1. Now' = Now
          BY <3>1 DEF Now
        <4>2. \E s \in snaps' : s.id = Now'.frame
          BY <1>4, <3>1, <4>1 DEF Young
        <4> QED BY <3>1, <4>2 DEF FocusOK, Places
      <3> QED BY <1>0, <1>1, <1>3, <3>1, <3>2, <3>3, WentOn DEF Looking
    <2> QED BY <2>1, <2>2, <2>3
  <1>5. CASE ~ \E s \in Young : s.id = Now.frame
    <2>1. Answer(turn, FALSE)
      BY <1>5 DEF LookUp, Stale
    <2> QED BY <1>0, <1>1, <1>3, <2>1, Failed
  <1> QED BY <1>4, <1>5

\* The check of the focus.
LEMMA CheckStep == ASSUME HostInv, Check PROVE HostInv'
  <1>0. /\ at = "check" /\ UNCHANGED <<took, late>>
        /\ UNCHANGED <<wayland, control, frameVars, focus, switches>>
    BY DEF Check
  <1>1. turn # NoCaller /\ host = "up" /\ Now.kind \in Foreground /\ "input" \in Places \ {"idle"}
    BY <1>0, InCall DEF HostInv, PlaceOK, Places
  <1>2. GoTo("input") => Frame' = Frame /\ at' = "input" /\ \E s \in snaps' : s.id = Now'.frame
    <2>1. \E s \in snaps : s.id = Now.frame
      BY <1>0 DEF HostInv, FocusOK
    <2> QED BY <1>0, <2>1 DEF GoTo, clientVars, frameVars, Frame, Now
  <1>3. CASE wayland \/ Frame.window = NoWindow
    <2>1. GoTo("input") /\ moved' = TRUE /\ UNCHANGED runtimeVars
      BY <1>3 DEF Check
    <2>2. Around' /\ host' = "up"
      BY <1>0, <1>1, <2>1, NobodyAsked DEF HostInv, frameVars, SightOK, runtimeVars
    <2>3. FocusOK'
      BY <1>2, <2>1 DEF FocusOK
    <2> QED BY <1>0, <1>1, <2>1, <2>2, <2>3, WentOn DEF Looking
  <1>4. CASE ~(wayland \/ Frame.window = NoWindow)
    <2>1. PICK o \in Outcomes("driver") :
            /\ Requested("driver", o) /\ UNCHANGED <<epoch, ids>>
            /\ IF o.ok /\ focus \notin {NoWindow, Frame.window} THEN Answer(turn, FALSE) /\ UNCHANGED moved
               ELSE GoTo("input") /\ moved' = ~(o.ok /\ focus # NoWindow)
      BY <1>4 DEF Check
    <2>2. /\ helper' = [helper EXCEPT !["driver"] = o.then] /\ UNCHANGED host
          /\ o.then \in Conditions /\ "driver" \in Helpers
      BY <2>1, OutcomeFacts, HelperFacts DEF HostInv, Requested, Programs
    <2>3. moved' \in BOOLEAN
      BY <2>1 DEF HostInv, DesktopTypes
    <2>4. Around'
      BY <1>0, <1>1, <2>1, <2>2, <2>3, HelperAsked DEF HostInv, frameVars, SightOK, RuntimeTypes
    <2>5. CASE o.ok /\ focus \notin {NoWindow, Frame.window}
      BY <1>0, <1>1, <2>1, <2>4, <2>5, Failed
    <2>6. CASE ~(o.ok /\ focus \notin {NoWindow, Frame.window})
      <3>1. GoTo("input") /\ moved' = ~(o.ok /\ focus # NoWindow)
        BY <2>1, <2>6
      <3>2. FocusOK'
        <4>1. ~moved' => Frame.window = focus
          BY <2>6, <3>1
        <4> QED BY <1>0, <1>2, <3>1, <4>1 DEF FocusOK
      <3> QED BY <1>0, <1>1, <2>2, <2>4, <3>1, <3>2, WentOn DEF Looking
    <2> QED BY <2>5, <2>6
  <1> QED BY <1>3, <1>4

\* The next input of a step is its next one in the order of the call, and meant for the window that
\* has the focus unless that may have moved.
LEMMA AimFacts ==
    ASSUME HostInv, at = "input" \/ (at = "step" /\ Now.kind \in Semantic)
    PROVE  /\ turn # NoCaller /\ Aim \in Aims /\ Aim.step = step /\ Aim.nth = Reached /\ Aim.nth <= Parts(Now.kind)
           /\ at = "input" => Aim.nth = Nth
           /\ at = "step" => Aim.nth = 1 /\ Aim.moved
           /\ ~Aim.moved => Aim.window = focus /\ (Aim.blurred \/ Aim.shown = focus)
  <1>1. turn # NoCaller /\ step \in Nat
    BY InCall, NowFacts DEF HostInv
  <1>2. CASE at = "input"
    <2>1. Now.kind \in Foreground /\ Now.kind \notin Semantic
      BY <1>1, <1>2 DEF HostInv, PlaceOK, Foreground, Semantic
    <2>2. Aim = [step |-> step, nth |-> Nth, moved |-> moved, window |-> Frame.window, shown |-> Frame.shown,
                 blurred |-> Frame.blurred]
      BY <2>1 DEF Aim
    <2>3. Nth \in 1..3 /\ Nth <= Parts(Now.kind)
      <3>1. took # <<>> => took[Len(took)] \in Taken
        BY DEF HostInv, HandTypes
      <3>2. Nth \in Nat \ {0}
        BY <3>1 DEF Nth, Taken
      <3>3. Nth <= Parts(Now.kind)
        BY <1>1, <1>2 DEF HostInv, HandOK
      <3> QED BY <3>2, <3>3, PartsFacts
    <2>4. Frame \in Snapshot /\ (~Frame.blurred => Frame.shown = Frame.window)
      BY <1>2, FrameThere
    <2>5. ~moved => Frame.window = focus
      BY <1>2 DEF HostInv, FocusOK
    <2>6. Reached = Nth
      BY <1>2 DEF Reached, Looking
    <2>7. moved \in BOOLEAN /\ Frame.window \in Focused /\ Frame.shown \in Focused /\ Frame.blurred \in BOOLEAN
      BY <2>4 DEF HostInv, DesktopTypes, Snapshot
    <2>8. Aim \in Aims
      BY <1>1, <2>2, <2>3, <2>7 DEF Aims
    <2> QED BY <1>1, <1>2, <2>2, <2>3, <2>4, <2>5, <2>6, <2>8
  <1>3. CASE at = "step" /\ Now.kind \in Semantic
    <2>1. Aim = [step |-> step, nth |-> 1, moved |-> TRUE, window |-> NoWindow, shown |-> NoWindow, blurred |-> TRUE]
      BY <1>3 DEF Aim
    <2>2. Reached = 1 /\ Parts(Now.kind) = 1
      BY <1>3, PartsFacts DEF Reached, Looking
    <2> QED BY <1>1, <1>3, <2>1, <2>2 DEF Aims, Focused
  <1> QED BY <1>2, <1>3

\* The next input of the step: it is taken or not, and then the host goes on or answers.
LEMMA OneInput ==
    ASSUME HostInv, at = "input" \/ (at = "step" /\ Now.kind \in Semantic), host' = "up", Around',
           NEW ok \in BOOLEAN, NEW done \in BOOLEAN, ok => done,
           took' = IF done THEN Append(took, Hit(Aim)) ELSE took,
           IF ~ok THEN Answer(turn, FALSE) ELSE IF Aim.nth < Parts(Now.kind) THEN GoTo("input") ELSE GoTo("observe"),
           ok => FocusOK'
    PROVE  HostInv'
  <1> DEFINE i == Hit(Aim)  q == Aim.nth
  <1> USE DEF HostInv
  <1>0. /\ turn # NoCaller /\ turn \in Callers /\ calls[turn] \in Seq(Step)
        /\ step \in Nat /\ step \in 1..Len(calls[turn])
    BY AimFacts, NowFacts
  <1>1. /\ i \in Taken /\ i.step = step /\ i.nth = q /\ AsAimed(i)
        /\ q \in 1..3 /\ q = Reached /\ q <= Parts(Now.kind)
    <2>1. q \in 1..3
      BY AimFacts DEF Aims
    <2> HIDE DEF HostInv
    <2>2. DesktopTypes
      BY DEF HostInv
    <2> QED BY <2>1, <2>2, AimFacts, HitFacts
  <1>2. took \in Seq(Taken) /\ InOrder(took) /\ Told(took) = UpTo(calls[turn], step, q) /\ TookOK
    BY <1>0, <1>1 DEF HandTypes, HandOK
  <1> HIDE DEF i, q
  <1>3. CASE done
    <2>1. took' = Append(took, i)
      BY <1>3 DEF i
    <2>2. /\ took' \in Seq(Taken) /\ InOrder(took') /\ Told(took') = UpTo(calls[turn], step, q + 1)
          /\ TookOK' /\ took' # <<>> /\ took'[Len(took')] = i
      <3> HIDE DEF HostInv
      <3> DEFINE r == calls[turn]
      <3>1. /\ r \in Seq(Step) /\ step \in 1..Len(r) /\ i.step = step /\ q <= Parts(r[step].kind)
            /\ Told(took) = UpTo(r, step, q) /\ \A n \in DOMAIN took : AsAimed(took[n])
        BY <1>0, <1>1, <1>2 DEF Now, TookOK
      <3> HIDE DEF r
      <3>2. /\ Append(took, i) \in Seq(Taken) /\ InOrder(Append(took, i))
            /\ Told(Append(took, i)) = UpTo(r, step, q + 1)
            /\ \A n \in DOMAIN Append(took, i) : AsAimed(Append(took, i)[n])
            /\ Append(took, i) # <<>> /\ Append(took, i)[Len(Append(took, i))] = i
        BY <1>1, <1>2, <3>1, OneMore
      <3> QED BY <2>1, <3>2 DEF TookOK, r
    <2>3. CASE ~ok
      <3>1. Answer(turn, FALSE)
        BY <2>3
      <3>2. ClientTypes' /\ PlaceOK' /\ at' = "idle"
        BY <1>0, <2>2, <3>1, AnswerKeeps
      <3>3. HandOK' /\ AnswerOK'
        <4>1. q + 1 \in Nat
          BY <1>1
        <4> HIDE DEF HostInv
        <4> QED BY <1>0, <2>2, <3>1, <4>1, AnswerTells
      <3>4. FocusOK' /\ HandTypes'
        BY <2>2, <3>2 DEF FocusOK, HandTypes
      <3> QED BY <2>2, <3>2, <3>3, <3>4 DEF Around
    <2>4. CASE ok /\ q < Parts(Now.kind)
      <3>1. GoTo("input")
        BY <2>4 DEF q
      <3>2. Now.kind \in Foreground
        BY <1>1, <2>4, PartsFacts DEF ControlMethods
      <3>3. ClientTypes' /\ PlaceOK'
        BY <1>0, <3>1, <3>2, GoToKeeps DEF Places
      <3>4. at' = "input" /\ UNCHANGED <<turn, calls, answer, step>>
        BY <3>1 DEF GoTo, clientVars
      <3>5. Nth' = q + 1 /\ Reached' = q + 1
        BY <1>1, <2>2, <3>4 DEF Nth, Reached, Looking
      <3>6. Now' = Now
        BY <3>4 DEF Now
      <3>7. q + 1 <= Parts(Now.kind)
        BY <1>1, <2>4, PartsFacts
      <3>8. HandOK'
        BY <2>2, <3>4, <3>5, <3>6, <3>7 DEF HandOK
      <3>9. AnswerOK' /\ HandTypes'
        BY <2>2, <3>4, SameAnswer DEF HandTypes
      <3> QED BY <2>2, <2>4, <3>3, <3>8, <3>9 DEF Around
    <2>5. CASE ok /\ ~(q < Parts(Now.kind))
      <3>1. GoTo("observe")
        BY <2>5 DEF q
      <3>2. ClientTypes' /\ PlaceOK'
        BY <1>0, <3>1, GoToKeeps DEF Places, Looking
      <3>3. at' = "observe" /\ UNCHANGED <<turn, calls, answer, step>>
        BY <3>1 DEF GoTo, clientVars
      <3>4. q + 1 \in 1..4 /\ Parts(calls[turn][step].kind) < q + 1
        BY <1>1, <2>5, PartsFacts DEF Now
      <3>5. Told(took') = UpTo(calls[turn], step, 4)
        BY <1>0, <2>2, <3>4, StepOver
      <3>6. Reached' = 4
        BY <3>3 DEF Reached, Looking
      <3>7. HandOK'
        BY <2>2, <3>3, <3>5, <3>6 DEF HandOK
      <3>8. AnswerOK' /\ HandTypes'
        BY <2>2, <3>3, SameAnswer DEF HandTypes
      <3> QED BY <2>2, <2>5, <3>2, <3>7, <3>8 DEF Around
    <2> QED BY <2>3, <2>4, <2>5
  <1>4. CASE ~done
    BY <1>0, <1>4, Failed
  <1> QED BY <1>3, <1>4

\* The inputs of a step, each once the one before it is done.
LEMMA InputStep == ASSUME HostInv, Input PROVE HostInv'
  <1>0. at = "input" /\ UNCHANGED <<wayland, control, epoch, ids, frameVars, acts, desktopVars, late>>
    BY DEF Input
  <1>1. turn # NoCaller /\ host = "up"
    BY <1>0, InCall
  <1>2. PICK o \in Outcomes(Eye) :
            /\ Requested(Eye, o) /\ took' = IF o.done THEN Append(took, Hit(Aim)) ELSE took
            /\ IF ~o.ok THEN Answer(turn, FALSE)
               ELSE IF Nth < Parts(Now.kind) THEN GoTo("input") ELSE GoTo("observe")
    BY DEF Input
  <1>3. /\ o.ok \in BOOLEAN /\ o.done \in BOOLEAN /\ o.then \in Conditions /\ (o.ok => o.done)
        /\ helper' = [helper EXCEPT ![Eye] = o.then] /\ UNCHANGED host /\ Eye \in Helpers
    BY <1>2, OutcomeFacts, HelperFacts DEF HostInv, Requested
  <1>4. Aim.nth = Nth
    BY <1>0, AimFacts
  <1>5. Around'
    BY <1>0, <1>1, <1>3, HelperAsked DEF HostInv, frameVars, desktopVars, RuntimeTypes, SightOK, DesktopTypes
  <1>6. o.ok => FocusOK'
    <2>1. CASE o.ok
      <3>1. UNCHANGED <<turn, calls, step>> /\ at' \in {"input", "observe"}
        BY <1>2, <2>1 DEF GoTo, clientVars
      <3>2. Frame' = Frame /\ Now' = Now
        BY <1>0, <3>1 DEF Frame, Now, frameVars
      <3> QED BY <1>0, <3>1, <3>2 DEF HostInv, FocusOK, desktopVars, frameVars
    <2> QED BY <2>1
  <1> QED BY <1>0, <1>1, <1>2, <1>3, <1>4, <1>5, <1>6, OneInput

\* One request to the driver, which is the only input of its step.
LEMMA ActStep == ASSUME HostInv, Act PROVE HostInv'
  <1>0. /\ at = "step" /\ Now.kind \in Semantic
        /\ UNCHANGED <<wayland, control, host, epoch, ids, frameVars, desktopVars, late>>
    BY DEF Act, Supported
  <1>1. turn # NoCaller /\ host = "up"
    BY <1>0, InCall
  <1>2. PICK o \in ActOutcomes :
            /\ helper' = [helper EXCEPT !["driver"] = o.then]
            /\ took' = IF o.done THEN Append(took, Hit(Aim)) ELSE took
            /\ IF o.ok THEN GoTo("observe") ELSE Answer(turn, FALSE)
    BY DEF Act
  <1>3. /\ o.ok \in BOOLEAN /\ o.done \in BOOLEAN /\ o.then \in Conditions /\ (o.ok => o.done)
        /\ "driver" \in Helpers
    <2>1. CASE o = Outcome(FALSE, FALSE, "up")
      BY <2>1, HelperFacts DEF HostInv, Outcome, Conditions
    <2>2. CASE o \in Outcomes("driver")
      BY <2>2, OutcomeFacts, HelperFacts DEF HostInv, Programs
    <2> QED BY <1>2, <2>1, <2>2 DEF ActOutcomes
  <1>4. Aim.nth = 1 /\ Parts(Now.kind) = 1
    BY <1>0, AimFacts, PartsFacts
  <1>5. Around'
    BY <1>0, <1>1, <1>2, <1>3, HelperAsked DEF HostInv, frameVars, desktopVars, RuntimeTypes, SightOK, DesktopTypes
  <1>6. o.ok => FocusOK'
    BY <1>2 DEF GoTo, FocusOK
  <1>7. IF ~o.ok THEN Answer(turn, FALSE) ELSE IF Aim.nth < Parts(Now.kind) THEN GoTo("input") ELSE GoTo("observe")
    <2>1. IF o.ok THEN GoTo("observe") ELSE Answer(turn, FALSE)
      BY <1>2
    <2>2. ~(Aim.nth < Parts(Now.kind))
      BY <1>4
    <2>3. CASE o.ok
      BY <2>1, <2>2, <2>3
    <2>4. CASE ~o.ok
      BY <2>1, <2>4
    <2> QED BY <2>3, <2>4
  <1> QED BY <1>0, <1>1, <1>2, <1>3, <1>5, <1>6, <1>7, OneInput

\* A step that lists is a whole step.
LEMMA ListStep == ASSUME HostInv, List PROVE HostInv'
  <1>0. /\ at = "step" /\ Now.kind = "list" /\ UNCHANGED took
        /\ UNCHANGED <<wayland, control, frameVars, desktopVars, late>>
    BY DEF List, Supported
  <1>1. turn # NoCaller /\ host = "up"
    BY <1>0, InCall
  <1>2. PICK o \in Outcomes("driver") :
            Requested("driver", o) /\ (Listed(o) \/ UNCHANGED <<epoch, ids>>) /\ IF o.ok THEN Finish ELSE Answer(turn, FALSE)
    BY DEF List
  <1>3. /\ helper' = [helper EXCEPT !["driver"] = o.then] /\ UNCHANGED host
        /\ o.then \in Conditions /\ "driver" \in Helpers
    BY <1>2, OutcomeFacts, HelperFacts DEF HostInv, Requested, Programs
  <1>4. epoch' \in Nat /\ ids' \subseteq Elements
    BY <1>2, ListedTypes DEF HostInv, RuntimeTypes
  <1>5. Around'
    BY <1>0, <1>1, <1>3, <1>4, HelperAsked DEF HostInv, frameVars, desktopVars, SightOK, DesktopTypes
  <1>6. Parts(Now.kind) = 0
    BY <1>0 DEF Parts, Semantic
  <1>7. CASE o.ok
    BY <1>0, <1>1, <1>2, <1>3, <1>5, <1>6, <1>7, Finished
  <1>8. CASE ~o.ok
    BY <1>0, <1>1, <1>2, <1>5, <1>8, Failed
  <1> QED BY <1>7, <1>8

\* A step that looks or waits begins.
LEMMA EnterStep == ASSUME HostInv, Enter PROVE HostInv'
  <1> DEFINE place == IF Now.kind \in Waits THEN "poll" ELSE Now.kind
  <1>0. /\ at = "step" /\ Now.kind \in {"observe", "sleep"} \cup Waits /\ GoTo(place) /\ UNCHANGED took
        /\ UNCHANGED <<wayland, control, runtimeVars, frameVars, desktopVars, late>>
    BY DEF Enter, Supported, handVars
  <1>1. turn # NoCaller /\ host' = "up"
    BY <1>0, InCall DEF runtimeVars
  <1>2. Around'
    BY <1>0, NobodyAsked DEF HostInv, frameVars, desktopVars, SightOK, DesktopTypes
  <1>3. Parts(Now.kind) = 0
    BY <1>0 DEF Parts, Semantic, Waits
  <1>4. /\ place \in {"poll", "observe", "sleep"}
        /\ place = "poll" => Now.kind \in Waits
        /\ place = "sleep" => Now.kind = "sleep"
    BY <1>0
  <1>5. FocusOK'
    BY <1>0, <1>4 DEF FocusOK, GoTo
  <1> HIDE DEF place
  <1>6. place \in Places \ {"idle"}
    BY <1>4 DEF Places, Looking
  <1> QED BY <1>0, <1>1, <1>2, <1>3, <1>4, <1>5, <1>6, WentOn DEF Looking

\* The screenshot.
LEMMA CaptureStep == ASSUME HostInv, Capture PROVE HostInv'
  <1>0. /\ at = "observe" /\ at \in Looking /\ UNCHANGED took
        /\ UNCHANGED <<wayland, control, epoch, ids, snaps, shots, evicted, focus, switches, late>>
    BY DEF Capture, Looking
  <1>1. turn # NoCaller /\ host = "up"
    BY <1>0, InCall
  <1>2. PICK o \in Outcomes(Eye) :
            /\ Requested(Eye, o)
            /\ IF o.ok THEN GoTo("windows") /\ sight' = [NoSight EXCEPT !.shown = focus] /\ moved' = FALSE
               ELSE /\ \/ Now.kind \in ControlMethods /\ Finish
                       \/ Now.kind = "wait_text" /\ GoTo("poll")
                       \/ Now.kind \notin ControlMethods \cup {"wait_text"} /\ Answer(turn, FALSE)
                    /\ UNCHANGED <<sight, moved>>
    BY DEF Capture
  <1>3. /\ helper' = [helper EXCEPT ![Eye] = o.then] /\ UNCHANGED host
        /\ o.then \in Conditions /\ Eye \in Helpers
    BY <1>2, OutcomeFacts, HelperFacts DEF HostInv, Requested
  <1>4. SightOK' /\ moved' \in BOOLEAN
    <2>1. CASE o.ok
      <3>1. sight' = [shown |-> focus, window |-> NoWindow, blurred |-> TRUE] /\ moved' = FALSE
        BY <1>2, <2>1 DEF NoSight
      <3> QED BY <3>1 DEF SightOK, HostInv, DesktopTypes, Focused
    <2>2. CASE ~o.ok
      BY <1>2, <2>2 DEF HostInv, SightOK, DesktopTypes
    <2> QED BY <2>1, <2>2
  <1>5. Around'
    BY <1>0, <1>1, <1>3, <1>4, HelperAsked DEF HostInv, RuntimeTypes
  <1>6. CASE o.ok
    <2>1. GoTo("windows") /\ "windows" \in Places \ {"idle"} /\ "windows" \in Looking
      BY <1>2, <1>6 DEF Places, Looking
    <2>2. FocusOK'
      BY <1>0, <1>2, <1>6, <2>1 DEF FocusOK, GoTo, NoSight
    <2>3. at # "input" /\ host' = "up"
      BY <1>0, <1>1, <1>3
    <2> QED BY <1>0, <1>1, <1>5, <2>1, <2>2, <2>3, WentOn
  <1>7. CASE ~o.ok /\ Now.kind \in ControlMethods
    <2>1. Finish /\ host' = "up"
      <3>1. Now.kind # "wait_text"
        BY <1>7 DEF ControlMethods, Foreground, Semantic
      <3> QED BY <1>1, <1>2, <1>3, <1>7, <3>1
    <2> QED BY <1>0, <1>1, <1>5, <2>1, Finished
  <1>8. CASE ~o.ok /\ Now.kind \notin ControlMethods /\ Now.kind = "wait_text"
    <2>1. GoTo("poll") /\ "poll" \in Places \ {"idle"} /\ "poll" \notin Looking
      BY <1>2, <1>8 DEF Places, Looking
    <2>2. FocusOK' /\ Parts(Now.kind) = 0 /\ Now.kind \in Waits
      BY <1>8, <2>1 DEF FocusOK, GoTo, Parts, Semantic, Waits
    <2> QED BY <1>0, <1>1, <1>3, <1>5, <2>1, <2>2, WentOn
  <1>9. CASE ~o.ok /\ Now.kind \notin ControlMethods /\ Now.kind # "wait_text"
    BY <1>0, <1>1, <1>2, <1>5, <1>9, Failed
  <1> QED BY <1>6, <1>7, <1>8, <1>9

\* The windows are told, as they are now.
LEMMA AskWindowsStep == ASSUME HostInv, AskWindows PROVE HostInv'
  <1>0. /\ at = "windows" /\ at \in Looking /\ UNCHANGED took /\ GoTo("focused") /\ moved' = TRUE
        /\ "focused" \in Looking /\ "focused" \in Places \ {"idle"}
        /\ UNCHANGED <<wayland, control, epoch, ids, snaps, shots, evicted, focus, switches, late>>
    BY DEF AskWindows, Looking, Places
  <1>1. turn # NoCaller /\ host = "up"
    BY <1>0, InCall
  <1>2. PICK o \in Outcomes("driver") :
            /\ Requested("driver", o)
            /\ sight' = IF o.ok THEN [sight EXCEPT !.window = focus, !.blurred = moved] ELSE sight
    BY DEF AskWindows
  <1>3. /\ helper' = [helper EXCEPT !["driver"] = o.then] /\ UNCHANGED host
        /\ o.then \in Conditions /\ "driver" \in Helpers
    BY <1>2, OutcomeFacts, HelperFacts DEF HostInv, Requested, Programs
  <1>4. SightOK'
    <2>1. CASE o.ok
      <3>1. sight' = [sight EXCEPT !.window = focus, !.blurred = moved] /\ (~moved => sight.shown = focus)
        BY <1>0, <1>2, <2>1 DEF HostInv, FocusOK
      <3>2. /\ sight' = [shown |-> sight.shown, window |-> focus, blurred |-> moved]
            /\ sight.shown \in Focused /\ focus \in Focused /\ moved \in BOOLEAN
        BY <3>1 DEF HostInv, SightOK, DesktopTypes
      <3> QED BY <3>1, <3>2 DEF SightOK
    <2>2. CASE ~o.ok
      BY <1>2, <2>2 DEF HostInv, SightOK
    <2> QED BY <2>1, <2>2
  <1>5. Around'
    BY <1>0, <1>1, <1>3, <1>4, HelperAsked DEF HostInv, RuntimeTypes
  <1>6. FocusOK'
    BY <1>0 DEF FocusOK, GoTo
  <1> QED BY <1>0, <1>1, <1>3, <1>5, <1>6, WentOn

\* The focused element and the cursor.
LEMMA GlanceStep == ASSUME HostInv, Glance PROVE HostInv'
  <1> DEFINE place == IF at = "focused" THEN "cursor" ELSE "elements"
  <1>0. /\ at \in Looking /\ UNCHANGED took /\ GoTo(place) /\ FocusOK'
        /\ place \in {"cursor", "elements"} /\ place \in Looking /\ place \in Places \ {"idle"}
        /\ UNCHANGED <<wayland, control, epoch, ids, frameVars, desktopVars, late>>
    BY DEF Glance, Looking, Places, FocusOK, GoTo
  <1>1. turn # NoCaller /\ host = "up"
    BY <1>0, InCall DEF Looking
  <1>2. PICK o \in Outcomes("driver") : Requested("driver", o)
    BY DEF Glance
  <1>3. /\ helper' = [helper EXCEPT !["driver"] = o.then] /\ UNCHANGED host
        /\ o.then \in Conditions /\ "driver" \in Helpers
    BY <1>2, OutcomeFacts, HelperFacts DEF HostInv, Requested, Programs
  <1>4. Around'
    BY <1>0, <1>1, <1>3, HelperAsked DEF HostInv, frameVars, desktopVars, RuntimeTypes, SightOK, DesktopTypes
  <1>5. at # "input"
    BY <1>0 DEF Looking
  <1> HIDE DEF place
  <1> QED BY <1>0, <1>1, <1>3, <1>4, <1>5, WentOn

\* The elements.
LEMMA AskElementsStep == ASSUME HostInv, AskElements PROVE HostInv'
  <1>0. /\ at = "elements" /\ at \in Looking /\ UNCHANGED took /\ GoTo("remember") /\ FocusOK'
        /\ "remember" \in Looking /\ "remember" \in Places \ {"idle"}
        /\ UNCHANGED <<wayland, control, frameVars, desktopVars, late>>
    BY DEF AskElements, Looking, Places, FocusOK, GoTo
  <1>1. turn # NoCaller /\ host = "up"
    BY <1>0, InCall
  <1>2. PICK o \in Outcomes("driver") : Requested("driver", o) /\ Listed(o)
    BY DEF AskElements
  <1>3. /\ helper' = [helper EXCEPT !["driver"] = o.then] /\ UNCHANGED host
        /\ o.then \in Conditions /\ "driver" \in Helpers
    BY <1>2, OutcomeFacts, HelperFacts DEF HostInv, Requested, Programs
  <1>4. epoch' \in Nat /\ ids' \subseteq Elements
    BY <1>2, ListedTypes DEF HostInv
  <1>5. Around'
    BY <1>0, <1>1, <1>3, <1>4, HelperAsked DEF HostInv, frameVars, desktopVars, SightOK, DesktopTypes
  <1> QED BY <1>0, <1>1, <1>3, <1>5, WentOn

\* The frame is kept with what the driver told of the windows.
LEMMA RememberStep == ASSUME HostInv, Remember PROVE HostInv'
  <1> DEFINE new == [id |-> shots + 1, old |-> FALSE, window |-> sight.window, shown |-> sight.shown,
                     blurred |-> sight.blurred]
  <1>0. /\ at = "remember" /\ at \in Looking /\ UNCHANGED took /\ snaps' = Kept(new) /\ shots' = shots + 1 /\ sight' = NoSight
        /\ Finish \/ (Now.kind = "wait_text" /\ GoTo("poll"))
        /\ UNCHANGED <<wayland, control, runtimeVars, desktopVars, late>>
        /\ evicted' = IF Young \subseteq snaps' THEN evicted
                      ELSE CHOOSE e \in 1..shots : Young \ snaps' = {s \in Young : s.id = e}
    BY DEF Remember, Looking
  <1>1. turn # NoCaller /\ host' = "up"
    BY <1>0, InCall DEF runtimeVars
  <1>2. new \in Snapshot /\ new.id = shots + 1 /\ (~new.blurred => new.shown = new.window)
    BY DEF HostInv, FrameTypes, SightOK, Snapshot
  <1> HIDE DEF new
  <1>3. FrameTypes' /\ FramesOK' /\ NewestFramesKept'
    BY <1>0, <1>2, FramesKept DEF HostInv
  <1>4. SightOK'
    BY <1>0 DEF SightOK, NoSight, Focused
  <1>5. RuntimeTypes' /\ NoStrayHelper' /\ LateOK'
    BY <1>0, RuntimeStays, LateStays DEF HostInv, desktopVars
  <1>6. Around'
    BY <1>0, <1>3, <1>4, <1>5 DEF HostInv, Around, DesktopTypes, desktopVars
  <1>7. CASE Finish
    BY <1>0, <1>1, <1>6, <1>7, Finished
  <1>8. CASE Now.kind = "wait_text" /\ GoTo("poll")
    <2>1. "poll" \in Places \ {"idle"} /\ "poll" \notin Looking
      BY DEF Places, Looking
    <2>2. FocusOK' /\ Parts(Now.kind) = 0 /\ Now.kind \in Waits
      BY <1>8 DEF FocusOK, GoTo, Parts, Semantic, Waits
    <2> QED BY <1>0, <1>1, <1>6, <1>8, <2>1, <2>2, WentOn
  <1> QED BY <1>0, <1>7, <1>8

\* A poll looks, and goes on to a frame or to the next poll, or finishes.
LEMMA Polled ==
    ASSUME HostInv, at = "poll", UNCHANGED <<took, late>>, Around', host' = "up",
           Finish \/ \E place \in {"poll", "observe"} : GoTo(place)
    PROVE  HostInv'
  <1>1. turn # NoCaller /\ Now.kind \in Waits /\ at \notin Looking
    BY InCall DEF HostInv, PlaceOK, Looking
  <1>2. Parts(Now.kind) = 0
    BY <1>1 DEF Parts, Semantic, Waits
  <1>3. CASE Finish
    BY <1>1, <1>2, <1>3, Finished
  <1>4. CASE \E place \in {"poll", "observe"} : GoTo(place)
    <2>1. PICK place \in {"poll", "observe"} : GoTo(place)
      BY <1>4
    <2>2. FocusOK' /\ place \in Places \ {"idle"}
      BY <2>1 DEF FocusOK, GoTo, Places, Looking
    <2> QED BY <1>1, <1>2, <2>1, <2>2, WentOn
  <1> QED BY <1>3, <1>4

\* A poll of a wait.
LEMMA PollStep == ASSUME HostInv, Poll PROVE HostInv'
  <1>0. at = "poll" /\ UNCHANGED <<took, late>> /\ UNCHANGED <<wayland, control, frameVars, desktopVars>>
    BY DEF Poll, PollStable, PollText, PollDriver, handVars
  <1>1. turn # NoCaller /\ host = "up"
    BY <1>0, InCall
  <1>2. CASE PollStable
    <2>1. PICK o \in Outcomes(Eye) : Requested(Eye, o) /\ \E place \in {"poll", "observe"} : GoTo(place)
      BY <1>2 DEF PollStable
    <2>2. /\ helper' = [helper EXCEPT ![Eye] = o.then] /\ UNCHANGED host
          /\ o.then \in Conditions /\ Eye \in Helpers
      BY <2>1, OutcomeFacts, HelperFacts DEF HostInv, Requested
    <2>3. Around'
      BY <1>0, <1>1, <1>2, <2>2, HelperAsked DEF HostInv, PollStable, frameVars, desktopVars, RuntimeTypes, SightOK, DesktopTypes
    <2> QED BY <1>0, <1>1, <2>1, <2>2, <2>3, Polled
  <1>3. CASE PollText
    <2>1. Around' /\ GoTo("observe") /\ host' = "up"
      BY <1>0, <1>1, <1>3, NobodyAsked DEF HostInv, PollText, frameVars, runtimeVars, desktopVars, SightOK, DesktopTypes
    <2> QED BY <1>0, <2>1, Polled
  <1>4. CASE PollDriver
    <2>1. PICK o \in Outcomes("driver") :
              /\ Requested("driver", o) /\ (IF Now.kind = "wait_element" THEN Listed(o) ELSE UNCHANGED <<epoch, ids>>)
              /\ GoTo("poll") \/ (o.ok /\ Finish)
      BY <1>4 DEF PollDriver
    <2>2. /\ helper' = [helper EXCEPT !["driver"] = o.then] /\ UNCHANGED host
          /\ o.then \in Conditions /\ "driver" \in Helpers
      BY <2>1, OutcomeFacts, HelperFacts DEF HostInv, Requested, Programs
    <2>3. epoch' \in Nat /\ ids' \subseteq Elements
      BY <2>1, ListedTypes DEF HostInv, RuntimeTypes
    <2>4. Around'
      BY <1>0, <1>1, <2>2, <2>3, HelperAsked DEF HostInv, frameVars, desktopVars, SightOK, DesktopTypes
    <2> QED BY <1>0, <1>1, <2>1, <2>2, <2>4, Polled
  <1> QED BY <1>2, <1>3, <1>4 DEF Poll

\* The end of a wait.
LEMMA WaitExpiresStep == ASSUME HostInv, WaitExpires PROVE HostInv'
  <1>0. /\ at = "poll" /\ UNCHANGED took /\ Answer(turn, FALSE)
        /\ UNCHANGED <<wayland, control, runtimeVars, frameVars, desktopVars, late>>
    BY DEF WaitExpires
  <1>1. Around'
    BY <1>0, NobodyAsked DEF HostInv, frameVars, desktopVars, SightOK, DesktopTypes
  <1> QED BY <1>0, <1>1, InCall, Failed

\* The end of a sleep.
LEMMA WakeStep == ASSUME HostInv, Wake PROVE HostInv'
  <1>0. /\ at = "sleep" /\ UNCHANGED took /\ Finish
        /\ UNCHANGED <<wayland, control, runtimeVars, frameVars, desktopVars, late>>
    BY DEF Wake
  <1>1. turn # NoCaller /\ host' = "up" /\ Now.kind = "sleep"
    BY <1>0, InCall DEF HostInv, PlaceOK, runtimeVars
  <1>2. Around'
    BY <1>0, NobodyAsked DEF HostInv, frameVars, desktopVars, SightOK, DesktopTypes
  <1>3. Parts(Now.kind) = 0
    BY <1>1 DEF Parts, Semantic
  <1> QED BY <1>0, <1>1, <1>2, <1>3, Finished

\* What a helper has in hand, and does also without its host, is the next input of the call.
LEMMA InHandFits ==
    ASSUME HostInv, NEW l \in InHand
    PROVE  l \in Lates /\ LateFits(l)
  <1>1. l = [steps |-> calls[turn], took |-> took, aim |-> Aim, due |-> TRUE]
    BY DEF InHand
  <1>2. at = "input" \/ (at = "step" /\ Now.kind \in Semantic)
    BY DEF InHand, Supported
  <1>3. /\ turn # NoCaller /\ Aim \in Aims /\ Aim.step = step /\ Aim.nth = Reached /\ Aim.nth <= Parts(Now.kind)
        /\ ~Aim.moved => Aim.window = focus /\ (Aim.blurred \/ Aim.shown = focus)
    BY <1>2, AimFacts
  <1>4. calls[turn] \in Seq(Step) /\ step \in 1..Len(calls[turn]) /\ step \in Nat /\ Aim.nth \in Nat
    BY <1>3, NowFacts DEF HostInv, Aims
  <1>5. took \in Seq(Taken) /\ InOrder(took) /\ Told(took) = UpTo(calls[turn], step, Aim.nth) /\ TookOK
    BY <1>3 DEF HostInv, HandTypes, HandOK
  <1>6. Beginning(calls[turn], took)
    BY <1>4, <1>5, PrefixBegins
  <1>7. l.steps = calls[turn] /\ l.took = took /\ l.aim = Aim /\ l \in Lates
    BY <1>1, <1>3, <1>4, <1>5 DEF Lates
  <1>8. Parts(l.steps[l.aim.step].kind) = Parts(Now.kind)
    BY <1>3, <1>7 DEF Now
  <1> QED BY <1>3, <1>4, <1>5, <1>6, <1>7, <1>8 DEF LateFits, TookOK

\* The end of the host takes its frames, and leaves a helper what it has in hand.
LEMMA HostGoneAround ==
    ASSUME HostInv, NEW then \in {"none", "exited"}, HostGone(then), NEW hand \in SUBSET InHand, late' = late \cup hand
    PROVE  Around'
  <1>1. /\ host' = then /\ helper' = [h \in {"driver", "portal"} |-> "none"] /\ snaps' = {} /\ sight' = NoSight
        /\ UNCHANGED <<wayland, control, epoch, ids, shots, evicted, desktopVars>>
    BY DEF HostGone
  <1>2. RuntimeTypes' /\ NoStrayHelper'
    BY <1>1 DEF HostInv, RuntimeTypes, NoStrayHelper, Programs, Conditions
  <1>3. FrameTypes' /\ FramesOK' /\ NewestFramesKept'
    BY <1>1, FramesShrink DEF HostInv
  <1>4. SightOK'
    BY <1>1 DEF SightOK, NoSight, Focused
  <1>5. LateOK'
    <2>1. \A l \in late' : l \in Lates /\ LateFits(l)
      BY InHandFits DEF HostInv, LateOK
    <2>2. focus' = focus
      BY <1>1 DEF desktopVars
    <2> QED BY <2>1, <2>2 DEF LateOK, LateFits
  <1> QED BY <1>1, <1>2, <1>3, <1>4, <1>5 DEF HostInv, Around, DesktopTypes, desktopVars

\* In a call, the client answers for it.
LEMMA HostEndsStep == ASSUME HostInv, ClientTimeout \/ HostDies PROVE HostInv'
  <1>1. turn # NoCaller /\ UNCHANGED took /\ Answer(turn, FALSE) /\ HostGone("none")
    BY InCall DEF ClientTimeout, HostDies
  <1>2. \E hand \in SUBSET InHand : late' = late \cup hand
    <2>1. late' = late => late' = late \cup {} /\ {} \in SUBSET InHand
      OBVIOUS
    <2> QED BY <2>1 DEF ClientTimeout, HostDies
  <1> QED BY <1>1, <1>2, HostGoneAround, Failed

\* Between two calls,
LEMMA HostDiesIdleStep == ASSUME HostInv, HostDiesIdle PROVE HostInv'
  <1>1. turn = NoCaller /\ UNCHANGED <<took, clientVars, at, step, late>> /\ HostGone("exited")
    BY DEF HostDiesIdle
  <1>2. late' = late \cup {} /\ {} \in SUBSET InHand
    BY <1>1
  <1>3. Around' /\ FocusOK'
    BY <1>1, <1>2, HostGoneAround DEF HostInv, PlaceOK, FocusOK
  <1> QED BY <1>1, <1>3, Stayed DEF HostInv, ClientTypes, clientVars

\* the host may let all go,
LEMMA IdleReleaseStep == ASSUME HostInv, IdleRelease PROVE HostInv'
  <1>1. /\ turn = NoCaller /\ helper' = [h \in {"driver", "portal"} |-> "none"] /\ snaps' = {}
        /\ UNCHANGED <<wayland, control, clientVars, at, step, host, epoch, ids, shots, sight, evicted, handVars, desktopVars, late>>
    BY DEF IdleRelease
  <1>2. RuntimeTypes' /\ NoStrayHelper'
    BY <1>1 DEF HostInv, RuntimeTypes, NoStrayHelper, Programs, Conditions
  <1>3. FrameTypes' /\ FramesOK' /\ SightOK' /\ NewestFramesKept'
    BY <1>1, FramesShrink DEF HostInv, SightOK
  <1>4. LateOK' /\ FocusOK'
    BY <1>1, LateStays DEF HostInv, PlaceOK, FocusOK, desktopVars
  <1>5. Around'
    BY <1>1, <1>2, <1>3, <1>4 DEF HostInv, Around, DesktopTypes, desktopVars
  <1> QED BY <1>1, <1>4, <1>5, Stayed DEF HostInv, ClientTypes, clientVars, handVars

\* a helper without a host may do what it had in hand,
LEMMA LateInputStep == ASSUME HostInv, LateInput PROVE HostInv'
  <1>1. UNCHANGED <<wayland, control, clientVars, at, step, runtimeVars, frameVars, handVars, desktopVars>>
    BY DEF LateInput
  <1>2. PICK l \in late : l.due /\ late' = (late \ {l}) \cup {[l EXCEPT !.took = Append(@, Hit(l.aim)), !.due = FALSE]}
    BY DEF LateInput
  <1> DEFINE done == [l EXCEPT !.took = Append(@, Hit(l.aim)), !.due = FALSE]
  <1>3. l \in Lates /\ LateFits(l)
    BY DEF HostInv, LateOK
  <1>4. l.steps \in Seq(Step) /\ l.took \in Seq(Taken) /\ l.aim \in Aims /\ l.aim.nth \in 1..3 /\ l.aim.step \in Nat
    <2>1. l.steps \in Seq(Step) /\ l.took \in Seq(Taken) /\ l.aim \in Aims
      BY <1>3 DEF Lates
    <2> QED BY <2>1 DEF Aims
  <1>5. /\ InOrder(l.took) /\ Told(l.took) = UpTo(l.steps, l.aim.step, l.aim.nth) /\ l.aim.step \in 1..Len(l.steps)
        /\ l.aim.nth <= Parts(l.steps[l.aim.step].kind) /\ \A n \in DOMAIN l.took : AsAimed(l.took[n])
        /\ ~l.aim.moved => l.aim.window = focus /\ (l.aim.blurred \/ l.aim.shown = focus)
    BY <1>2, <1>3 DEF LateFits, Beginning
  <1>6. /\ Hit(l.aim) \in Taken /\ Hit(l.aim).step = l.aim.step /\ Hit(l.aim).nth = l.aim.nth /\ AsAimed(Hit(l.aim))
    BY <1>4, <1>5, HitFacts DEF HostInv
  <1>7. /\ Append(l.took, Hit(l.aim)) \in Seq(Taken) /\ InOrder(Append(l.took, Hit(l.aim)))
        /\ Told(Append(l.took, Hit(l.aim))) = UpTo(l.steps, l.aim.step, l.aim.nth + 1)
        /\ \A n \in DOMAIN Append(l.took, Hit(l.aim)) : AsAimed(Append(l.took, Hit(l.aim))[n])
    BY <1>4, <1>5, <1>6, OneMore
  <1>8. done \in Lates /\ LateFits(done)
    <2>1. Beginning(l.steps, Append(l.took, Hit(l.aim)))
      BY <1>4, <1>7, PrefixBegins
    <2>2. done.steps = l.steps /\ done.took = Append(l.took, Hit(l.aim)) /\ done.aim = l.aim /\ done.due = FALSE
      BY <1>3 DEF Lates
    <2>3. done \in Lates
      BY <1>3, <1>7 DEF Lates
    <2> HIDE DEF done
    <2> QED BY <1>5, <1>7, <2>1, <2>2, <2>3 DEF LateFits
  <1>9. LateOK'
    <2> HIDE DEF done
    <2>1. late' = (late \ {l}) \cup {done}
      BY <1>2 DEF done
    <2> QED BY <1>1, <1>8, <2>1 DEF HostInv, LateOK, LateFits, desktopVars
  <1>10. Around'
    <2>1. RuntimeTypes' /\ NoStrayHelper'
      BY <1>1, RuntimeStays DEF HostInv
    <2>2. FrameTypes' /\ FramesOK' /\ SightOK' /\ NewestFramesKept'
      BY <1>1, FramesShrink DEF HostInv, SightOK, frameVars
    <2> QED BY <1>1, <1>9, <2>1, <2>2 DEF HostInv, Around, DesktopTypes, desktopVars
  <1>11. FocusOK' /\ (turn # NoCaller => host' = "up")
    BY <1>1, FrameStays DEF HostInv, PlaceOK, FocusOK, desktopVars, frameVars, clientVars, runtimeVars
  <1> QED BY <1>1, <1>10, <1>11, Stayed DEF HostInv, ClientTypes, clientVars, handVars

\* or a helper may die,
LEMMA HelperDiesStep == ASSUME HostInv, NEW h \in Helpers, HelperDies(h) PROVE HostInv'
  <1>1. /\ helper[h] = "up" /\ helper' = [helper EXCEPT ![h] = "dead"]
        /\ UNCHANGED <<wayland, control, clientVars, at, step, host, epoch, ids, frameVars, handVars, desktopVars, late>>
    BY DEF HelperDies
  <1>2. host = "up" /\ "dead" \in Conditions
    BY <1>1, HelperFacts DEF HostInv, NoStrayHelper, Programs, Conditions
  <1>3. Around'
    BY <1>1, <1>2, HelperAsked DEF HostInv, frameVars, desktopVars, RuntimeTypes, SightOK, DesktopTypes
  <1>4. FocusOK' /\ (turn # NoCaller => host' = "up")
    BY <1>1, FrameStays DEF HostInv, PlaceOK, FocusOK, desktopVars, frameVars, clientVars
  <1> QED BY <1>1, <1>3, <1>4, Stayed DEF HostInv, ClientTypes, clientVars, handVars

\* or a frame may grow old, also before a step looks for it.
LEMMA GrowOldStep == ASSUME HostInv, GrowOld PROVE HostInv'
  <1>1. /\ at \in {"idle", "step"}
        /\ UNCHANGED <<wayland, control, clientVars, at, step, runtimeVars, shots, sight, evicted, handVars, desktopVars, late>>
    BY DEF GrowOld
  <1>2. PICK s \in Young : snaps' = (snaps \ {s}) \cup {[s EXCEPT !.old = TRUE]}
    BY DEF GrowOld
  <1>3. RuntimeTypes' /\ NoStrayHelper' /\ SightOK' /\ LateOK'
    BY <1>1, RuntimeStays, LateStays DEF HostInv, SightOK, desktopVars
  <1>4. FrameTypes' /\ FramesOK' /\ NewestFramesKept'
    BY <1>1, <1>2, FramesGrowOld DEF HostInv, Young
  <1>5. Around' /\ FocusOK'
    BY <1>1, <1>3, <1>4 DEF HostInv, FocusOK, Around, DesktopTypes, desktopVars
  <1>6. turn # NoCaller => host' = "up"
    BY <1>1 DEF HostInv, PlaceOK, runtimeVars
  <1> QED BY <1>1, <1>5, <1>6, Stayed DEF HostInv, ClientTypes, clientVars, handVars

\* The focus may move at any time.
LEMMA SwitchFocusStep == ASSUME HostInv, SwitchFocus PROVE HostInv'
  <1>1. /\ focus' \in (Windows \cup {NoWindow}) \ {focus} /\ moved' = TRUE
        /\ late' = {[l EXCEPT !.aim.moved = TRUE] : l \in late}
        /\ UNCHANGED <<wayland, control, clientVars, at, step, runtimeVars, frameVars, handVars>>
    BY DEF SwitchFocus
  <1>2. LateOK'
    <2>1. ASSUME NEW l \in late PROVE [l EXCEPT !.aim.moved = TRUE] \in Lates /\ LateFits([l EXCEPT !.aim.moved = TRUE])'
      <3> DEFINE now == [l EXCEPT !.aim.moved = TRUE]
      <3>1. l \in Lates /\ LateFits(l)
        BY DEF HostInv, LateOK
      <3>2. /\ now.steps = l.steps /\ now.took = l.took /\ now.due = l.due /\ now.aim.moved = TRUE
            /\ now.aim.step = l.aim.step /\ now.aim.nth = l.aim.nth /\ now \in Lates
        BY <3>1 DEF Lates, Aims
      <3> HIDE DEF now
      <3>3. LateFits(now)'
        BY <3>1, <3>2 DEF LateFits
      <3> QED BY <3>2, <3>3 DEF now
    <2> QED BY <1>1, <2>1 DEF LateOK
  <1>3. Around'
    <2>1. RuntimeTypes' /\ NoStrayHelper'
      BY <1>1, RuntimeStays DEF HostInv
    <2>2. FrameTypes' /\ FramesOK' /\ SightOK' /\ NewestFramesKept'
      BY <1>1, FramesShrink DEF HostInv, SightOK, frameVars
    <2> QED BY <1>1, <1>2, <2>1, <2>2 DEF Around, DesktopTypes, Focused
  <1>4. FocusOK' /\ (turn # NoCaller => host' = "up")
    BY <1>1, FrameStays DEF HostInv, PlaceOK, FocusOK, frameVars, clientVars, runtimeVars
  <1> QED BY <1>1, <1>3, <1>4, Stayed DEF HostInv, ClientTypes, clientVars, handVars

-----------------------------------------------------------------------------
(* The theorems.                                                            *)

\* A host that was never asked has nothing in hand.
LEMMA HostInvInit == HostInit => HostInv
  <1> SUFFICES ASSUME HostInit PROVE HostInv
    OBVIOUS
  <1> USE DEF HostInit
  <1>0. <<>> \in Seq(Step) /\ <<>> \in Seq(Taken) /\ MaxSteps \in Nat /\ MaxSnapshots \in Nat
    BY ComputerHostAssumption
  <1>1. ClientTypes
    <2>1. answer \in [ok : BOOLEAN, steps : Seq(Step), took : Seq(Taken)]
      BY <1>0 DEF NoAnswer
    <2> QED BY <1>0, <2>1 DEF ClientTypes, Places, Looking
  <1>2. RuntimeTypes /\ FrameTypes /\ HandTypes /\ DesktopTypes
    BY <1>0 DEF RuntimeTypes, FrameTypes, HandTypes, DesktopTypes, Programs, Conditions, Focused
  <1>3. PlaceOK /\ HandOK /\ FocusOK /\ LateOK
    BY DEF PlaceOK, HandOK, FocusOK, LateOK
  <1>4. FramesOK /\ SightOK
    BY FS_EmptySet DEF FramesOK, SightOK, NoSight, Focused
  <1>5. AnswerOK
    <2>1. answer.ok = TRUE /\ answer.steps = <<>> /\ answer.took = <<>>
      BY DEF NoAnswer
    <2>2. Inputs(<<>>) = {}
      BY DEF Inputs
    <2>3. Told(<<>>) = {} /\ InOrder(<<>>)
      BY <1>0, NothingYet
    <2> QED BY <2>1, <2>2, <2>3 DEF AnswerOK, Beginning
  <1>6. TookOK /\ NoStrayHelper
    BY DEF TookOK, NoStrayHelper, Programs
  <1>7. NewestFramesKept
    BY <1>0, FS_EmptySet DEF NewestFramesKept
  <1> QED BY <1>1, <1>2, <1>3, <1>4, <1>5, <1>6, <1>7 DEF HostInv

\* Every step keeps the invariant.
LEMMA HostInvNext == HostInv /\ [HostNext]_hostVars => HostInv'
  <1> SUFFICES ASSUME HostInv, [HostNext]_hostVars PROVE HostInv'
    OBVIOUS
  <1>1. CASE \E t \in Callers : Call(t)
    BY <1>1, CallStep
  <1>2. CASE \E t \in Callers : Take(t) \/ StartFails(t)
    BY <1>2, TakeStep, StartFailsStep
  <1>3. CASE Unsupported \/ LookUp \/ Check \/ Input
    BY <1>3, UnsupportedStep, LookUpStep, CheckStep, InputStep
  <1>4. CASE Act \/ List \/ Enter \/ Capture
    BY <1>4, ActStep, ListStep, EnterStep, CaptureStep
  <1>5. CASE AskWindows \/ Glance \/ AskElements \/ Remember
    BY <1>5, AskWindowsStep, GlanceStep, AskElementsStep, RememberStep
  <1>6. CASE Poll \/ WaitExpires \/ Wake
    BY <1>6, PollStep, WaitExpiresStep, WakeStep
  <1>7. CASE ClientTimeout \/ HostDies \/ HostDiesIdle \/ LateInput \/ IdleRelease \/ SwitchFocus \/ GrowOld
    BY <1>7, HostEndsStep, HostDiesIdleStep, LateInputStep, IdleReleaseStep, SwitchFocusStep, GrowOldStep
  <1>8. CASE \E h \in Helpers : HelperDies(h)
    BY <1>8, HelperDiesStep
  <1>9. CASE UNCHANGED hostVars
    <2>1. UNCHANGED <<wayland, control, clientVars, at, step, runtimeVars, frameVars, handVars, desktopVars, late>>
      BY <1>9 DEF hostVars
    <2>2. Around'
      BY <2>1, NobodyAsked DEF HostInv, frameVars, desktopVars, SightOK, DesktopTypes
    <2>3. FocusOK'
      BY <2>1, FrameStays DEF HostInv, FocusOK, desktopVars, frameVars
    <2>4. turn # NoCaller => host' = "up" /\ calls'[turn] = calls[turn]
      BY <2>1 DEF HostInv, PlaceOK, clientVars, runtimeVars
    <2> QED BY <2>1, <2>2, <2>3, <2>4, Stayed DEF HostInv, ClientTypes, clientVars, handVars
  <1> QED BY <1>1, <1>2, <1>3, <1>4, <1>5, <1>6, <1>7, <1>8, <1>9 DEF HostNext, Serve

\* The invariant holds: whatever helpers refuse, end or die at, whenever the host ends or the focus
\* moves, what the desktop took is all that comes before the place that the host has reached.
THEOREM HostInvHolds == HostSpec => []HostInv
  BY HostInvInit, HostInvNext, PTL DEF HostSpec

\* The desktop takes a beginning of what a call asks for, each input once and in its order, and all
\* of it when the answer says so, also when the host died and a helper did the input in hand after
\* the answer; an input that meets another window than its frame names had its focus moved after
\* the check of its own step, and one that meets another than its frame shows, then or while the
\* frame was made; and a young frame goes only for MaxSnapshots newer ones.
THEOREM HostIsSafe == HostSpec => []HostSafe
  <1>1. HostInv => HostSafe
    <2> SUFFICES ASSUME HostInv PROVE HostSafe
      OBVIOUS
    <2>1. DeliveredAsTold
      BY DEF HostInv, AnswerOK, LateOK, LateFits, DeliveredAsTold
    <2>2. AstrayOnlyAfterSwitch
      BY DEF HostInv, TookOK, LateOK, LateFits, AstrayOnlyAfterSwitch
    <2> QED BY <2>1, <2>2 DEF HostInv, HostSafe
  <1> QED BY <1>1, HostInvHolds, PTL

\* The types of the state.
THEOREM HostTypesHold == HostSpec => []HostTypeOK
  <1>1. HostInv => HostTypeOK
    <2> SUFFICES ASSUME HostInv PROVE HostTypeOK
      OBVIOUS
    <2> USE DEF HostInv
    <2>1. {wayland, control, moved} \subseteq BOOLEAN /\ host \in {"none", "up", "exited"}
      BY DEF RuntimeTypes, DesktopTypes
    <2>2. turn \in Callers \cup {NoCaller} /\ (turn = NoCaller <=> at = "idle") /\ at \in Places /\ step \in 0..MaxSteps
      BY DEF ClientTypes, PlaceOK
    <2>3. helper \in [Programs -> Conditions] /\ (~wayland => helper["portal"] = "none")
      BY DEF RuntimeTypes, NoStrayHelper, Helpers, Programs
    <2>4. focus \in Focused /\ evicted \in 0..shots
      BY DEF DesktopTypes, FrameTypes
    <2>5. \A s \in snaps : s.id \in 1..shots /\ s.window \in Focused
      BY DEF FrameTypes, FramesOK, Snapshot
    <2> QED BY <2>1, <2>2, <2>3, <2>4, <2>5 DEF HostTypeOK, Places, Looking, Programs, Conditions, Focused
  <1> QED BY <1>1, HostInvHolds, PTL

=============================================================================
