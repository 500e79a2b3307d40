------------------------------ MODULE X11Input ------------------------------
(***************************************************************************)
(* Input of computer_driver.py on X11: one helper process that reads       *)
(* requests from its standard input and injects key and button events into *)
(* the X server.  What it has pressed and not released it remembers; when  *)
(* its input ends, or a signal comes, it must leave nothing pressed and    *)
(* the keyboard mapping as it was.                                         *)
(*                                                                         *)
(* The X server may refuse an event, a signal may come between any two     *)
(* steps (SystemExit unwinds the handlers), and the user may switch the    *)
(* layout.  Points, delays and the X connection itself are left out.       *)
(***************************************************************************)
EXTENDS Naturals, Sequences, FiniteSets, SequencesExt

CONSTANTS
    Chars,          \* what key and type may ask for: characters and named keys
    Keys,           \* keycodes
    Mods,           \* those of the modifiers, which key, key_down and key_up may name as well
    Shift,          \* the one of them that a character may need
    Buttons,
    Scratch,        \* a keycode without a keysym
    NoKey,
    Groups, Layout, \* Layout[g][c]: the keycode of c in group g, and whether with Shift
    Texts,          \* bound: what `type` is asked to type
    Asks,           \* bound: requests
    Upsets          \* bound: refused events, signals and layout switches

\* What the constants must be: the layout reaches only keys, and the scratch keycode is none of them.
ASSUME X11InputAssumption ==
    /\ Shift \in Mods
    /\ Layout \in [Groups -> [Chars -> [code : Keys \union {NoKey}, shift : BOOLEAN]]]
    /\ Mods \subseteq Keys /\ Scratch \notin Keys \union Buttons
    /\ NoKey \notin Keys \union Buttons \union {Scratch} \union Chars
    /\ Texts \subseteq Seq(Chars)
    /\ {Asks, Upsets} \subseteq Nat

Inputs == Keys \union Buttons \union {Scratch}

VARIABLES
    down,       \* what the X server takes for pressed by us
    held,       \* held_keys, held_buttons
    owed,       \* key_mods, button_mods: the modifiers pressed with a key or button
    mapped,     \* the character on the scratch keycode, in the X server
    scratch,    \* scratch_code and scratch_keysym
    group,      \* the layout group
    request, pc, seen,
    todo,       \* modifiers that hold has yet to press
    acquired,   \* modifiers that the request has pressed
    queue,      \* keys of the current stroke that are to be pressed
    inner,      \* keys of the current stroke that are pressed
    fail,       \* the exception that unwinds the request
    asked,      \* history: the key a pending key_down or mouse_down has pressed
    refused,    \* history: inputs whose release was refused, or given up after such a refusal
    torn,       \* history: a signal came between an X call and its record
    asks, refusals, signals, switches
server == <<down, mapped>>
tables == <<held, owed, scratch>>
call == <<request, seen, todo, acquired, queue, inner, fail>>
past == <<asked, refused, torn>>
counts == <<asks, refusals, signals, switches>>
inputVars == <<server, tables, group, pc, call, past, counts>>

None == [kind |-> "none", items |-> <<>>, mods |-> {}]

InputInit ==
    /\ down = {} /\ mapped = NoKey
    /\ held = {} /\ owed = [i \in Inputs |-> {}] /\ scratch = NoKey
    /\ group \in Groups /\ seen = group
    /\ request = None /\ pc = "idle"
    /\ todo = {} /\ acquired = {} /\ queue = <<>> /\ inner = <<>> /\ fail = "no"
    /\ asked = [i \in Chars \union Buttons |-> NoKey]
    /\ refused = {} /\ torn = FALSE
    /\ asks = 0 /\ refusals = 0 /\ signals = 0 /\ switches = 0

-----------------------------------------------------------------------------
(* The X calls: key and button.  An event is taken and recorded, refused,   *)
(* or taken when a signal comes before it is recorded.                      *)

\* Mutant of Lift: the released key stays in the record.
LiftUnrecorded(i) == down' = down \ {i} /\ held' = held \union {i}

Press(i) == down' = down \union {i} /\ held' = held \union {i}
Lift(i)  == down' = down \ {i} /\ held' = held \ {i}

Calm == refusals + signals + switches < Upsets
Refuse == Calm /\ refusals' = refusals + 1 /\ UNCHANGED <<asks, signals, switches>>
Signal == Calm /\ signals' = signals + 1 /\ UNCHANGED <<asks, refusals, switches>>

\* The press fails: refused, or torn from its record.
PressFails(i) ==
    \/ Refuse /\ fail' = "blocked" /\ UNCHANGED <<down, torn>>
    \/ Signal /\ fail' = "exit" /\ torn' = TRUE /\ down' = down \union {i}
LiftRefused(i) == Refuse /\ refused' = refused \union {i}

-----------------------------------------------------------------------------
(* A request: handle, parse_input, input.                                   *)

Downs == {"key_down", "mouse_down"}
Ups == {"key_up", "mouse_up"}

\* parse_input: a key for the key actions, a button for the mouse actions, a text.
Requests ==
    [kind : {"key_down", "key_up", "key"}, items : {<<c>> : c \in Chars}, mods : SUBSET Mods]
        \union [kind : {"mouse_down", "mouse_up", "click", "scroll"}, items : {<<b>> : b \in Buttons},
                mods : SUBSET Mods]
        \union [kind : {"type", "post"}, items : Texts, mods : {{}}]

\* resolve_key, find_in_group: the key of a character in a layout group, or that of a name; the key
\* of a modifier is the one that modifier_code gives.
Resolve(c, g) == IF c \in Buttons THEN [code |-> c, shift |-> FALSE] ELSE Layout[g][c]

Main == Resolve(request.items[1], seen).code

Ask(r) ==
    /\ pc = "idle" /\ asks < Asks /\ asks' = asks + 1
    /\ request' = r /\ seen' = group /\ fail' = "no"
    /\ LET key == Resolve(r.items[1], group) IN
       IF r.kind \in Downs \union Ups
       THEN /\ pc' = IF key.code = NoKey THEN "idle" ELSE IF r.kind \in Downs THEN "hold" ELSE "main"
            /\ todo' = IF key.code = NoKey \/ r.kind \in Ups THEN {}
                       ELSE r.mods \union (IF key.shift THEN {Shift} ELSE {})
       ELSE pc' = "hold" /\ todo' = r.mods
    /\ acquired' = {} /\ queue' = <<>> /\ inner' = <<>>
    /\ UNCHANGED <<server, tables, group, past, refusals, signals, switches>>

\* Mutant of Hold: what was pressed before the failure is not let go.
HoldLeaving(m) ==
    /\ pc = "hold" /\ m \in todo
    /\ \/ m \in held /\ todo' = todo \ {m} /\ UNCHANGED <<server, held, pc, acquired, fail, torn, counts>>
       \/ /\ m \notin held /\ Press(m)
          /\ todo' = todo \ {m} /\ acquired' = acquired \union {m}
          /\ UNCHANGED <<mapped, pc, fail, torn, counts>>
       \/ m \notin held /\ PressFails(m) /\ pc' = "letgo" /\ acquired' = {}
          /\ UNCHANGED <<mapped, held, todo>>
    /\ UNCHANGED <<owed, scratch, group, request, seen, queue, inner, asked, refused>>

\* hold: the modifiers that are not held yet.
Hold(m) ==
    /\ pc = "hold" /\ m \in todo
    /\ \/ m \in held /\ todo' = todo \ {m} /\ UNCHANGED <<server, held, pc, acquired, fail, torn, counts>>
       \/ /\ m \notin held /\ Press(m)
          /\ todo' = todo \ {m} /\ acquired' = acquired \union {m}
          /\ UNCHANGED <<mapped, pc, fail, torn, counts>>
       \/ m \notin held /\ PressFails(m) /\ pc' = "letgo"
          /\ UNCHANGED <<mapped, held, todo, acquired>>
    /\ UNCHANGED <<owed, scratch, group, request, seen, queue, inner, asked, refused>>

Holding ==
    /\ pc = "hold" /\ todo = {} /\ pc' = "main"
    /\ UNCHANGED <<server, tables, group, call, past, counts>>

\* Mutant of Down: the modifiers pressed with a key are not remembered.
DownForgetting ==
    /\ pc = "main" /\ request.kind \in Downs
    /\ \/ /\ Press(Main) /\ pc' = "idle"
          /\ asked' = [asked EXCEPT ![request.items[1]] = Main]
          /\ UNCHANGED <<owed, fail, torn, counts>>
       \/ PressFails(Main) /\ pc' = "letgo" /\ UNCHANGED <<held, owed, asked>>
    /\ UNCHANGED <<mapped, scratch, group, request, seen, todo, acquired, queue, inner, refused>>

\* key_down, mouse_down.
Down ==
    /\ pc = "main" /\ request.kind \in Downs
    /\ \/ /\ Press(Main) /\ pc' = "idle"
          /\ owed' = [owed EXCEPT ![Main] = @ \union acquired]
          /\ asked' = [asked EXCEPT ![request.items[1]] = Main]
          /\ UNCHANGED <<fail, torn, counts>>
       \/ PressFails(Main) /\ pc' = "letgo" /\ UNCHANGED <<held, owed, asked>>
    /\ UNCHANGED <<mapped, scratch, group, request, seen, todo, acquired, queue, inner, refused>>

\* key_up, mouse_up: whatever happens, the modifiers that belong to it are let go.
Up ==
    /\ pc = "main" /\ request.kind \in Ups /\ pc' = "letgo"
    /\ \/ /\ Lift(Main)
          /\ asked' = [asked EXCEPT ![request.items[1]] = NoKey]
          /\ UNCHANGED <<fail, refused, counts>>
       \/ LiftRefused(Main) /\ fail' = "blocked" /\ UNCHANGED <<down, held, asked>>
       \/ Signal /\ fail' = "exit" /\ UNCHANGED <<down, held, asked, refused>>
    /\ acquired' = owed[Main] \union request.mods
    /\ owed' = [owed EXCEPT ![Main] = {}]
    /\ UNCHANGED <<mapped, scratch, group, request, seen, todo, queue, inner, torn>>

-----------------------------------------------------------------------------
(* Strokes: perform, type_text, tap; background_input sends its events to a *)
(* window and presses nothing.                                              *)

Strokes == {"click", "scroll", "key", "type", "post"}

\* Mutant of Stroke: a character outside the layout is not put on the scratch keycode.
StrokeUnmapped ==
    /\ pc = "main" /\ request.kind \in Strokes /\ request.items # <<>> /\ inner = <<>> /\ queue = <<>>
    /\ LET key == Resolve(Head(request.items), seen) IN
       /\ pc' = "press"
       /\ queue' = IF request.kind = "post" THEN <<>>
                   ELSE (IF key.shift /\ Shift \notin held THEN <<Shift, key.code>> ELSE <<key.code>>)
       /\ request' = [request EXCEPT !.items = Tail(@)]
    /\ UNCHANGED <<server, tables, group, seen, todo, acquired, inner, fail, past, counts>>

Stroke ==
    /\ pc = "main" /\ request.kind \in Strokes /\ request.items # <<>> /\ inner = <<>> /\ queue = <<>>
    /\ LET key == Resolve(Head(request.items), seen)
           keys == IF key.shift /\ Shift \notin held THEN <<Shift, key.code>> ELSE <<key.code>>
       IN IF key.code = NoKey
          THEN pc' = "map" /\ UNCHANGED <<queue, request>>
          ELSE /\ pc' = "press"
               /\ queue' = IF request.kind = "post" THEN <<>> ELSE keys
               /\ request' = [request EXCEPT !.items = Tail(@)]
    /\ UNCHANGED <<server, tables, group, seen, todo, acquired, inner, fail, past, counts>>

\* map_scratch: a character that is not in the layout goes on the scratch keycode.
MapScratch ==
    /\ pc = "map" /\ pc' = "press"
    /\ scratch' = Head(request.items) /\ mapped' = scratch'
    /\ queue' = IF request.kind = "post" THEN <<>> ELSE <<Scratch>>
    /\ request' = [request EXCEPT !.items = Tail(@)]
    /\ UNCHANGED <<down, held, owed, group, seen, todo, acquired, inner, fail, past, counts>>

PressNext ==
    /\ pc = "press" /\ queue # <<>>
    /\ \/ Press(Head(queue)) /\ queue' = Tail(queue) /\ inner' = Append(inner, Head(queue))
          /\ UNCHANGED <<pc, fail, torn, counts>>
       \/ PressFails(Head(queue)) /\ pc' = "lift" /\ queue' = <<>> /\ UNCHANGED <<held, inner>>
    /\ UNCHANGED <<mapped, owed, scratch, group, request, seen, todo, acquired, asked, refused>>

Pressed ==
    /\ pc = "press" /\ queue = <<>> /\ pc' = "lift"
    /\ UNCHANGED <<server, tables, group, call, past, counts>>

\* Mutant of LiftNext: the loop goes on to the next character at once.
LiftLater ==
    /\ pc = "lift" /\ inner # <<>>
    /\ pc' = IF fail = "no" THEN "main" ELSE "lift"
    /\ inner' = <<>>
    /\ UNCHANGED <<server, tables, group, request, seen, todo, acquired, queue, fail, past, counts>>

\* The finally of tap: in reverse order, and no further once one is refused.
LiftNext ==
    /\ pc = "lift" /\ inner # <<>>
    /\ \/ Lift(Last(inner)) /\ inner' = Front(inner) /\ UNCHANGED <<fail, refused, counts>>
       \/ /\ Refuse /\ refused' = refused \union ToSet(inner) /\ fail' = (IF fail = "exit" THEN "exit" ELSE "blocked")
          /\ inner' = <<>> /\ UNCHANGED <<down, held>>
    /\ UNCHANGED <<mapped, owed, scratch, group, pc, request, seen, todo, acquired, queue, asked, torn>>

Lifted ==
    /\ pc = "lift" /\ inner = <<>>
    /\ pc' = IF fail = "no" THEN "main" ELSE "restore"
    /\ UNCHANGED <<server, tables, group, call, past, counts>>

Stroked ==
    /\ pc = "main" /\ request.kind \in Strokes /\ request.items = <<>> /\ pc' = "restore"
    /\ UNCHANGED <<server, tables, group, call, past, counts>>

\* Mutant of Restore: only a request that succeeded undoes its mapping.
RestoreAfterSuccess ==
    /\ pc = "restore"
    /\ pc' = IF scratch = NoKey \/ fail # "no" THEN "letgo" ELSE "unmap"
    /\ scratch' = IF fail # "no" THEN scratch ELSE NoKey
    /\ UNCHANGED <<server, held, owed, group, call, past, counts>>

\* restore_scratch forgets the keycode, then clears its mapping.
Restore ==
    /\ pc = "restore"
    /\ pc' = IF scratch = NoKey THEN "letgo" ELSE "unmap"
    /\ scratch' = NoKey
    /\ UNCHANGED <<server, held, owed, group, call, past, counts>>

Unmap ==
    /\ pc \in {"unmap", "last unmap"}
    /\ pc' = IF pc = "unmap" THEN "letgo" ELSE "ended"
    /\ mapped' = NoKey
    /\ UNCHANGED <<down, tables, group, call, past, counts>>

\* let_go swallows a refusal: the modifier stays held.
LetGo(m) ==
    /\ pc = "letgo" /\ m \in acquired /\ acquired' = acquired \ {m}
    /\ \/ m \notin held /\ UNCHANGED <<down, held, refused, counts>>
       \/ m \in held /\ Lift(m) /\ UNCHANGED <<refused, counts>>
       \/ m \in held /\ LiftRefused(m) /\ UNCHANGED <<down, held>>
    /\ UNCHANGED <<mapped, owed, scratch, group, pc, request, seen, todo, queue, inner, fail, asked, torn>>

\* Mutant of Reply: SystemExit is caught with the errors of the request.
ReplyToSignal ==
    /\ pc = "letgo" /\ acquired = {} /\ pc' = "idle"
    /\ UNCHANGED <<server, tables, group, call, past, counts>>

\* handle: an error is the request's answer; SystemExit ends the loop of main.
Reply ==
    /\ pc = "letgo" /\ acquired = {}
    /\ pc' = IF fail = "exit" THEN "close" ELSE "idle"
    /\ UNCHANGED <<server, tables, group, call, past, counts>>

-----------------------------------------------------------------------------
(* Signals, the end of the input, release_all.                              *)

\* SystemExit at any other point: the handlers of the request run.
Interrupt ==
    /\ Signal
    /\ \/ /\ pc = "idle" /\ pc' = "close" /\ UNCHANGED <<acquired, queue, torn>>
       \/ /\ pc \in {"hold", "restore"} \/ (pc = "main" /\ request.kind \in Downs)
          /\ pc' = "letgo" /\ UNCHANGED <<acquired, queue, torn>>
       \/ /\ pc \in {"map", "press", "lift"} \/ (pc = "main" /\ request.kind \in Strokes)
          /\ pc' = "lift" /\ queue' = <<>> /\ UNCHANGED <<acquired, torn>>
       \/ pc = "unmap" /\ pc' = "letgo" /\ torn' = TRUE /\ UNCHANGED <<acquired, queue>>
       \/ pc = "letgo" /\ pc' = "close" /\ acquired' = {} /\ UNCHANGED <<queue, torn>>
       \/ pc \in {"close", "last unmap"} /\ pc' = "ended" /\ torn' = TRUE /\ UNCHANGED <<acquired, queue>>
    /\ fail' = "exit"
    /\ inner' = IF request.kind = "scroll" \/ pc = "lift" THEN <<>> ELSE inner
    /\ UNCHANGED <<server, tables, group, request, seen, todo, asked, refused>>

EndOfInput ==
    /\ pc = "idle" /\ pc' = "close"
    /\ UNCHANGED <<server, tables, group, call, past, counts>>

\* Mutant of ReleaseOne: only what a request still waits to be released.
ReleaseAsked(i) ==
    /\ pc = "close" /\ i \in held
    /\ \/ i \in {asked[c] : c \in DOMAIN asked} /\ Lift(i)
       \/ i \notin {asked[c] : c \in DOMAIN asked} /\ held' = held \ {i} /\ UNCHANGED down
    /\ UNCHANGED <<mapped, owed, scratch, group, pc, call, past, counts>>

\* release_all: buttons before keys; what the server refuses is given up.
ReleaseOne(i) ==
    /\ pc = "close" /\ i \in held
    /\ i \in Buttons \/ held \intersect Buttons = {}
    /\ \/ Lift(i) /\ UNCHANGED <<refused, counts>>
       \/ LiftRefused(i) /\ held' = held \ {i} /\ UNCHANGED down
    /\ UNCHANGED <<mapped, owed, scratch, group, pc, call, asked, torn>>

Released ==
    /\ pc = "close" /\ held = {}
    /\ owed' = [i \in Inputs |-> {}]
    /\ scratch' = NoKey
    /\ pc' = IF scratch = NoKey THEN "ended" ELSE "last unmap"
    /\ UNCHANGED <<server, held, group, call, past, counts>>

SwitchLayout ==
    /\ Calm /\ switches' = switches + 1
    /\ group' \in Groups \ {group}
    /\ UNCHANGED <<server, tables, pc, call, past, asks, refusals, signals>>

-----------------------------------------------------------------------------
InputServe ==
    \/ Holding \/ Down \/ Up \/ Reply
    \/ Stroke \/ MapScratch \/ PressNext \/ Pressed \/ LiftNext \/ Lifted \/ Stroked \/ Restore \/ Unmap
    \/ Released
    \/ \E m \in Mods : Hold(m) \/ LetGo(m)
    \/ \E i \in Inputs : ReleaseOne(i)

InputNext ==
    \/ \E r \in Requests : Ask(r)
    \/ InputServe \/ Interrupt \/ EndOfInput \/ SwitchLayout

InputSpec == InputInit /\ [][InputNext]_inputVars
InputFairSpec == InputSpec /\ WF_inputVars(InputServe)

-----------------------------------------------------------------------------
InputTypeOK ==
    /\ down \subseteq Inputs /\ held \subseteq Inputs
    /\ owed \in [Inputs -> SUBSET Mods]
    /\ mapped \in Chars \union {NoKey} /\ scratch \in Chars \union {NoKey}
    /\ group \in Groups /\ seen \in Groups
    /\ pc \in {"idle", "hold", "main", "map", "press", "lift", "restore", "unmap", "letgo", "close", "last unmap", "ended"}
    /\ todo \subseteq Mods /\ acquired \subseteq Mods
    /\ ToSet(queue) \union ToSet(inner) \subseteq Inputs
    /\ fail \in {"no", "blocked", "exit"}
    /\ asked \in [Chars \union Buttons -> Inputs \union {NoKey}]
    /\ refused \subseteq Inputs /\ torn \in BOOLEAN
    /\ asks \in 0..Asks /\ refusals + signals + switches \in 0..Upsets

Owed == UNION {owed[i] : i \in Inputs}
Accounted == {asked[c] : c \in DOMAIN asked} \union Owed

\* Between two requests, a key, button or modifier is held only for a key_down or
\* mouse_down whose pair has not come, however the requests before it ended,
\* unless the X server refused its release or the user has switched the layout; a modifier may be the
\* key of one request, and of another the one that it borrows.
HeldIsAskedFor ==
    pc = "idle" /\ switches = 0 => held \subseteq Accounted \union refused

\* What the server takes for pressed is what the driver remembers, at every step
\* but for a signal that tears the two apart.
HeldIsDown == ~torn /\ pc # "ended" => down \ refused \subseteq held /\ held \subseteq down

\* Between two requests the keyboard mapping is the user's own.
MappingIsRestored == pc = "idle" => mapped = NoKey /\ scratch = NoKey

\* A key does not change its meaning while it is down, unless a signal or a refusal
\* has cut its stroke short.
RemapsReleasedKeys ==
    [][mapped' # mapped /\ signals' = 0 /\ refused' = {} => Scratch \notin down']_inputVars

\* When the helper ends, nothing is pressed and the mapping is the user's own,
\* unless a signal came inside the bookkeeping or the server refused a release.
EndReleasesAll ==
    pc = "ended" /\ ~torn => down \subseteq refused /\ mapped = NoKey

\* Whatever is refused, interrupted or unpaired: between two requests nothing is down that was
\* not asked for, what is down is remembered, the mapping is the user's, and the end releases all.
InputSafe == InputTypeOK /\ HeldIsAskedFor /\ HeldIsDown /\ MappingIsRestored /\ EndReleasesAll

\* release_all "releases everything we hold (EOF, SIGTERM, fatal errors) and undoes
\* the scratch mapping": the same for any single signal.
SignalReleasesAll ==
    pc = "ended" /\ signals <= 1 => down \subseteq refused /\ mapped = NoKey

\* A helper that was told to end, does.
EndsAfterSignal == (signals > 0) ~> (pc = "ended")

=============================================================================
