---------------------------- MODULE DesktopProofs ----------------------------
(***************************************************************************)
(* Theorems about the two helpers that hold keys and buttons down for a    *)
(* client, the X11 driver (X11Input) and the Wayland portal (Portal), and  *)
(* about what the X11 driver answers of windows (X11Windows) and of the    *)
(* accessibility tree (Elements).                                          *)
(***************************************************************************)
EXTENDS X11Input, X11Windows, Elements, Portal, FiniteSetTheorems, SequenceTheorems, WellFoundedInduction, TLAPS

-----------------------------------------------------------------------------
(* X11Input: the inductive invariant.                                       *)

Kinds == Downs \union Ups \union Strokes

\* The types: sets and places, counts, sequences.
SetTypes ==
    /\ down \subseteq Inputs /\ held \subseteq Inputs /\ refused \subseteq Inputs
    /\ owed \in [Inputs -> SUBSET Mods] /\ todo \subseteq Mods /\ acquired \subseteq Mods
    /\ mapped \in Chars \union {NoKey} /\ scratch \in Chars \union {NoKey}
    /\ group \in Groups /\ seen \in Groups
    /\ pc \in {"idle", "hold", "main", "map", "press", "lift", "restore", "unmap", "letgo", "close", "last unmap", "ended"}
    /\ fail \in {"no", "blocked", "exit"} /\ torn \in BOOLEAN
    /\ asked \in [Chars \union Buttons -> Inputs \union {NoKey}]

CountTypes ==
    /\ asks \in 0..Asks
    /\ refusals \in Nat /\ signals \in Nat /\ switches \in Nat /\ refusals + signals + switches <= Upsets

SeqTypes ==
    /\ queue \in Seq(Inputs) /\ inner \in Seq(Inputs)
    /\ request \in [kind : Kinds \union {"none"}, items : Seq(Chars \union Buttons), mods : SUBSET Mods]

\* What is left of the request: a key_down or key_up has a keycode, and only a character is put
\* on the scratch keycode.
ItemsOK ==
    /\ pc \in {"hold", "main"} /\ request.kind \in Downs \union Ups =>
           request.items # <<>> /\ Main \in Keys \union Buttons
    /\ pc = "map" => request.items # <<>> /\ Head(request.items) \in Chars

DriverTypes == SetTypes /\ CountTypes /\ SeqTypes /\ ItemsOK

\* The places of the driver: a request that goes on has not failed, and a signal is not forgotten.
PlacesOK ==
    /\ pc \in {"hold", "main", "map", "press"} => fail = "no"
    /\ pc = "idle" => fail # "exit"
    /\ torn => fail = "exit" /\ signals > 0
    /\ pc \in {"map", "press", "lift", "restore", "unmap"} => request.kind \in Strokes
    /\ pc \notin {"press", "lift"} /\ fail # "exit" => inner = <<>>
    /\ pc = "hold" => request.kind \notin Ups
    /\ pc = "main" /\ request.kind \in Ups => acquired = {}

\* Where the scratch keycode may be in use; a mapping that nobody remembers is about to go.
MappingOK ==
    /\ \/ pc \in {"idle", "hold", "unmap", "last unmap"}
       \/ pc = "main" /\ request.kind \notin Strokes
       \/ pc = "letgo" /\ fail # "exit"
       \/ pc = "ended" /\ ~torn
       => scratch = NoKey
    /\ mapped # NoKey => scratch # NoKey \/ pc \in {"unmap", "last unmap"} \/ torn

\* The X server and the record of the driver.
RecordOK ==
    /\ ~torn => down \ refused \subseteq held /\ held \subseteq down
    /\ pc \in {"last unmap", "ended"} /\ ~torn => held = {}

\* What the request in hand has pressed itself.
InHand == IF pc = "idle" THEN {} ELSE acquired \union ToSet(inner)

\* As long as the layout stays, the keycode of a pending key_down is that of its key_up.
LayoutOK ==
    switches = 0 =>
        seen = group /\ \A c \in Chars \union Buttons : asked[c] \in {NoKey, Resolve(c, group).code}

\* And whatever is held is accounted for, or in the hands of the request.
AccountOK ==
    switches = 0 /\ fail # "exit" /\ pc \notin {"close", "last unmap", "ended"} =>
        held \subseteq Accounted \union refused \union InHand

\* The scratch keycode is down only within its stroke.
ScratchOK ==
    signals = 0 /\ refused = {} /\ Scratch \in held => pc \in {"press", "lift"} /\ Scratch \in ToSet(inner)

DriverInv == DriverTypes /\ PlacesOK /\ MappingOK /\ RecordOK /\ LayoutOK /\ AccountOK /\ ScratchOK

-----------------------------------------------------------------------------
(* Facts about sequences and about a signal.                                *)

\* The empty sequence has no elements.
LEMMA ToSetEmpty == ToSet(<<>>) = {}
BY DEF ToSet

\* Appending adds one element.
LEMMA ToSetAppend ==
  ASSUME NEW S, NEW s \in Seq(S), NEW x \in S
  PROVE  Append(s, x) \in Seq(S) /\ ToSet(Append(s, x)) = ToSet(s) \union {x}
<1>1. \A i \in 1..Len(s) : Append(s, x)[i] = s[i]
  OBVIOUS
<1>2. Len(Append(s, x)) = Len(s) + 1 /\ Append(s, x)[Len(s) + 1] = x /\ Len(s) \in Nat
  OBVIOUS
<1>3. DOMAIN s = 1..Len(s) /\ DOMAIN Append(s, x) = 1..(Len(s) + 1)
  OBVIOUS
<1>4. QED  BY <1>1, <1>2, <1>3 DEF ToSet

\* A sequence has the elements of its front, and its last.
LEMMA ToSetFront ==
  ASSUME NEW S, NEW s \in Seq(S), s # <<>>
  PROVE  /\ Front(s) \in Seq(S) /\ Last(s) \in S
         /\ ToSet(s) = ToSet(Front(s)) \union {Last(s)}
<1>1. Len(s) \in Nat \ {0} /\ DOMAIN s = 1..Len(s)
  OBVIOUS
<1>2. Front(s) \in Seq(S) /\ Len(Front(s)) = Len(s) - 1 /\ \A i \in 1..(Len(s) - 1) : Front(s)[i] = s[i]
  BY <1>1 DEF Front
<1>3. DOMAIN Front(s) = 1..(Len(s) - 1)
  BY <1>2
<1>4. Last(s) = s[Len(s)] /\ Last(s) \in S
  BY <1>1 DEF Last
<1>5. QED  BY <1>1, <1>2, <1>3, <1>4 DEF ToSet

\* A character of the layout has a key, a button is its own code.
LEMMA ResolveType ==
  ASSUME NEW c \in Chars \union Buttons, NEW g \in Groups
  PROVE  Resolve(c, g).code \in Keys \union Buttons \union {NoKey}
<1>1. CASE c \in Buttons
  BY <1>1 DEF Resolve
<1>2. CASE c \notin Buttons
  <2>1. Layout[g] \in [Chars -> [code : Keys \union {NoKey}, shift : BOOLEAN]]
    BY X11InputAssumption
  <2>2. Layout[g][c] \in [code : Keys \union {NoKey}, shift : BOOLEAN]
    BY <1>2, <2>1
  <2>3. QED  BY <1>2, <2>2 DEF Resolve
<1>3. QED  BY <1>1, <1>2

\* A signal: where the driver goes, and what it leaves alone.
LEMMA InterruptGoes ==
  ASSUME Interrupt, PlacesOK, CountTypes
  PROVE  /\ fail' = "exit" /\ signals' = signals + 1 /\ refusals' = refusals /\ switches' = switches /\ asks' = asks
         /\ refusals' + signals' + switches' <= Upsets
         /\ pc' \in {"close", "letgo", "lift", "ended"}
         /\ pc' = "lift" => request.kind \in Strokes
         /\ torn' \in {torn, TRUE}
         /\ pc \in {"unmap", "close", "last unmap"} => torn'
         /\ pc' = "ended" => torn'
         /\ UNCHANGED <<down, mapped, held, owed, scratch, group, request, seen, todo, asked, refused>>
         /\ acquired' \in {acquired, {}} /\ queue' \in {queue, <<>>} /\ inner' \in {inner, <<>>}
<1>1. /\ Signal /\ fail' = "exit" /\ inner' \in {inner, <<>>}
      /\ UNCHANGED <<down, mapped, held, owed, scratch, group, request, seen, todo, asked, refused>>
  BY DEF Interrupt, server, tables
<1>2. /\ signals' = signals + 1 /\ refusals' = refusals /\ switches' = switches /\ asks' = asks
      /\ refusals' + signals' + switches' <= Upsets
  BY <1>1, X11InputAssumption DEF Signal, Calm, CountTypes
<1>3. /\ pc' \in {"close", "letgo", "lift", "ended"}
      /\ torn' \in {torn, TRUE}
      /\ pc' = "ended" => torn'
      /\ acquired' \in {acquired, {}} /\ queue' \in {queue, <<>>}
      /\ pc \in {"unmap", "close", "last unmap"} => torn'
  BY DEF Interrupt
<1>4. pc' = "lift" => request.kind \in Strokes
  BY DEF Interrupt, PlacesOK
<1>5. QED  BY <1>1, <1>2, <1>3, <1>4

-----------------------------------------------------------------------------
(* Each step keeps the invariant.                                           *)

\* Each step keeps the places.
LEMMA PlacesStep ==
  ASSUME SetTypes, CountTypes, SeqTypes, PlacesOK, [InputNext]_inputVars
  PROVE  PlacesOK'
<1>1. ASSUME NEW r \in Requests, Ask(r) PROVE  PlacesOK'
  BY <1>1, X11InputAssumption DEF Ask, Requests, PlacesOK, SetTypes, CountTypes, SeqTypes, Downs, Ups, Strokes,
     Kinds, server, tables, call, past, counts
<1>2. ASSUME NEW m \in Mods, Hold(m) PROVE  PlacesOK'
  BY <1>2, X11InputAssumption DEF Hold, Press, PressFails, Refuse, Signal, Calm, PlacesOK, SetTypes,
     CountTypes, SeqTypes, Downs, Ups, Strokes, Kinds, server, tables, call, past, counts
<1>3. ASSUME NEW m \in Mods, LetGo(m) PROVE  PlacesOK'
  BY <1>3, X11InputAssumption DEF LetGo, Lift, LiftRefused, Refuse, Calm, PlacesOK, SetTypes, CountTypes,
     SeqTypes, Downs, Ups, Strokes, Kinds, server, tables, call, past, counts
<1>4. ASSUME NEW i \in Inputs, ReleaseOne(i) PROVE  PlacesOK'
  BY <1>4, X11InputAssumption DEF ReleaseOne, Lift, LiftRefused, Refuse, Calm, PlacesOK, SetTypes, CountTypes,
     SeqTypes, Downs, Ups, Strokes, Kinds, server, tables, call, past, counts
<1>5. ASSUME Holding PROVE  PlacesOK'
  BY <1>5, X11InputAssumption DEF Holding, PlacesOK, SetTypes, CountTypes, SeqTypes, Downs, Ups, Strokes,
     Kinds, server, tables, call, past, counts
<1>6. ASSUME Down PROVE  PlacesOK'
  BY <1>6, X11InputAssumption DEF Down, Press, PressFails, Refuse, Signal, Calm, PlacesOK, SetTypes,
     CountTypes, SeqTypes, Downs, Ups, Strokes, Kinds, server, tables, call, past, counts
<1>7. ASSUME Up PROVE  PlacesOK'
  BY <1>7, X11InputAssumption DEF Up, Lift, LiftRefused, Refuse, Signal, Calm, PlacesOK, SetTypes, CountTypes,
     SeqTypes, Downs, Ups, Strokes, Kinds, server, tables, call, past, counts
<1>8. ASSUME Reply PROVE  PlacesOK'
  BY <1>8, X11InputAssumption DEF Reply, PlacesOK, SetTypes, CountTypes, SeqTypes, Downs, Ups, Strokes, Kinds,
     server, tables, call, past, counts
<1>9. ASSUME Stroke PROVE  PlacesOK'
  BY <1>9, X11InputAssumption DEF Stroke, PlacesOK, SetTypes, CountTypes, SeqTypes, Downs, Ups, Strokes, Kinds,
     server, tables, call, past, counts
<1>10. ASSUME MapScratch PROVE  PlacesOK'
  BY <1>10, X11InputAssumption DEF MapScratch, PlacesOK, SetTypes, CountTypes, SeqTypes, Downs, Ups, Strokes,
     Kinds, server, tables, call, past, counts
<1>11. ASSUME PressNext PROVE  PlacesOK'
  BY <1>11, X11InputAssumption DEF PressNext, Press, PressFails, Refuse, Signal, Calm, PlacesOK, SetTypes,
     CountTypes, SeqTypes, Downs, Ups, Strokes, Kinds, server, tables, call, past, counts
<1>12. ASSUME Pressed PROVE  PlacesOK'
  BY <1>12, X11InputAssumption DEF Pressed, PlacesOK, SetTypes, CountTypes, SeqTypes, Downs, Ups, Strokes,
     Kinds, server, tables, call, past, counts
<1>13. ASSUME LiftNext PROVE  PlacesOK'
  BY <1>13, X11InputAssumption DEF LiftNext, Lift, Refuse, Calm, PlacesOK, SetTypes, CountTypes, SeqTypes,
     Downs, Ups, Strokes, Kinds, server, tables, call, past, counts
<1>14. ASSUME Lifted PROVE  PlacesOK'
  BY <1>14, X11InputAssumption DEF Lifted, PlacesOK, SetTypes, CountTypes, SeqTypes, Downs, Ups, Strokes,
     Kinds, server, tables, call, past, counts
<1>15. ASSUME Stroked PROVE  PlacesOK'
  BY <1>15, X11InputAssumption DEF Stroked, PlacesOK, SetTypes, CountTypes, SeqTypes, Downs, Ups, Strokes,
     Kinds, server, tables, call, past, counts
<1>16. ASSUME Restore PROVE  PlacesOK'
  BY <1>16, X11InputAssumption DEF Restore, PlacesOK, SetTypes, CountTypes, SeqTypes, Downs, Ups, Strokes,
     Kinds, server, tables, call, past, counts
<1>17. ASSUME Unmap PROVE  PlacesOK'
  BY <1>17, X11InputAssumption DEF Unmap, PlacesOK, SetTypes, CountTypes, SeqTypes, Downs, Ups, Strokes, Kinds,
     server, tables, call, past, counts
<1>18. ASSUME Released PROVE  PlacesOK'
  BY <1>18, X11InputAssumption DEF Released, PlacesOK, SetTypes, CountTypes, SeqTypes, Downs, Ups, Strokes,
     Kinds, server, tables, call, past, counts
<1>19. ASSUME Interrupt PROVE  PlacesOK'
  <2>1. fail' = "exit" /\ pc' \in {"close", "letgo", "lift", "ended"} /\ signals' = signals + 1 /\ request' = request
    BY <1>19, InterruptGoes
  <2>2. pc' = "lift" => request.kind \in Strokes
    BY <1>19, InterruptGoes
  <2>3. QED  BY <2>1, <2>2 DEF PlacesOK, CountTypes
<1>20. ASSUME EndOfInput PROVE  PlacesOK'
  BY <1>20, X11InputAssumption DEF EndOfInput, PlacesOK, SetTypes, CountTypes, SeqTypes, Downs, Ups, Strokes,
     Kinds, server, tables, call, past, counts
<1>21. ASSUME SwitchLayout PROVE  PlacesOK'
  BY <1>21, X11InputAssumption DEF SwitchLayout, Calm, PlacesOK, SetTypes, CountTypes, SeqTypes, Downs, Ups,
     Strokes, Kinds, server, tables, call, past, counts
<1>22. CASE UNCHANGED inputVars
  BY <1>22 DEF inputVars, PlacesOK, SetTypes, CountTypes, SeqTypes, Downs, Ups, Strokes, Kinds, server, tables,
     call, past, counts
<1>23. QED  BY <1>1, <1>2, <1>3, <1>4, <1>5, <1>6, <1>7, <1>8, <1>9, <1>10, <1>11, <1>12, <1>13, <1>14, <1>15,
               <1>16, <1>17, <1>18, <1>19, <1>20, <1>21, <1>22 DEF InputNext, InputServe

\* As long as the layout stays, a key keeps its keycode.
LEMMA LayoutStep ==
  ASSUME DriverTypes, PlacesOK, LayoutOK, [InputNext]_inputVars
  PROVE  LayoutOK'
<1>1. ASSUME NEW r \in Requests, Ask(r) PROVE  LayoutOK'
  BY <1>1, X11InputAssumption DEF Ask, Requests, SetTypes, SeqTypes, CountTypes, ItemsOK, LayoutOK,
     DriverTypes, server, tables, call, past, counts
<1>2. ASSUME NEW m \in Mods, Hold(m) PROVE  LayoutOK'
  BY <1>2, X11InputAssumption DEF Hold, Press, PressFails, Refuse, Signal, Calm, SetTypes, SeqTypes,
     CountTypes, ItemsOK, LayoutOK, DriverTypes, server, tables, call, past, counts
<1>3. ASSUME NEW m \in Mods, LetGo(m) PROVE  LayoutOK'
  BY <1>3, X11InputAssumption DEF LetGo, Lift, LiftRefused, Refuse, Calm, SetTypes, SeqTypes, CountTypes,
     ItemsOK, LayoutOK, DriverTypes, server, tables, call, past, counts
<1>4. ASSUME NEW i \in Inputs, ReleaseOne(i) PROVE  LayoutOK'
  BY <1>4, X11InputAssumption DEF ReleaseOne, Lift, LiftRefused, Refuse, Calm, SetTypes, SeqTypes, CountTypes,
     ItemsOK, LayoutOK, DriverTypes, server, tables, call, past, counts
<1>5. ASSUME Holding PROVE  LayoutOK'
  BY <1>5, X11InputAssumption DEF Holding, SetTypes, SeqTypes, CountTypes, ItemsOK, LayoutOK, DriverTypes,
     server, tables, call, past, counts
<1>6. ASSUME Down PROVE  LayoutOK'
  <2>1. seen' = seen /\ group' = group
    BY <1>6 DEF Down
  <2>2. switches' \in Nat /\ (switches' = 0 => switches = 0)
    BY <1>6 DEF Down, PressFails, Refuse, Signal, counts, DriverTypes, CountTypes
  <2>3. request.items[1] \in Chars \union Buttons
    BY <1>6 DEF Down, DriverTypes, ItemsOK, SeqTypes
  <2>4. asked' \in {asked, [asked EXCEPT ![request.items[1]] = Main]}
    BY <1>6 DEF Down
  <2>5. QED  BY <2>1, <2>2, <2>3, <2>4 DEF LayoutOK, Main, DriverTypes, SetTypes
<1>7. ASSUME Up PROVE  LayoutOK'
  BY <1>7, X11InputAssumption DEF Up, Lift, LiftRefused, Refuse, Signal, Calm, SetTypes, SeqTypes, CountTypes,
     ItemsOK, LayoutOK, DriverTypes, server, tables, call, past, counts
<1>8. ASSUME Reply PROVE  LayoutOK'
  BY <1>8, X11InputAssumption DEF Reply, SetTypes, SeqTypes, CountTypes, ItemsOK, LayoutOK, DriverTypes,
     server, tables, call, past, counts
<1>9. ASSUME Stroke PROVE  LayoutOK'
  BY <1>9, X11InputAssumption DEF Stroke, SetTypes, SeqTypes, CountTypes, ItemsOK, LayoutOK, DriverTypes,
     server, tables, call, past, counts
<1>10. ASSUME MapScratch PROVE  LayoutOK'
  BY <1>10, X11InputAssumption DEF MapScratch, SetTypes, SeqTypes, CountTypes, ItemsOK, LayoutOK, DriverTypes,
     server, tables, call, past, counts
<1>11. ASSUME PressNext PROVE  LayoutOK'
  BY <1>11, X11InputAssumption DEF PressNext, Press, PressFails, Refuse, Signal, Calm, SetTypes, SeqTypes,
     CountTypes, ItemsOK, LayoutOK, DriverTypes, server, tables, call, past, counts
<1>12. ASSUME Pressed PROVE  LayoutOK'
  BY <1>12, X11InputAssumption DEF Pressed, SetTypes, SeqTypes, CountTypes, ItemsOK, LayoutOK, DriverTypes,
     server, tables, call, past, counts
<1>13. ASSUME LiftNext PROVE  LayoutOK'
  BY <1>13, X11InputAssumption DEF LiftNext, Lift, Refuse, Calm, SetTypes, SeqTypes, CountTypes, ItemsOK,
     LayoutOK, DriverTypes, server, tables, call, past, counts
<1>14. ASSUME Lifted PROVE  LayoutOK'
  BY <1>14, X11InputAssumption DEF Lifted, SetTypes, SeqTypes, CountTypes, ItemsOK, LayoutOK, DriverTypes,
     server, tables, call, past, counts
<1>15. ASSUME Stroked PROVE  LayoutOK'
  BY <1>15, X11InputAssumption DEF Stroked, SetTypes, SeqTypes, CountTypes, ItemsOK, LayoutOK, DriverTypes,
     server, tables, call, past, counts
<1>16. ASSUME Restore PROVE  LayoutOK'
  BY <1>16, X11InputAssumption DEF Restore, SetTypes, SeqTypes, CountTypes, ItemsOK, LayoutOK, DriverTypes,
     server, tables, call, past, counts
<1>17. ASSUME Unmap PROVE  LayoutOK'
  BY <1>17, X11InputAssumption DEF Unmap, SetTypes, SeqTypes, CountTypes, ItemsOK, LayoutOK, DriverTypes,
     server, tables, call, past, counts
<1>18. ASSUME Released PROVE  LayoutOK'
  BY <1>18, X11InputAssumption DEF Released, SetTypes, SeqTypes, CountTypes, ItemsOK, LayoutOK, DriverTypes,
     server, tables, call, past, counts
<1>19. ASSUME Interrupt PROVE  LayoutOK'
  <2>1. UNCHANGED <<seen, group, asked, switches>>
    BY <1>19, InterruptGoes DEF DriverTypes
  <2>2. QED  BY <2>1 DEF LayoutOK
<1>20. ASSUME EndOfInput PROVE  LayoutOK'
  BY <1>20, X11InputAssumption DEF EndOfInput, SetTypes, SeqTypes, CountTypes, ItemsOK, LayoutOK, DriverTypes,
     server, tables, call, past, counts
<1>21. ASSUME SwitchLayout PROVE  LayoutOK'
  <2>1. switches' # 0
    BY <1>21 DEF SwitchLayout, DriverTypes, CountTypes
  <2>2. QED  BY <2>1 DEF LayoutOK
<1>22. CASE UNCHANGED inputVars
  BY <1>22 DEF inputVars, SetTypes, SeqTypes, CountTypes, ItemsOK, LayoutOK, DriverTypes, server, tables, call,
     past, counts
<1>23. QED  BY <1>1, <1>2, <1>3, <1>4, <1>5, <1>6, <1>7, <1>8, <1>9, <1>10, <1>11, <1>12, <1>13, <1>14, <1>15,
               <1>16, <1>17, <1>18, <1>19, <1>20, <1>21, <1>22 DEF InputNext, InputServe

\* Each step keeps the scratch keycode in its place.
LEMMA MappingStep ==
  ASSUME DriverTypes, PlacesOK, MappingOK, [InputNext]_inputVars
  PROVE  MappingOK'
<1>1. ASSUME NEW r \in Requests, Ask(r) PROVE  MappingOK'
  BY <1>1, X11InputAssumption DEF Ask, Requests, SetTypes, PlacesOK, MappingOK, ItemsOK, Downs, Ups, Strokes,
     Kinds, DriverTypes, server, tables, call, past, counts
<1>2. ASSUME NEW m \in Mods, Hold(m) PROVE  MappingOK'
  BY <1>2, X11InputAssumption DEF Hold, Press, PressFails, Refuse, Signal, Calm, SetTypes, PlacesOK, MappingOK,
     ItemsOK, Downs, Ups, Strokes, Kinds, DriverTypes, server, tables, call, past, counts
<1>3. ASSUME NEW m \in Mods, LetGo(m) PROVE  MappingOK'
  BY <1>3, X11InputAssumption DEF LetGo, Lift, LiftRefused, Refuse, Calm, SetTypes, PlacesOK, MappingOK,
     ItemsOK, Downs, Ups, Strokes, Kinds, DriverTypes, server, tables, call, past, counts
<1>4. ASSUME NEW i \in Inputs, ReleaseOne(i) PROVE  MappingOK'
  BY <1>4, X11InputAssumption DEF ReleaseOne, Lift, LiftRefused, Refuse, Calm, SetTypes, PlacesOK, MappingOK,
     ItemsOK, Downs, Ups, Strokes, Kinds, DriverTypes, server, tables, call, past, counts
<1>5. ASSUME Holding PROVE  MappingOK'
  BY <1>5, X11InputAssumption DEF Holding, SetTypes, PlacesOK, MappingOK, ItemsOK, Downs, Ups, Strokes, Kinds,
     DriverTypes, server, tables, call, past, counts
<1>6. ASSUME Down PROVE  MappingOK'
  BY <1>6, X11InputAssumption DEF Down, Press, PressFails, Refuse, Signal, Calm, SetTypes, PlacesOK, MappingOK,
     ItemsOK, Downs, Ups, Strokes, Kinds, DriverTypes, server, tables, call, past, counts
<1>7. ASSUME Up PROVE  MappingOK'
  BY <1>7, X11InputAssumption DEF Up, Lift, LiftRefused, Refuse, Signal, Calm, SetTypes, PlacesOK, MappingOK,
     ItemsOK, Downs, Ups, Strokes, Kinds, DriverTypes, server, tables, call, past, counts
<1>8. ASSUME Reply PROVE  MappingOK'
  BY <1>8, X11InputAssumption DEF Reply, SetTypes, PlacesOK, MappingOK, ItemsOK, Downs, Ups, Strokes, Kinds,
     DriverTypes, server, tables, call, past, counts
<1>9. ASSUME Stroke PROVE  MappingOK'
  BY <1>9, X11InputAssumption DEF Stroke, SetTypes, PlacesOK, MappingOK, ItemsOK, Downs, Ups, Strokes, Kinds,
     DriverTypes, server, tables, call, past, counts
<1>10. ASSUME MapScratch PROVE  MappingOK'
  BY <1>10, X11InputAssumption DEF MapScratch, SetTypes, PlacesOK, MappingOK, ItemsOK, Downs, Ups, Strokes,
     Kinds, DriverTypes, server, tables, call, past, counts
<1>11. ASSUME PressNext PROVE  MappingOK'
  BY <1>11, X11InputAssumption DEF PressNext, Press, PressFails, Refuse, Signal, Calm, SetTypes, PlacesOK,
     MappingOK, ItemsOK, Downs, Ups, Strokes, Kinds, DriverTypes, server, tables, call, past, counts
<1>12. ASSUME Pressed PROVE  MappingOK'
  BY <1>12, X11InputAssumption DEF Pressed, SetTypes, PlacesOK, MappingOK, ItemsOK, Downs, Ups, Strokes, Kinds,
     DriverTypes, server, tables, call, past, counts
<1>13. ASSUME LiftNext PROVE  MappingOK'
  BY <1>13, X11InputAssumption DEF LiftNext, Lift, Refuse, Calm, SetTypes, PlacesOK, MappingOK, ItemsOK, Downs,
     Ups, Strokes, Kinds, DriverTypes, server, tables, call, past, counts
<1>14. ASSUME Lifted PROVE  MappingOK'
  BY <1>14, X11InputAssumption DEF Lifted, SetTypes, PlacesOK, MappingOK, ItemsOK, Downs, Ups, Strokes, Kinds,
     DriverTypes, server, tables, call, past, counts
<1>15. ASSUME Stroked PROVE  MappingOK'
  BY <1>15, X11InputAssumption DEF Stroked, SetTypes, PlacesOK, MappingOK, ItemsOK, Downs, Ups, Strokes, Kinds,
     DriverTypes, server, tables, call, past, counts
<1>16. ASSUME Restore PROVE  MappingOK'
  BY <1>16, X11InputAssumption DEF Restore, SetTypes, PlacesOK, MappingOK, ItemsOK, Downs, Ups, Strokes, Kinds,
     DriverTypes, server, tables, call, past, counts
<1>17. ASSUME Unmap PROVE  MappingOK'
  BY <1>17, X11InputAssumption DEF Unmap, SetTypes, PlacesOK, MappingOK, ItemsOK, Downs, Ups, Strokes, Kinds,
     DriverTypes, server, tables, call, past, counts
<1>18. ASSUME Released PROVE  MappingOK'
  BY <1>18, X11InputAssumption DEF Released, SetTypes, PlacesOK, MappingOK, ItemsOK, Downs, Ups, Strokes,
     Kinds, DriverTypes, server, tables, call, past, counts
<1>19. ASSUME Interrupt PROVE  MappingOK'
  BY <1>19, InterruptGoes DEF MappingOK, PlacesOK, DriverTypes, SetTypes
<1>20. ASSUME EndOfInput PROVE  MappingOK'
  BY <1>20, X11InputAssumption DEF EndOfInput, SetTypes, PlacesOK, MappingOK, ItemsOK, Downs, Ups, Strokes,
     Kinds, DriverTypes, server, tables, call, past, counts
<1>21. ASSUME SwitchLayout PROVE  MappingOK'
  BY <1>21, X11InputAssumption DEF SwitchLayout, Calm, SetTypes, PlacesOK, MappingOK, ItemsOK, Downs, Ups,
     Strokes, Kinds, DriverTypes, server, tables, call, past, counts
<1>22. CASE UNCHANGED inputVars
  BY <1>22 DEF inputVars, SetTypes, PlacesOK, MappingOK, ItemsOK, Downs, Ups, Strokes, Kinds, DriverTypes,
     server, tables, call, past, counts
<1>23. QED  BY <1>1, <1>2, <1>3, <1>4, <1>5, <1>6, <1>7, <1>8, <1>9, <1>10, <1>11, <1>12, <1>13, <1>14, <1>15,
               <1>16, <1>17, <1>18, <1>19, <1>20, <1>21, <1>22 DEF InputNext, InputServe

\* Each step keeps the record.
LEMMA RecordStep ==
  ASSUME SetTypes, CountTypes, PlacesOK, RecordOK, [InputNext]_inputVars
  PROVE  RecordOK'
<1>1. ASSUME NEW r \in Requests, Ask(r) PROVE  RecordOK'
  BY <1>1, X11InputAssumption DEF Ask, Requests, SetTypes, PlacesOK, RecordOK, server, tables, call, past,
     counts
<1>2. ASSUME NEW m \in Mods, Hold(m) PROVE  RecordOK'
  BY <1>2, X11InputAssumption DEF Hold, Press, PressFails, Refuse, Signal, Calm, SetTypes, PlacesOK, RecordOK,
     server, tables, call, past, counts
<1>3. ASSUME NEW m \in Mods, LetGo(m) PROVE  RecordOK'
  BY <1>3, X11InputAssumption DEF LetGo, Lift, LiftRefused, Refuse, Calm, SetTypes, PlacesOK, RecordOK, server,
     tables, call, past, counts
<1>4. ASSUME NEW i \in Inputs, ReleaseOne(i) PROVE  RecordOK'
  BY <1>4, X11InputAssumption DEF ReleaseOne, Lift, LiftRefused, Refuse, Calm, SetTypes, PlacesOK, RecordOK,
     server, tables, call, past, counts
<1>5. ASSUME Holding PROVE  RecordOK'
  BY <1>5, X11InputAssumption DEF Holding, SetTypes, PlacesOK, RecordOK, server, tables, call, past, counts
<1>6. ASSUME Down PROVE  RecordOK'
  BY <1>6, X11InputAssumption DEF Down, Press, PressFails, Refuse, Signal, Calm, SetTypes, PlacesOK, RecordOK,
     server, tables, call, past, counts
<1>7. ASSUME Up PROVE  RecordOK'
  BY <1>7, X11InputAssumption DEF Up, Lift, LiftRefused, Refuse, Signal, Calm, SetTypes, PlacesOK, RecordOK,
     server, tables, call, past, counts
<1>8. ASSUME Reply PROVE  RecordOK'
  BY <1>8, X11InputAssumption DEF Reply, SetTypes, PlacesOK, RecordOK, server, tables, call, past, counts
<1>9. ASSUME Stroke PROVE  RecordOK'
  BY <1>9, X11InputAssumption DEF Stroke, SetTypes, PlacesOK, RecordOK, server, tables, call, past, counts
<1>10. ASSUME MapScratch PROVE  RecordOK'
  BY <1>10, X11InputAssumption DEF MapScratch, SetTypes, PlacesOK, RecordOK, server, tables, call, past,
     counts
<1>11. ASSUME PressNext PROVE  RecordOK'
  BY <1>11, X11InputAssumption DEF PressNext, Press, PressFails, Refuse, Signal, Calm, SetTypes, PlacesOK,
     RecordOK, server, tables, call, past, counts
<1>12. ASSUME Pressed PROVE  RecordOK'
  BY <1>12, X11InputAssumption DEF Pressed, SetTypes, PlacesOK, RecordOK, server, tables, call, past, counts
<1>13. ASSUME LiftNext PROVE  RecordOK'
  BY <1>13, X11InputAssumption DEF LiftNext, Lift, Refuse, Calm, SetTypes, PlacesOK, RecordOK, server, tables,
     call, past, counts
<1>14. ASSUME Lifted PROVE  RecordOK'
  BY <1>14, X11InputAssumption DEF Lifted, SetTypes, PlacesOK, RecordOK, server, tables, call, past, counts
<1>15. ASSUME Stroked PROVE  RecordOK'
  BY <1>15, X11InputAssumption DEF Stroked, SetTypes, PlacesOK, RecordOK, server, tables, call, past, counts
<1>16. ASSUME Restore PROVE  RecordOK'
  BY <1>16, X11InputAssumption DEF Restore, SetTypes, PlacesOK, RecordOK, server, tables, call, past, counts
<1>17. ASSUME Unmap PROVE  RecordOK'
  BY <1>17, X11InputAssumption DEF Unmap, SetTypes, PlacesOK, RecordOK, server, tables, call, past, counts
<1>18. ASSUME Released PROVE  RecordOK'
  BY <1>18, X11InputAssumption DEF Released, SetTypes, PlacesOK, RecordOK, server, tables, call, past, counts
<1>19. ASSUME Interrupt PROVE  RecordOK'
  BY <1>19, InterruptGoes DEF RecordOK, SetTypes
<1>20. ASSUME EndOfInput PROVE  RecordOK'
  BY <1>20, X11InputAssumption DEF EndOfInput, SetTypes, PlacesOK, RecordOK, server, tables, call, past,
     counts
<1>21. ASSUME SwitchLayout PROVE  RecordOK'
  BY <1>21, X11InputAssumption DEF SwitchLayout, Calm, SetTypes, PlacesOK, RecordOK, server, tables, call,
     past, counts
<1>22. CASE UNCHANGED inputVars
  BY <1>22 DEF inputVars, SetTypes, PlacesOK, RecordOK, server, tables, call, past, counts
<1>23. QED  BY <1>1, <1>2, <1>3, <1>4, <1>5, <1>6, <1>7, <1>8, <1>9, <1>10, <1>11, <1>12, <1>13, <1>14, <1>15,
               <1>16, <1>17, <1>18, <1>19, <1>20, <1>21, <1>22 DEF InputNext, InputServe

\* Each step keeps the types of the sets.
LEMMA SetStep ==
  ASSUME SetTypes, SeqTypes, ItemsOK, PlacesOK, CountTypes, [InputNext]_inputVars
  PROVE  SetTypes'
<1>1. ASSUME NEW r \in Requests, Ask(r) PROVE  SetTypes'
  <2>1. r.mods \subseteq Mods
    BY DEF Requests
  <2>2. todo' \subseteq Mods /\ acquired' = {} /\ pc' \in {"idle", "hold", "main"}
    BY <1>1, <2>1, X11InputAssumption DEF Ask
  <2>3. QED  BY <1>1, <2>2 DEF Ask, SetTypes, server, tables, past
<1>2. ASSUME NEW m \in Mods, Hold(m) PROVE  SetTypes'
  <2>1. m \in Inputs
    BY X11InputAssumption DEF Inputs
  <2>2. down' \subseteq Inputs /\ held' \subseteq Inputs /\ todo' \subseteq Mods /\ acquired' \subseteq Mods
    BY <1>2, <2>1 DEF Hold, Press, PressFails, SetTypes, server
  <2>3. pc' \in {pc, "letgo"} /\ fail' \in {fail, "blocked", "exit"} /\ torn' \in {torn, TRUE}
    BY <1>2 DEF Hold, PressFails
  <2>4. UNCHANGED <<mapped, owed, scratch, group, seen, asked, refused>>
    BY <1>2 DEF Hold, server
  <2>5. QED  BY <2>2, <2>3, <2>4 DEF SetTypes
<1>3. ASSUME NEW m \in Mods, LetGo(m) PROVE  SetTypes'
  BY <1>3, X11InputAssumption DEF LetGo, Lift, LiftRefused, Refuse, Calm, SetTypes, server, tables, call, past,
     counts
<1>4. ASSUME NEW i \in Inputs, ReleaseOne(i) PROVE  SetTypes'
  BY <1>4, X11InputAssumption DEF ReleaseOne, Lift, LiftRefused, Refuse, Calm, SetTypes, server, tables, call,
     past, counts
<1>5. ASSUME Holding PROVE  SetTypes'
  BY <1>5, X11InputAssumption DEF Holding, SetTypes, server, tables, call, past, counts
<1>6. ASSUME Down PROVE  SetTypes'
  <2>1. Main \in Inputs /\ request.items[1] \in Chars \union Buttons
    BY <1>6 DEF Down, ItemsOK, SeqTypes, Inputs
  <2>2. down' \subseteq Inputs /\ held' \subseteq Inputs /\ owed' \in [Inputs -> SUBSET Mods]
    BY <1>6, <2>1 DEF Down, Press, PressFails, SetTypes
  <2>3. asked' \in [Chars \union Buttons -> Inputs \union {NoKey}]
    BY <1>6, <2>1 DEF Down, SetTypes
  <2>4. pc' \in {"idle", "letgo"} /\ fail' \in {fail, "blocked", "exit"} /\ torn' \in {torn, TRUE}
    BY <1>6 DEF Down, PressFails
  <2>5. UNCHANGED <<mapped, scratch, group, seen, todo, acquired, refused>>
    BY <1>6 DEF Down
  <2>6. QED  BY <2>2, <2>3, <2>4, <2>5 DEF SetTypes
<1>7. ASSUME Up PROVE  SetTypes'
  <2>1. Main \in Inputs /\ request.items[1] \in Chars \union Buttons /\ request.mods \subseteq Mods
    BY <1>7 DEF Up, ItemsOK, SeqTypes, Inputs
  <2>2. down' \subseteq Inputs /\ held' \subseteq Inputs /\ refused' \subseteq Inputs
    BY <1>7, <2>1 DEF Up, Lift, LiftRefused, SetTypes
  <2>3. asked' \in [Chars \union Buttons -> Inputs \union {NoKey}]
    BY <1>7, <2>1 DEF Up, SetTypes
  <2>4. owed' \in [Inputs -> SUBSET Mods] /\ acquired' \subseteq Mods
    BY <1>7, <2>1 DEF Up, SetTypes
  <2>5. pc' = "letgo" /\ fail' \in {fail, "blocked", "exit"} /\ UNCHANGED <<mapped, scratch, group, seen, todo, torn>>
    BY <1>7 DEF Up
  <2>6. QED  BY <2>2, <2>3, <2>4, <2>5 DEF SetTypes
<1>8. ASSUME Reply PROVE  SetTypes'
  BY <1>8, X11InputAssumption DEF Reply, SetTypes, server, tables, call, past, counts
<1>9. ASSUME Stroke PROVE  SetTypes'
  BY <1>9, X11InputAssumption DEF Stroke, SetTypes, server, tables, call, past, counts
<1>10. ASSUME MapScratch PROVE  SetTypes'
  <2>1. Head(request.items) \in Chars
    BY <1>10 DEF MapScratch, ItemsOK
  <2>2. QED  BY <1>10, <2>1 DEF MapScratch, SetTypes, past
<1>11. ASSUME PressNext PROVE  SetTypes'
  <2>1. Head(queue) \in Inputs
    BY <1>11 DEF PressNext, SeqTypes
  <2>2. down' \subseteq Inputs /\ held' \subseteq Inputs
    BY <1>11, <2>1 DEF PressNext, Press, PressFails, SetTypes
  <2>3. pc' \in {pc, "lift"} /\ fail' \in {fail, "blocked", "exit"} /\ torn' \in {torn, TRUE}
    BY <1>11 DEF PressNext, PressFails
  <2>4. UNCHANGED <<mapped, owed, scratch, group, seen, todo, acquired, asked, refused>>
    BY <1>11 DEF PressNext
  <2>5. QED  BY <2>2, <2>3, <2>4 DEF SetTypes
<1>12. ASSUME Pressed PROVE  SetTypes'
  BY <1>12, X11InputAssumption DEF Pressed, SetTypes, server, tables, call, past, counts
<1>13. ASSUME LiftNext PROVE  SetTypes'
  <2>1. ToSet(inner) \subseteq Inputs
    BY DEF SeqTypes, ToSet
  <2>2. down' \subseteq Inputs /\ held' \subseteq Inputs /\ refused' \subseteq Inputs
    BY <1>13, <2>1 DEF LiftNext, Lift, SetTypes
  <2>3. fail' \in {fail, "blocked", "exit"}
    BY <1>13 DEF LiftNext
  <2>4. UNCHANGED <<mapped, owed, scratch, group, pc, seen, todo, acquired, asked, torn>>
    BY <1>13 DEF LiftNext
  <2>5. QED  BY <2>2, <2>3, <2>4 DEF SetTypes
<1>14. ASSUME Lifted PROVE  SetTypes'
  BY <1>14, X11InputAssumption DEF Lifted, SetTypes, server, tables, call, past, counts
<1>15. ASSUME Stroked PROVE  SetTypes'
  BY <1>15, X11InputAssumption DEF Stroked, SetTypes, server, tables, call, past, counts
<1>16. ASSUME Restore PROVE  SetTypes'
  BY <1>16, X11InputAssumption DEF Restore, SetTypes, server, tables, call, past, counts
<1>17. ASSUME Unmap PROVE  SetTypes'
  BY <1>17, X11InputAssumption DEF Unmap, SetTypes, server, tables, call, past, counts
<1>18. ASSUME Released PROVE  SetTypes'
  BY <1>18, X11InputAssumption DEF Released, SetTypes, server, tables, call, past, counts
<1>19. ASSUME Interrupt PROVE  SetTypes'
  BY <1>19, InterruptGoes DEF SetTypes
<1>20. ASSUME EndOfInput PROVE  SetTypes'
  BY <1>20, X11InputAssumption DEF EndOfInput, SetTypes, server, tables, call, past, counts
<1>21. ASSUME SwitchLayout PROVE  SetTypes'
  BY <1>21, X11InputAssumption DEF SwitchLayout, Calm, SetTypes, server, tables, call, past, counts
<1>22. CASE UNCHANGED inputVars
  BY <1>22 DEF inputVars, SetTypes, server, tables, call, past, counts
<1>23. QED  BY <1>1, <1>2, <1>3, <1>4, <1>5, <1>6, <1>7, <1>8, <1>9, <1>10, <1>11, <1>12, <1>13, <1>14, <1>15,
               <1>16, <1>17, <1>18, <1>19, <1>20, <1>21, <1>22 DEF InputNext, InputServe

\* Each step keeps the counts.
LEMMA CountStep ==
  ASSUME CountTypes, [InputNext]_inputVars
  PROVE  CountTypes'
<1>1. ASSUME NEW r \in Requests, Ask(r) PROVE  CountTypes'
  BY <1>1, X11InputAssumption DEF Ask, Requests, CountTypes, server, tables, call, past, counts
<1>2. ASSUME NEW m \in Mods, Hold(m) PROVE  CountTypes'
  <2>1. UNCHANGED counts \/ Refuse \/ Signal
    BY <1>2 DEF Hold, PressFails, LiftRefused
  <2>2. QED  BY <2>1, X11InputAssumption DEF counts, Refuse, Signal, Calm, CountTypes
<1>3. ASSUME NEW m \in Mods, LetGo(m) PROVE  CountTypes'
  <2>1. UNCHANGED counts \/ Refuse \/ Signal
    BY <1>3 DEF LetGo, PressFails, LiftRefused
  <2>2. QED  BY <2>1, X11InputAssumption DEF counts, Refuse, Signal, Calm, CountTypes
<1>4. ASSUME NEW i \in Inputs, ReleaseOne(i) PROVE  CountTypes'
  <2>1. UNCHANGED counts \/ Refuse \/ Signal
    BY <1>4 DEF ReleaseOne, PressFails, LiftRefused
  <2>2. QED  BY <2>1, X11InputAssumption DEF counts, Refuse, Signal, Calm, CountTypes
<1>5. ASSUME Holding PROVE  CountTypes'
  BY <1>5, X11InputAssumption DEF Holding, CountTypes, server, tables, call, past, counts
<1>6. ASSUME Down PROVE  CountTypes'
  <2>1. UNCHANGED counts \/ Refuse \/ Signal
    BY <1>6 DEF Down, PressFails, LiftRefused
  <2>2. QED  BY <2>1, X11InputAssumption DEF counts, Refuse, Signal, Calm, CountTypes
<1>7. ASSUME Up PROVE  CountTypes'
  <2>1. UNCHANGED counts \/ Refuse \/ Signal
    BY <1>7 DEF Up, PressFails, LiftRefused
  <2>2. QED  BY <2>1, X11InputAssumption DEF counts, Refuse, Signal, Calm, CountTypes
<1>8. ASSUME Reply PROVE  CountTypes'
  BY <1>8, X11InputAssumption DEF Reply, CountTypes, server, tables, call, past, counts
<1>9. ASSUME Stroke PROVE  CountTypes'
  BY <1>9, X11InputAssumption DEF Stroke, CountTypes, server, tables, call, past, counts
<1>10. ASSUME MapScratch PROVE  CountTypes'
  BY <1>10, X11InputAssumption DEF MapScratch, CountTypes, server, tables, call, past, counts
<1>11. ASSUME PressNext PROVE  CountTypes'
  <2>1. UNCHANGED counts \/ Refuse \/ Signal
    BY <1>11 DEF PressNext, PressFails, LiftRefused
  <2>2. QED  BY <2>1, X11InputAssumption DEF counts, Refuse, Signal, Calm, CountTypes
<1>12. ASSUME Pressed PROVE  CountTypes'
  BY <1>12, X11InputAssumption DEF Pressed, CountTypes, server, tables, call, past, counts
<1>13. ASSUME LiftNext PROVE  CountTypes'
  <2>1. UNCHANGED counts \/ Refuse \/ Signal
    BY <1>13 DEF LiftNext, PressFails, LiftRefused
  <2>2. QED  BY <2>1, X11InputAssumption DEF counts, Refuse, Signal, Calm, CountTypes
<1>14. ASSUME Lifted PROVE  CountTypes'
  BY <1>14, X11InputAssumption DEF Lifted, CountTypes, server, tables, call, past, counts
<1>15. ASSUME Stroked PROVE  CountTypes'
  BY <1>15, X11InputAssumption DEF Stroked, CountTypes, server, tables, call, past, counts
<1>16. ASSUME Restore PROVE  CountTypes'
  BY <1>16, X11InputAssumption DEF Restore, CountTypes, server, tables, call, past, counts
<1>17. ASSUME Unmap PROVE  CountTypes'
  BY <1>17, X11InputAssumption DEF Unmap, CountTypes, server, tables, call, past, counts
<1>18. ASSUME Released PROVE  CountTypes'
  BY <1>18, X11InputAssumption DEF Released, CountTypes, server, tables, call, past, counts
<1>19. ASSUME Interrupt PROVE  CountTypes'
  <2>1. UNCHANGED counts \/ Refuse \/ Signal
    BY <1>19 DEF Interrupt, PressFails, LiftRefused
  <2>2. QED  BY <2>1, X11InputAssumption DEF counts, Refuse, Signal, Calm, CountTypes
<1>20. ASSUME EndOfInput PROVE  CountTypes'
  BY <1>20, X11InputAssumption DEF EndOfInput, CountTypes, server, tables, call, past, counts
<1>21. ASSUME SwitchLayout PROVE  CountTypes'
  BY <1>21, X11InputAssumption DEF SwitchLayout, Calm, CountTypes, server, tables, call, past, counts
<1>22. CASE UNCHANGED inputVars
  BY <1>22 DEF inputVars, CountTypes, server, tables, call, past, counts
<1>23. QED  BY <1>1, <1>2, <1>3, <1>4, <1>5, <1>6, <1>7, <1>8, <1>9, <1>10, <1>11, <1>12, <1>13, <1>14, <1>15,
               <1>16, <1>17, <1>18, <1>19, <1>20, <1>21, <1>22 DEF InputNext, InputServe

\* Each step keeps the types of the sequences.
LEMMA SeqStep ==
  ASSUME SeqTypes, SetTypes, ItemsOK, PlacesOK, CountTypes, [InputNext]_inputVars
  PROVE  SeqTypes'
<1>1. ASSUME NEW r \in Requests, Ask(r) PROVE  SeqTypes'
  <2>1. r \in [kind : Kinds \union {"none"}, items : Seq(Chars \union Buttons), mods : SUBSET Mods]
    <3>1. Seq(Chars) \subseteq Seq(Chars \union Buttons)
      OBVIOUS
    <3>2. CASE r.kind \in {"key_down", "key_up", "key"}
      <4>1. PICK c \in Chars : r = [kind |-> r.kind, items |-> <<c>>, mods |-> r.mods] /\ r.mods \subseteq Mods
        BY <3>2 DEF Requests
      <4>2. <<c>> \in Seq(Chars \union Buttons)
        OBVIOUS
      <4>3. QED  BY <3>2, <4>1, <4>2 DEF Kinds, Downs, Ups, Strokes
    <3>3. CASE r.kind \in {"mouse_down", "mouse_up", "click", "scroll"}
      <4>1. PICK b \in Buttons : r = [kind |-> r.kind, items |-> <<b>>, mods |-> r.mods] /\ r.mods \subseteq Mods
        BY <3>3 DEF Requests
      <4>2. <<b>> \in Seq(Chars \union Buttons)
        OBVIOUS
      <4>3. r.kind \in Kinds \union {"none"}
        BY <3>3 DEF Kinds, Downs, Ups, Strokes
      <4>4. [kind |-> r.kind, items |-> <<b>>, mods |-> r.mods]
                \in [kind : Kinds \union {"none"}, items : Seq(Chars \union Buttons), mods : SUBSET Mods]
        BY <4>1, <4>2, <4>3
      <4>5. QED  BY <4>1, <4>4
    <3>4. CASE r.kind \in {"type", "post"}
      <4>1. r = [kind |-> r.kind, items |-> r.items, mods |-> {}] /\ r.items \in Texts
        BY <3>4 DEF Requests
      <4>2. QED  BY <3>1, <3>4, <4>1, X11InputAssumption DEF Kinds, Downs, Ups, Strokes
    <3>5. QED  BY <3>2, <3>3, <3>4 DEF Requests
  <2>2. QED  BY <1>1, <2>1 DEF Ask, SeqTypes
<1>2. ASSUME NEW m \in Mods, Hold(m) PROVE  SeqTypes'
  BY <1>2, X11InputAssumption DEF Hold, Press, PressFails, Refuse, Signal, Calm, SeqTypes, server, tables,
     call, past, counts
<1>3. ASSUME NEW m \in Mods, LetGo(m) PROVE  SeqTypes'
  BY <1>3, X11InputAssumption DEF LetGo, Lift, LiftRefused, Refuse, Calm, SeqTypes, server, tables, call, past,
     counts
<1>4. ASSUME NEW i \in Inputs, ReleaseOne(i) PROVE  SeqTypes'
  BY <1>4, X11InputAssumption DEF ReleaseOne, Lift, LiftRefused, Refuse, Calm, SeqTypes, server, tables, call,
     past, counts
<1>5. ASSUME Holding PROVE  SeqTypes'
  BY <1>5, X11InputAssumption DEF Holding, SeqTypes, server, tables, call, past, counts
<1>6. ASSUME Down PROVE  SeqTypes'
  BY <1>6, X11InputAssumption DEF Down, Press, PressFails, Refuse, Signal, Calm, SeqTypes, server, tables,
     call, past, counts
<1>7. ASSUME Up PROVE  SeqTypes'
  BY <1>7, X11InputAssumption DEF Up, Lift, LiftRefused, Refuse, Signal, Calm, SeqTypes, server, tables, call,
     past, counts
<1>8. ASSUME Reply PROVE  SeqTypes'
  BY <1>8, X11InputAssumption DEF Reply, SeqTypes, server, tables, call, past, counts
<1>9. ASSUME Stroke PROVE  SeqTypes'
  <2>1. Head(request.items) \in Chars \union Buttons /\ Tail(request.items) \in Seq(Chars \union Buttons)
    BY <1>9 DEF Stroke, SeqTypes
  <2> DEFINE key == Resolve(Head(request.items), seen)
  <2>2. key.code \in Keys \union Buttons \union {NoKey}
    BY <2>1, ResolveType DEF SetTypes
  <2>3. Shift \in Inputs /\ (key.code # NoKey => key.code \in Inputs)
    BY <2>2, X11InputAssumption DEF Inputs
  <2>4. queue' \in Seq(Inputs)
    <3>1. <<>> \in Seq(Inputs) /\ <<Shift>> \in Seq(Inputs)
      BY <2>3
    <3>2. key.code # NoKey => <<key.code>> \in Seq(Inputs) /\ <<Shift, key.code>> \in Seq(Inputs)
      BY <2>3
    <3>3. queue' \in {queue, <<>>} \/ (key.code # NoKey /\ queue' \in {<<key.code>>, <<Shift, key.code>>})
      BY <1>9 DEF Stroke
    <3>4. QED  BY <3>1, <3>2, <3>3 DEF SeqTypes
  <2>5. request' \in [kind : Kinds \union {"none"}, items : Seq(Chars \union Buttons), mods : SUBSET Mods]
    BY <1>9, <2>1 DEF Stroke, SeqTypes
  <2>6. QED  BY <1>9, <2>4, <2>5 DEF Stroke, SeqTypes
<1>10. ASSUME MapScratch PROVE  SeqTypes'
  <2>1. Tail(request.items) \in Seq(Chars \union Buttons)
    BY <1>10 DEF MapScratch, ItemsOK, SeqTypes
  <2>2. queue' \in Seq(Inputs)
    <3>1. Scratch \in Inputs
      BY DEF Inputs
    <3>2. <<Scratch>> \in Seq(Inputs) /\ <<>> \in Seq(Inputs)
      BY <3>1
    <3>3. QED  BY <1>10, <3>2 DEF MapScratch
  <2>3. QED  BY <1>10, <2>1, <2>2 DEF MapScratch, SeqTypes
<1>11. ASSUME PressNext PROVE  SeqTypes'
  <2>1. Head(queue) \in Inputs /\ Tail(queue) \in Seq(Inputs)
    BY <1>11 DEF PressNext, SeqTypes
  <2>2. Append(inner, Head(queue)) \in Seq(Inputs)
    BY <2>1 DEF SeqTypes
  <2>3. queue' \in {Tail(queue), <<>>} /\ inner' \in {inner, Append(inner, Head(queue))} /\ request' = request
    BY <1>11 DEF PressNext
  <2>4. <<>> \in Seq(Inputs)
    OBVIOUS
  <2>5. QED  BY <2>1, <2>2, <2>3, <2>4 DEF SeqTypes
<1>12. ASSUME Pressed PROVE  SeqTypes'
  BY <1>12, X11InputAssumption DEF Pressed, SeqTypes, server, tables, call, past, counts
<1>13. ASSUME LiftNext PROVE  SeqTypes'
  <2>1. Front(inner) \in Seq(Inputs)
    BY <1>13, ToSetFront DEF LiftNext, SeqTypes
  <2>2. queue' = queue /\ inner' \in {<<>>, Front(inner)} /\ request' = request
    BY <1>13 DEF LiftNext
  <2>3. <<>> \in Seq(Inputs)
    OBVIOUS
  <2>4. QED  BY <2>1, <2>2, <2>3 DEF SeqTypes
<1>14. ASSUME Lifted PROVE  SeqTypes'
  BY <1>14, X11InputAssumption DEF Lifted, SeqTypes, server, tables, call, past, counts
<1>15. ASSUME Stroked PROVE  SeqTypes'
  BY <1>15, X11InputAssumption DEF Stroked, SeqTypes, server, tables, call, past, counts
<1>16. ASSUME Restore PROVE  SeqTypes'
  BY <1>16, X11InputAssumption DEF Restore, SeqTypes, server, tables, call, past, counts
<1>17. ASSUME Unmap PROVE  SeqTypes'
  BY <1>17, X11InputAssumption DEF Unmap, SeqTypes, server, tables, call, past, counts
<1>18. ASSUME Released PROVE  SeqTypes'
  BY <1>18, X11InputAssumption DEF Released, SeqTypes, server, tables, call, past, counts
<1>19. ASSUME Interrupt PROVE  SeqTypes'
  <2>1. queue' \in {queue, <<>>} /\ inner' \in {inner, <<>>} /\ request' = request
    BY <1>19, InterruptGoes
  <2>2. <<>> \in Seq(Inputs)
    OBVIOUS
  <2>3. QED  BY <2>1, <2>2 DEF SeqTypes
<1>20. ASSUME EndOfInput PROVE  SeqTypes'
  BY <1>20, X11InputAssumption DEF EndOfInput, SeqTypes, server, tables, call, past, counts
<1>21. ASSUME SwitchLayout PROVE  SeqTypes'
  BY <1>21, X11InputAssumption DEF SwitchLayout, Calm, SeqTypes, server, tables, call, past, counts
<1>22. CASE UNCHANGED inputVars
  BY <1>22 DEF inputVars, SeqTypes, server, tables, call, past, counts
<1>23. QED  BY <1>1, <1>2, <1>3, <1>4, <1>5, <1>6, <1>7, <1>8, <1>9, <1>10, <1>11, <1>12, <1>13, <1>14, <1>15,
               <1>16, <1>17, <1>18, <1>19, <1>20, <1>21, <1>22 DEF InputNext, InputServe

\* Each step keeps what is known of the request.
LEMMA ItemsStep ==
  ASSUME SeqTypes, SetTypes, ItemsOK, PlacesOK, CountTypes, [InputNext]_inputVars
  PROVE  ItemsOK'
<1>1. ASSUME NEW r \in Requests, Ask(r) PROVE  ItemsOK'
  <2>1. CASE r.kind \in Downs \union Ups
    <3>1. PICK c \in Chars \union Buttons : r.items = <<c>>
      BY <2>1 DEF Requests, Downs, Ups
    <3>2. /\ Resolve(c, group).code \in Keys \union Buttons \union {NoKey}
          /\ r.items # <<>> /\ r.items[1] = c
      <4>1. group \in Groups
        BY DEF SetTypes
      <4>2. QED  BY <3>1, <4>1, ResolveType
    <3>3. Main' = Resolve(c, group).code
      BY <1>1, <3>2 DEF Ask, Main
    <3>4. pc' \in {"hold", "main"} => Main' # NoKey
      BY <1>1, <2>1, <3>2, <3>3 DEF Ask
    <3>5. pc' # "map" /\ request' = r
      BY <1>1, <2>1 DEF Ask
    <3>6. QED  BY <3>2, <3>3, <3>4, <3>5 DEF ItemsOK
  <2>2. CASE r.kind \notin Downs \union Ups
    BY <1>1, <2>2 DEF Ask, ItemsOK
  <2>3. QED  BY <2>1, <2>2
<1>2. ASSUME NEW m \in Mods, Hold(m) PROVE  ItemsOK'
  BY <1>2, X11InputAssumption DEF Hold, Press, PressFails, Refuse, Signal, Calm, ItemsOK, Main, PlacesOK,
     Downs, Ups, Strokes, server, tables, call, past, counts
<1>3. ASSUME NEW m \in Mods, LetGo(m) PROVE  ItemsOK'
  BY <1>3, X11InputAssumption DEF LetGo, Lift, LiftRefused, Refuse, Calm, ItemsOK, Main, PlacesOK, Downs, Ups,
     Strokes, server, tables, call, past, counts
<1>4. ASSUME NEW i \in Inputs, ReleaseOne(i) PROVE  ItemsOK'
  BY <1>4, X11InputAssumption DEF ReleaseOne, Lift, LiftRefused, Refuse, Calm, ItemsOK, Main, PlacesOK, Downs,
     Ups, Strokes, server, tables, call, past, counts
<1>5. ASSUME Holding PROVE  ItemsOK'
  BY <1>5, X11InputAssumption DEF Holding, ItemsOK, Main, PlacesOK, Downs, Ups, Strokes, server, tables, call,
     past, counts
<1>6. ASSUME Down PROVE  ItemsOK'
  BY <1>6, X11InputAssumption DEF Down, Press, PressFails, Refuse, Signal, Calm, ItemsOK, Main, PlacesOK,
     Downs, Ups, Strokes, server, tables, call, past, counts
<1>7. ASSUME Up PROVE  ItemsOK'
  BY <1>7, X11InputAssumption DEF Up, Lift, LiftRefused, Refuse, Signal, Calm, ItemsOK, Main, PlacesOK, Downs,
     Ups, Strokes, server, tables, call, past, counts
<1>8. ASSUME Reply PROVE  ItemsOK'
  BY <1>8, X11InputAssumption DEF Reply, ItemsOK, Main, PlacesOK, Downs, Ups, Strokes, server, tables, call,
     past, counts
<1>9. ASSUME Stroke PROVE  ItemsOK'
  <2>1. Head(request.items) \in Chars \union Buttons
    BY <1>9 DEF Stroke, SeqTypes
  <2>2. pc' = "map" => UNCHANGED request /\ Head(request.items) \notin Buttons
    BY <1>9, X11InputAssumption DEF Stroke, Resolve
  <2>3. pc' \in {"map", "press"} /\ request.items # <<>>
    BY <1>9 DEF Stroke
  <2>4. QED  BY <2>1, <2>2, <2>3 DEF ItemsOK
<1>10. ASSUME MapScratch PROVE  ItemsOK'
  BY <1>10, X11InputAssumption DEF MapScratch, ItemsOK, Main, PlacesOK, Downs, Ups, Strokes, server, tables,
     call, past, counts
<1>11. ASSUME PressNext PROVE  ItemsOK'
  BY <1>11, X11InputAssumption DEF PressNext, Press, PressFails, Refuse, Signal, Calm, ItemsOK, Main, PlacesOK,
     Downs, Ups, Strokes, server, tables, call, past, counts
<1>12. ASSUME Pressed PROVE  ItemsOK'
  BY <1>12, X11InputAssumption DEF Pressed, ItemsOK, Main, PlacesOK, Downs, Ups, Strokes, server, tables, call,
     past, counts
<1>13. ASSUME LiftNext PROVE  ItemsOK'
  BY <1>13, X11InputAssumption DEF LiftNext, Lift, Refuse, Calm, ItemsOK, Main, PlacesOK, Downs, Ups, Strokes,
     server, tables, call, past, counts
<1>14. ASSUME Lifted PROVE  ItemsOK'
  <2>1. request.kind \in Strokes /\ request' = request /\ pc' # "map"
    BY <1>14 DEF Lifted, PlacesOK, call
  <2>2. request'.kind \notin Downs \union Ups
    BY <2>1 DEF Downs, Ups, Strokes
  <2>3. QED  BY <2>1, <2>2 DEF ItemsOK
<1>15. ASSUME Stroked PROVE  ItemsOK'
  BY <1>15, X11InputAssumption DEF Stroked, ItemsOK, Main, PlacesOK, Downs, Ups, Strokes, server, tables, call,
     past, counts
<1>16. ASSUME Restore PROVE  ItemsOK'
  BY <1>16, X11InputAssumption DEF Restore, ItemsOK, Main, PlacesOK, Downs, Ups, Strokes, server, tables, call,
     past, counts
<1>17. ASSUME Unmap PROVE  ItemsOK'
  BY <1>17, X11InputAssumption DEF Unmap, ItemsOK, Main, PlacesOK, Downs, Ups, Strokes, server, tables, call,
     past, counts
<1>18. ASSUME Released PROVE  ItemsOK'
  BY <1>18, X11InputAssumption DEF Released, ItemsOK, Main, PlacesOK, Downs, Ups, Strokes, server, tables,
     call, past, counts
<1>19. ASSUME Interrupt PROVE  ItemsOK'
  BY <1>19, InterruptGoes DEF ItemsOK
<1>20. ASSUME EndOfInput PROVE  ItemsOK'
  BY <1>20, X11InputAssumption DEF EndOfInput, ItemsOK, Main, PlacesOK, Downs, Ups, Strokes, server, tables,
     call, past, counts
<1>21. ASSUME SwitchLayout PROVE  ItemsOK'
  BY <1>21, X11InputAssumption DEF SwitchLayout, Calm, ItemsOK, Main, PlacesOK, Downs, Ups, Strokes, server,
     tables, call, past, counts
<1>22. CASE UNCHANGED inputVars
  BY <1>22 DEF inputVars, ItemsOK, Main, PlacesOK, Downs, Ups, Strokes, server, tables, call, past, counts
<1>23. QED  BY <1>1, <1>2, <1>3, <1>4, <1>5, <1>6, <1>7, <1>8, <1>9, <1>10, <1>11, <1>12, <1>13, <1>14, <1>15,
               <1>16, <1>17, <1>18, <1>19, <1>20, <1>21, <1>22 DEF InputNext, InputServe

\* Steps that leave the accounts alone.
LEMMA SameAccounts ==
  ASSUME UNCHANGED <<owed, asked>>
  PROVE  Owed' = Owed /\ Accounted' = Accounted
BY DEF Owed, Accounted

\* Steps that also leave alone what is held and by whom.
LEMMA SameAccount ==
  ASSUME AccountOK, UNCHANGED <<held, owed, asked, refused, acquired, inner, switches, fail>>,
         pc # "idle", pc' # "idle", pc \notin {"close", "last unmap", "ended"}
  PROVE  AccountOK'
BY SameAccounts DEF AccountOK, InHand

\* Each step keeps account of what is held.
LEMMA AccountStep ==
  ASSUME DriverTypes, PlacesOK, LayoutOK, AccountOK, [InputNext]_inputVars
  PROVE  AccountOK'
<1>1. ASSUME NEW r \in Requests, Ask(r) PROVE  AccountOK'
  <2>1. pc = "idle" /\ UNCHANGED <<held, owed, asked, refused, switches>>
    BY <1>1 DEF Ask, tables, past
  <2>2. fail # "exit"
    BY <2>1 DEF PlacesOK
  <2>3. QED  BY <2>1, <2>2, SameAccounts DEF AccountOK, InHand
<1>2. ASSUME NEW m \in Mods, Hold(m) PROVE  AccountOK'
  <2>1. /\ switches' = switches /\ UNCHANGED <<owed, asked, refused>> /\ inner' = inner
        /\ pc = "hold" /\ pc' \in {"hold", "letgo"} /\ (fail' # "exit" => fail # "exit")
    BY <1>2 DEF Hold, PressFails, Refuse, Signal, counts, PlacesOK
  <2>2. fail' # "exit" =>
            \/ held' = held /\ acquired' = acquired
            \/ held' = held \union {m} /\ acquired' = acquired \union {m}
    BY <1>2 DEF Hold, Press, PressFails
  <2>3. QED  BY <2>1, <2>2, SameAccounts DEF AccountOK, InHand
<1>3. ASSUME NEW m \in Mods, LetGo(m) PROVE  AccountOK'
  <2>1. /\ switches' = switches /\ UNCHANGED <<owed, asked, inner, fail>> /\ pc = "letgo" /\ pc' = "letgo"
        /\ acquired' = acquired \ {m}
    BY <1>3 DEF LetGo, LiftRefused, Refuse, counts
  <2>2. \/ m \notin held /\ held' = held /\ refused' = refused
        \/ held' = held \ {m} /\ refused' = refused
        \/ held' = held /\ refused' = refused \union {m}
    BY <1>3 DEF LetGo, Lift, LiftRefused
  <2>3. QED  BY <2>1, <2>2, SameAccounts DEF AccountOK, InHand
<1>4. ASSUME NEW i \in Inputs, ReleaseOne(i) PROVE  AccountOK'
  BY <1>4 DEF ReleaseOne, AccountOK
<1>5. ASSUME Holding PROVE  AccountOK'
  <2>1. UNCHANGED <<held, owed, asked, refused, acquired, inner>> /\ pc # "idle" /\ pc' # "idle"
    BY <1>5 DEF Holding, tables, call, past, counts
  <2>2. switches' = switches /\ fail' = fail /\ pc \notin {"close", "last unmap", "ended"}
    BY <1>5 DEF Holding, tables, call, past, counts
  <2>3. QED  BY <2>1, <2>2, SameAccount
<1>6. ASSUME Down PROVE  AccountOK'
  <2>1. CASE Press(Main) /\ pc' = "idle" /\ owed' = [owed EXCEPT ![Main] = owed[Main] \union acquired]
                /\ asked' = [asked EXCEPT ![request.items[1]] = Main] /\ UNCHANGED counts
    <3>1. Main \in Inputs /\ request.items[1] \in Chars \union Buttons
      BY <1>6 DEF Down, DriverTypes, ItemsOK, SeqTypes, Inputs
    <3>2. Owed \union acquired \subseteq Owed'
      <4>1. owed'[Main] = owed[Main] \union acquired /\ \A i \in Inputs \ {Main} : owed'[i] = owed[i]
        BY <2>1, <3>1 DEF DriverTypes, SetTypes
      <4>2. (\A i \in Inputs : owed[i] \subseteq owed'[i]) /\ acquired \subseteq owed'[Main]
        BY <4>1
      <4>3. QED  BY <3>1, <4>1, <4>2 DEF Owed
    <3>3. switches = 0 => {asked[c] : c \in DOMAIN asked} \subseteq {asked'[c] : c \in DOMAIN asked'} \union {NoKey}
      <4>1. switches = 0 => asked[request.items[1]] \in {NoKey, Main}
        BY <3>1 DEF LayoutOK, Main
      <4>2. QED  BY <2>1, <3>1, <4>1 DEF DriverTypes, SetTypes
    <3>4. Main \in {asked'[c] : c \in DOMAIN asked'}
      BY <2>1, <3>1 DEF DriverTypes, SetTypes
    <3>5. switches' = switches /\ held' = held \union {Main} /\ refused' = refused /\ pc = "main" /\ inner = <<>> /\ fail = "no"
      BY <1>6, <2>1 DEF Down, Press, counts, PlacesOK
    <3>6. NoKey \notin held
      BY X11InputAssumption DEF DriverTypes, SetTypes, Inputs
    <3>7. switches = 0 => held \subseteq Accounted \union refused \union acquired
      BY <3>5, ToSetEmpty DEF AccountOK, InHand
    <3>8. switches = 0 => held' \subseteq Accounted' \union refused
      BY <3>2, <3>3, <3>4, <3>5, <3>6, <3>7 DEF Accounted
    <3>9. QED  BY <2>1, <3>5, <3>8 DEF AccountOK, InHand
  <2>2. CASE PressFails(Main) /\ pc' = "letgo" /\ UNCHANGED <<held, owed, asked>>
    <3>1. switches' = switches /\ UNCHANGED <<acquired, inner, refused>> /\ pc = "main" /\ fail = "no"
      BY <1>6, <2>2 DEF Down, PressFails, Refuse, Signal, PlacesOK
    <3>2. QED  BY <2>2, <3>1, SameAccounts DEF AccountOK, InHand
  <2>3. \/ /\ Press(Main) /\ pc' = "idle" /\ owed' = [owed EXCEPT ![Main] = owed[Main] \union acquired]
           /\ asked' = [asked EXCEPT ![request.items[1]] = Main] /\ UNCHANGED counts
        \/ PressFails(Main) /\ pc' = "letgo" /\ UNCHANGED <<held, owed, asked>>
    BY <1>6 DEF Down, Press, PressFails, counts
  <2>4. QED  BY <2>1, <2>2, <2>3
<1>7. ASSUME Up PROVE  AccountOK'
  <2>1. /\ pc = "main" /\ pc' = "letgo" /\ fail = "no" /\ inner = <<>> /\ inner' = inner /\ switches' = switches
        /\ acquired' = owed[Main] \union request.mods
    BY <1>7 DEF Up, LiftRefused, Refuse, Signal, counts, PlacesOK
  <2>2. Main \in Inputs /\ request.items[1] \in Chars \union Buttons
    BY <1>7 DEF Up, DriverTypes, ItemsOK, SeqTypes, Inputs
  <2>3. Owed \subseteq Owed' \union acquired'
    <3>1. owed' = [owed EXCEPT ![Main] = {}]
      BY <1>7 DEF Up
    <3>2. QED  BY <2>1, <2>2, <3>1 DEF Owed, DriverTypes, SetTypes
  <2>4. acquired = {} /\ InHand = {} /\ InHand' = acquired'
    BY <1>7, <2>1, ToSetEmpty DEF Up, PlacesOK, InHand
  <2>5. NoKey \notin held
    BY X11InputAssumption DEF DriverTypes, SetTypes, Inputs
  <2>6. CASE held' = held \ {Main} /\ asked' = [asked EXCEPT ![request.items[1]] = NoKey] /\ refused' = refused
    <3>1. switches = 0 => asked[request.items[1]] \in {NoKey, Main}
      BY <2>2 DEF LayoutOK, Main
    <3>2. switches = 0 => {asked[c] : c \in DOMAIN asked} \subseteq {asked'[c] : c \in DOMAIN asked'} \union {NoKey, Main}
      BY <2>2, <2>6, <3>1 DEF DriverTypes, SetTypes
    <3>3. QED  BY <2>1, <2>3, <2>4, <2>5, <2>6, <3>2 DEF AccountOK, Accounted
  <2>7. CASE held' = held /\ asked' = asked /\ refused \subseteq refused'
    <3>1. Accounted \subseteq Accounted' \union acquired'
      BY <2>3, <2>7 DEF Accounted
    <3>2. QED  BY <2>1, <2>4, <2>7, <3>1 DEF AccountOK
  <2>8. \/ held' = held \ {Main} /\ asked' = [asked EXCEPT ![request.items[1]] = NoKey] /\ refused' = refused
        \/ held' = held /\ asked' = asked /\ refused \subseteq refused'
    BY <1>7 DEF Up, Lift, LiftRefused
  <2>9. QED  BY <2>6, <2>7, <2>8
<1>8. ASSUME Reply PROVE  AccountOK'
  <2>1. UNCHANGED <<held, owed, asked, refused, acquired, inner, switches, fail>> /\ pc = "letgo" /\ acquired = {}
    BY <1>8 DEF Reply, tables, call, past, counts
  <2>2. fail # "exit" => inner = <<>>
    BY <2>1 DEF PlacesOK
  <2>3. QED  BY <2>1, <2>2, ToSetEmpty, SameAccounts DEF AccountOK, InHand
<1>9. ASSUME Stroke PROVE  AccountOK'
  <2>1. UNCHANGED <<held, owed, asked, refused, acquired, inner>> /\ pc # "idle" /\ pc' # "idle"
    BY <1>9 DEF Stroke, tables, past, counts
  <2>2. switches' = switches /\ fail' = fail /\ pc \notin {"close", "last unmap", "ended"}
    BY <1>9 DEF Stroke, tables, past, counts
  <2>3. QED  BY <2>1, <2>2, SameAccount
<1>10. ASSUME MapScratch PROVE  AccountOK'
  <2>1. UNCHANGED <<held, owed, asked, refused, acquired, inner>> /\ pc # "idle" /\ pc' # "idle"
    BY <1>10 DEF MapScratch, past, counts
  <2>2. switches' = switches /\ fail' = fail /\ pc \notin {"close", "last unmap", "ended"}
    BY <1>10 DEF MapScratch, past, counts
  <2>3. QED  BY <2>1, <2>2, SameAccount
<1>11. ASSUME PressNext PROVE  AccountOK'
  <2>1. UNCHANGED <<owed, asked, refused, acquired, switches>> /\ pc = "press" /\ pc' \in {"press", "lift"} /\ fail = "no"
    BY <1>11 DEF PressNext, PressFails, Refuse, Signal, counts, PlacesOK
  <2>2. Head(queue) \in Inputs
    BY <1>11 DEF PressNext, DriverTypes, SeqTypes
  <2>3. \/ held' = held \union {Head(queue)} /\ inner' = Append(inner, Head(queue))
        \/ held' = held /\ inner' = inner
    BY <1>11 DEF PressNext, Press
  <2>4. \/ ToSet(inner') = ToSet(inner) /\ held' = held
        \/ ToSet(inner') = ToSet(inner) \union {Head(queue)} /\ held' = held \union {Head(queue)}
    <3>1. ToSet(Append(inner, Head(queue))) = ToSet(inner) \union {Head(queue)}
      BY <2>2, ToSetAppend DEF DriverTypes, SeqTypes
    <3>2. QED  BY <2>3, <3>1
  <2>5. QED  BY <2>1, <2>4, SameAccounts DEF AccountOK, InHand
<1>12. ASSUME Pressed PROVE  AccountOK'
  <2>1. UNCHANGED <<held, owed, asked, refused, acquired, inner>> /\ pc # "idle" /\ pc' # "idle"
    BY <1>12 DEF Pressed, tables, call, past, counts
  <2>2. switches' = switches /\ fail' = fail /\ pc \notin {"close", "last unmap", "ended"}
    BY <1>12 DEF Pressed, tables, call, past, counts
  <2>3. QED  BY <2>1, <2>2, SameAccount
<1>13. ASSUME LiftNext PROVE  AccountOK'
  <2>1. UNCHANGED <<owed, asked, acquired, switches>> /\ pc = "lift" /\ pc' = "lift" /\ (fail' # "exit" => fail # "exit")
    BY <1>13 DEF LiftNext, Refuse, counts
  <2>2. \/ held' = held \ {Last(inner)} /\ inner' = Front(inner) /\ refused' = refused
        \/ held' = held /\ inner' = <<>> /\ refused' = refused \union ToSet(inner)
    BY <1>13 DEF LiftNext, Lift
  <2>3. ToSet(inner) = ToSet(Front(inner)) \union {Last(inner)}
    BY <1>13, ToSetFront DEF LiftNext, DriverTypes, SeqTypes
  <2>4. QED  BY <2>1, <2>2, <2>3, ToSetEmpty, SameAccounts DEF AccountOK, InHand
<1>14. ASSUME Lifted PROVE  AccountOK'
  <2>1. UNCHANGED <<held, owed, asked, refused, acquired, inner>> /\ pc # "idle" /\ pc' # "idle"
    BY <1>14 DEF Lifted, tables, call, past, counts
  <2>2. switches' = switches /\ fail' = fail /\ pc \notin {"close", "last unmap", "ended"}
    BY <1>14 DEF Lifted, tables, call, past, counts
  <2>3. QED  BY <2>1, <2>2, SameAccount
<1>15. ASSUME Stroked PROVE  AccountOK'
  <2>1. UNCHANGED <<held, owed, asked, refused, acquired, inner>> /\ pc # "idle" /\ pc' # "idle"
    BY <1>15 DEF Stroked, tables, call, past, counts
  <2>2. switches' = switches /\ fail' = fail /\ pc \notin {"close", "last unmap", "ended"}
    BY <1>15 DEF Stroked, tables, call, past, counts
  <2>3. QED  BY <2>1, <2>2, SameAccount
<1>16. ASSUME Restore PROVE  AccountOK'
  <2>1. UNCHANGED <<held, owed, asked, refused, acquired, inner>> /\ pc # "idle" /\ pc' # "idle"
    BY <1>16 DEF Restore, call, past, counts
  <2>2. switches' = switches /\ fail' = fail /\ pc \notin {"close", "last unmap", "ended"}
    BY <1>16 DEF Restore, call, past, counts
  <2>3. QED  BY <2>1, <2>2, SameAccount
<1>17. ASSUME Unmap PROVE  AccountOK'
  <2>1. UNCHANGED <<held, owed, asked, refused, acquired, inner, switches, fail>> /\ pc # "idle"
    BY <1>17 DEF Unmap, tables, call, past, counts
  <2>2. (pc = "unmap" /\ pc' = "letgo") \/ pc' = "ended"
    BY <1>17 DEF Unmap
  <2>3. QED  BY <2>1, <2>2, SameAccount DEF AccountOK
<1>18. ASSUME Released PROVE  AccountOK'
  BY <1>18 DEF Released, AccountOK
<1>19. ASSUME Interrupt PROVE  AccountOK'
  <2>1. fail' = "exit"
    BY <1>19, InterruptGoes DEF DriverTypes
  <2>2. QED  BY <2>1 DEF AccountOK
<1>20. ASSUME EndOfInput PROVE  AccountOK'
  BY <1>20 DEF EndOfInput, AccountOK
<1>21. ASSUME SwitchLayout PROVE  AccountOK'
  <2>1. switches' # 0
    BY <1>21 DEF SwitchLayout, DriverTypes, CountTypes
  <2>2. QED  BY <2>1 DEF AccountOK
<1>22. CASE UNCHANGED inputVars
  BY <1>22 DEF inputVars, AccountOK, InHand, Accounted, Owed, server, tables, call, past, counts
<1>23. QED  BY <1>1, <1>2, <1>3, <1>4, <1>5, <1>6, <1>7, <1>8, <1>9, <1>10, <1>11, <1>12, <1>13, <1>14, <1>15,
               <1>16, <1>17, <1>18, <1>19, <1>20, <1>21, <1>22 DEF InputNext, InputServe

\* The scratch keycode is down only within its stroke.
LEMMA ScratchStep ==
  ASSUME DriverTypes, PlacesOK, ScratchOK, [InputNext]_inputVars
  PROVE  ScratchOK'
<1>1. ASSUME NEW r \in Requests, Ask(r) PROVE  ScratchOK'
  BY <1>1, X11InputAssumption DEF Ask, Requests, ScratchOK, server, tables, call, past, counts
<1>2. ASSUME NEW m \in Mods, Hold(m) PROVE  ScratchOK'
  <2>1. m # Scratch /\ pc \notin {"press", "lift"} /\ (signals' = 0 => signals = 0)
    BY <1>2, X11InputAssumption DEF Hold, PressFails, Refuse, Signal, counts, DriverTypes, CountTypes
  <2>2. held' \in {held, held \union {m}} /\ refused' = refused
    BY <1>2 DEF Hold, Press
  <2>3. QED  BY <2>1, <2>2 DEF ScratchOK
<1>3. ASSUME NEW m \in Mods, LetGo(m) PROVE  ScratchOK'
  BY <1>3, X11InputAssumption DEF LetGo, Lift, LiftRefused, Refuse, Calm, ScratchOK, server, tables, call,
     past, counts
<1>4. ASSUME NEW i \in Inputs, ReleaseOne(i) PROVE  ScratchOK'
  BY <1>4, X11InputAssumption DEF ReleaseOne, Lift, LiftRefused, Refuse, Calm, ScratchOK, server, tables, call,
     past, counts
<1>5. ASSUME Holding PROVE  ScratchOK'
  BY <1>5, X11InputAssumption DEF Holding, ScratchOK, server, tables, call, past, counts
<1>6. ASSUME Down PROVE  ScratchOK'
  <2>1. Main # Scratch /\ pc = "main" /\ (signals' = 0 => signals = 0)
    BY <1>6, X11InputAssumption DEF Down, PressFails, Refuse, Signal, counts, DriverTypes, CountTypes, ItemsOK
  <2>2. held' \in {held, held \union {Main}} /\ refused' = refused
    BY <1>6 DEF Down, Press
  <2>3. QED  BY <2>1, <2>2 DEF ScratchOK
<1>7. ASSUME Up PROVE  ScratchOK'
  <2>1. pc = "main" /\ held' \subseteq held /\ refused \subseteq refused' /\ (signals' = 0 => signals = 0)
    BY <1>7 DEF Up, Lift, LiftRefused, Refuse, Signal, counts, DriverTypes, CountTypes
  <2>2. QED  BY <2>1 DEF ScratchOK
<1>8. ASSUME Reply PROVE  ScratchOK'
  BY <1>8, X11InputAssumption DEF Reply, ScratchOK, server, tables, call, past, counts
<1>9. ASSUME Stroke PROVE  ScratchOK'
  BY <1>9, X11InputAssumption DEF Stroke, ScratchOK, server, tables, call, past, counts
<1>10. ASSUME MapScratch PROVE  ScratchOK'
  BY <1>10, X11InputAssumption DEF MapScratch, ScratchOK, server, tables, call, past, counts
<1>11. ASSUME PressNext PROVE  ScratchOK'
  <2>1. pc = "press" /\ pc' \in {"press", "lift"} /\ refused' = refused /\ (signals' = 0 => signals = 0)
    BY <1>11 DEF PressNext, PressFails, Refuse, Signal, counts, DriverTypes, CountTypes
  <2>2. Head(queue) \in Inputs
    BY <1>11 DEF PressNext, DriverTypes, SeqTypes
  <2>3. \/ held' = held \union {Head(queue)} /\ inner' = Append(inner, Head(queue))
        \/ held' = held /\ inner' = inner
    BY <1>11 DEF PressNext, Press
  <2>4. \/ ToSet(inner') = ToSet(inner) /\ held' = held
        \/ ToSet(inner') = ToSet(inner) \union {Head(queue)} /\ held' = held \union {Head(queue)}
    <3>1. ToSet(Append(inner, Head(queue))) = ToSet(inner) \union {Head(queue)}
      BY <2>2, ToSetAppend DEF DriverTypes, SeqTypes
    <3>2. QED  BY <2>3, <3>1
  <2>5. QED  BY <2>1, <2>4 DEF ScratchOK
<1>12. ASSUME Pressed PROVE  ScratchOK'
  BY <1>12, X11InputAssumption DEF Pressed, ScratchOK, server, tables, call, past, counts
<1>13. ASSUME LiftNext PROVE  ScratchOK'
  <2>1. pc = "lift" /\ pc' = "lift" /\ signals' = signals
    BY <1>13 DEF LiftNext, Refuse, counts
  <2>2. \/ held' = held \ {Last(inner)} /\ inner' = Front(inner) /\ refused' = refused
        \/ held' = held /\ inner' = <<>> /\ refused' = refused \union ToSet(inner)
    BY <1>13 DEF LiftNext, Lift
  <2>3. ToSet(inner) = ToSet(Front(inner)) \union {Last(inner)}
    BY <1>13, ToSetFront DEF LiftNext, DriverTypes, SeqTypes
  <2>4. QED  BY <2>1, <2>2, <2>3 DEF ScratchOK
<1>14. ASSUME Lifted PROVE  ScratchOK'
  <2>1. ToSet(inner) = {} /\ UNCHANGED <<held, signals, refused>>
    BY <1>14, ToSetEmpty DEF Lifted, tables, past, counts
  <2>2. QED  BY <2>1 DEF ScratchOK
<1>15. ASSUME Stroked PROVE  ScratchOK'
  BY <1>15, X11InputAssumption DEF Stroked, ScratchOK, server, tables, call, past, counts
<1>16. ASSUME Restore PROVE  ScratchOK'
  BY <1>16, X11InputAssumption DEF Restore, ScratchOK, server, tables, call, past, counts
<1>17. ASSUME Unmap PROVE  ScratchOK'
  BY <1>17, X11InputAssumption DEF Unmap, ScratchOK, server, tables, call, past, counts
<1>18. ASSUME Released PROVE  ScratchOK'
  BY <1>18, X11InputAssumption DEF Released, ScratchOK, server, tables, call, past, counts
<1>19. ASSUME Interrupt PROVE  ScratchOK'
  <2>1. signals' = signals + 1
    BY <1>19, InterruptGoes DEF DriverTypes
  <2>2. signals' # 0
    BY <2>1 DEF DriverTypes, CountTypes
  <2>3. QED  BY <2>2 DEF ScratchOK
<1>20. ASSUME EndOfInput PROVE  ScratchOK'
  BY <1>20, X11InputAssumption DEF EndOfInput, ScratchOK, server, tables, call, past, counts
<1>21. ASSUME SwitchLayout PROVE  ScratchOK'
  BY <1>21, X11InputAssumption DEF SwitchLayout, Calm, ScratchOK, server, tables, call, past, counts
<1>22. CASE UNCHANGED inputVars
  BY <1>22 DEF inputVars, ScratchOK, server, tables, call, past, counts
<1>23. QED  BY <1>1, <1>2, <1>3, <1>4, <1>5, <1>6, <1>7, <1>8, <1>9, <1>10, <1>11, <1>12, <1>13, <1>14, <1>15,
               <1>16, <1>17, <1>18, <1>19, <1>20, <1>21, <1>22 DEF InputNext, InputServe


\* The invariant holds at first, and every step keeps it.
LEMMA InputInitInv ==
  ASSUME InputInit  PROVE  DriverInv
<1>1. SetTypes
  BY X11InputAssumption DEF InputInit, SetTypes
<1>2. CountTypes
  BY X11InputAssumption DEF InputInit, CountTypes
<1>3. SeqTypes /\ request.kind \notin Strokes
  <2>1. <<>> \in Seq(Inputs) /\ <<>> \in Seq(Chars \union Buttons)
    OBVIOUS
  <2>2. request = [kind |-> "none", items |-> <<>>, mods |-> {}] /\ queue = <<>> /\ inner = <<>>
    BY DEF InputInit, None
  <2>3. QED  BY <2>1, <2>2 DEF SeqTypes, Strokes
<1>4. ItemsOK /\ PlacesOK /\ MappingOK /\ RecordOK /\ ScratchOK
  BY DEF InputInit, ItemsOK, PlacesOK, MappingOK, RecordOK, ScratchOK
<1>5. LayoutOK /\ AccountOK
  BY DEF InputInit, LayoutOK, AccountOK
<1>6. QED  BY <1>1, <1>2, <1>3, <1>4, <1>5 DEF DriverInv, DriverTypes

LEMMA InputStepInv ==
  ASSUME DriverInv, [InputNext]_inputVars  PROVE  DriverInv'
<1>1. DriverTypes'
  BY SetStep, CountStep, SeqStep, ItemsStep DEF DriverInv, DriverTypes
<1>2. PlacesOK' /\ MappingOK' /\ RecordOK'
  BY PlacesStep, MappingStep, RecordStep DEF DriverInv, DriverTypes
<1>3. LayoutOK' /\ AccountOK' /\ ScratchOK'
  BY LayoutStep, AccountStep, ScratchStep DEF DriverInv
<1>4. QED  BY <1>1, <1>2, <1>3 DEF DriverInv

\* What the invariant says of the types, between two requests and at the end.
LEMMA DriverIsTyped ==
  ASSUME DriverInv  PROVE  InputTypeOK
<1>1. ToSet(queue) \union ToSet(inner) \subseteq Inputs
  BY DEF DriverInv, DriverTypes, SeqTypes, ToSet
<1>2. refusals + signals + switches \in 0..Upsets /\ asks \in 0..Asks
  BY X11InputAssumption DEF DriverInv, DriverTypes, CountTypes
<1>3. QED  BY <1>1, <1>2 DEF DriverInv, DriverTypes, SetTypes, InputTypeOK

LEMMA DriverIsSafe ==
  ASSUME DriverInv  PROVE  InputSafe
<1>1. HeldIsAskedFor
  <2>1. pc = "idle" /\ switches = 0 => fail # "exit" /\ InHand = {}
    BY DEF DriverInv, PlacesOK, InHand
  <2>2. QED  BY <2>1 DEF DriverInv, AccountOK, HeldIsAskedFor
<1>2. HeldIsDown
  BY DEF DriverInv, RecordOK, HeldIsDown
<1>3. MappingIsRestored
  BY DEF DriverInv, PlacesOK, MappingOK, MappingIsRestored
<1>4. EndReleasesAll
  BY DEF DriverInv, RecordOK, MappingOK, EndReleasesAll
<1>5. QED  BY <1>1, <1>2, <1>3, <1>4, DriverIsTyped DEF InputSafe

\* The inductive invariant holds in every run.
THEOREM DriverInvariant == InputSpec => []DriverInv
<1>1. InputInit => DriverInv
  BY InputInitInv
<1>2. DriverInv /\ [InputNext]_inputVars => DriverInv'
  BY InputStepInv
<1>3. QED  BY <1>1, <1>2, PTL DEF InputSpec

\* The state of the X11 driver is well typed, whatever the keys, layouts, texts and bounds.
THEOREM InputTypesHold == InputSpec => []InputTypeOK
<1>1. DriverInv => InputTypeOK
  BY DriverIsTyped
<1>2. QED  BY <1>1, DriverInvariant, PTL

\* Whatever the server refuses, wherever a signal cuts in and however key_down and key_up are
\* paired: between two requests nothing is held that was not asked for, what is down is
\* remembered, the keyboard mapping is the user's own, and the end releases everything.
THEOREM InputIsSafe == InputSpec => []InputSafe
<1>1. DriverInv => InputSafe
  BY DriverIsSafe
<1>2. QED  BY <1>1, DriverInvariant, PTL

\* The scratch keycode is never remapped while it is down, except when a signal or a refused
\* release has cut its stroke short.
THEOREM KeysKeepTheirMeaning == InputSpec => RemapsReleasedKeys
<1>1. ASSUME DriverInv, [InputNext]_inputVars, mapped' # mapped, signals' = 0, refused' = {}
      PROVE  Scratch \notin down'
  <2>1. MapScratch \/ Unmap
    BY <1>1 DEF InputNext, InputServe, inputVars, server, tables, past, counts, Ask, Holding, Down, Up, Reply,
       Stroke, PressNext,
                Pressed, LiftNext, Lifted, Stroked, Restore, Released, Hold, LetGo, ReleaseOne, Interrupt, EndOfInput, SwitchLayout
  <2>2. signals = 0 /\ refused = {} /\ down' = down /\ pc \notin {"press", "lift"}
    BY <1>1, <2>1 DEF MapScratch, Unmap, past, counts
  <2>3. ~torn
    BY <1>1, <2>2 DEF DriverInv, PlacesOK
  <2>4. QED  BY <1>1, <2>2, <2>3 DEF DriverInv, RecordOK, ScratchOK
<1>2. DriverInv /\ [InputNext]_inputVars =>
        [mapped' # mapped /\ signals' = 0 /\ refused' = {} => Scratch \notin down']_inputVars
  BY <1>1
<1>3. QED  BY <1>2, DriverInvariant, PTL DEF InputSpec, RemapsReleasedKeys


-----------------------------------------------------------------------------
(* Portal: the inductive invariant.                                         *)

\* Where an attempt at a session is, and where a request is at work.
Attempts == {"create", "creating", "consent", "asking", "forget", "drop", "save"}
Works == {"run", "undo", "undone"}

\* The types of the session, of the keys and of the request.
SessionTypes ==
    /\ {disk, token} \subseteq {"none", "good", "spent"} /\ session \in {"none", "open", "gone"}
    /\ {started, closed, failed, streams, cancelled, spared, stop} \subseteq BOOLEAN
    /\ err \in {"no", "input", "fatal", "cancelled", "other"}
    /\ prompts \in [saved : 0..1, normal : 0..1]
    /\ portalPc \in Attempts \union Works \union {"idle", "start", "open", "frame", "fail", "close", "end", "ended"}

KeyTypes ==
    /\ portalHeld \subseteq Items /\ touches \subseteq Slots /\ portalOwed \in [Items -> SUBSET Modifiers]
    /\ pressed \subseteq [item : Items \union Slots, code : BOOLEAN] /\ portalAcquired \subseteq Modifiers
    /\ crossed \in BOOLEAN /\ portalAsked \subseteq Items
    /\ portalRequest \in PortalRequests \union {Nothing}
    /\ portalPc \in Works => portalRequest \in PortalRequests /\ portalRequest.kind # "capture"
    /\ portalPc \in Works /\ portalRequest.kind \in PortalUps => portalAcquired = {}

\* A session is given up for a cause, and no step of an attempt works on one that was.
CauseOK ==
    /\ closed => stop \/ failed \/ session = "gone"
    /\ closed => started \/ failed \/ portalPc = "ended"
    /\ portalPc \in {"close", "end"} => stop \/ failed
    /\ portalPc \in (Attempts \ {"creating", "asking"}) \union {"open"} => ~closed
    /\ portalPc \in Attempts \union {"start", "open", "frame"} => ~failed
    /\ ~started => streams = FALSE /\ session = "none"
    /\ portalPc = "ended" => session # "open" /\ pressed = {} /\ ~streams

\* An attempt has one token, that on the disk, and a dialog without one is the last.
AttemptOK ==
    /\ ~started => ~cancelled /\ prompts = [saved |-> 0, normal |-> 0]
    /\ portalPc \in Attempts \ {"asking", "save"} => prompts.normal = 0
    /\ portalPc \in Attempts \union {"open"} => started /\ ~streams
    /\ portalPc = "asking" /\ token # "none" => prompts.normal = 0
    /\ portalPc \in {"create", "creating", "consent"} /\ token # "none" => prompts.saved = 0
    /\ portalPc \in {"create", "creating", "consent", "asking", "drop"} => ~cancelled
    /\ portalPc = "forget" /\ cancelled => err = "cancelled"
    /\ portalPc = "drop" => token = "none"

\* A token that is spent or was rejected is on its way out, or the run has failed.
DiskOK ==
    ~spared =>
        /\ portalPc \in Attempts \ {"drop"} => disk = token
        /\ portalPc = "drop" => disk = "none"
        /\ disk = "spent" => ~streams /\ prompts.normal = 0 /\ portalPc # "open" /\ (cancelled => portalPc = "forget")
        /\ disk = "spent" /\ started => failed \/ portalPc \in Attempts \union {"fail"}

Steps == [op : {"press", "lift", "touch", "move"}, item : Items \union Slots \union {"on", "off"}]

\* The plan, from its end: what its request sends last, and before that modifiers or contacts.
LastOf(r) ==
    CASE r.kind = "key" -> <<Do("press", r.item), Do("lift", r.item)>>
      [] r.kind = "key_down" -> <<Do("press", r.item)>>
      [] r.kind = "key_up" -> <<Do("lift", r.item)>>
      [] r.kind = "click" -> <<Move(r.off), Do("press", r.item), Do("lift", r.item)>>
      [] r.kind = "drag" -> <<Move(FALSE), Do("press", r.item), Move(r.off), Do("lift", r.item)>>
      [] r.kind = "mouse_down" -> <<Move(r.off), Do("press", r.item)>>
      [] r.kind = "mouse_up" -> <<Move(r.off), Do("lift", r.item)>>
      [] OTHER -> <<Move(r.off)>>
Before(r, S) == IF r.kind = "touch" THEN {Do("touch", x) : x \in Slots} ELSE {Do("press", x) : x \in S}
Follows(s, r, S) ==
    /\ s \in Seq(Steps)
    /\ \A i \in 1..Len(s) :
          IF Len(s) - i < Len(LastOf(r)) THEN s[i] = LastOf(r)[Len(LastOf(r)) - (Len(s) - i)]
          ELSE s[i] \in Before(r, S)
PlanOK == portalPc = "run" => Follows(plan, portalRequest, portalAcquired)

\* The key or button that the request in hand has pressed and is about to release or to remember.
InHandOf(kind, length) ==
    \/ kind = "drag"
    \/ kind \in {"key", "click"} /\ length = 1
    \/ kind \in {"key_down", "mouse_down"} /\ length = 0

Owing == portalAsked \union UNION {portalOwed[i] : i \in Items}

\* What is held is owed, or in the hands of the request.
OwingOK ==
    /\ portalPc \notin Works \union {"fail", "close", "end", "ended"} /\ ~closed =>
           touches = {} /\ portalHeld \subseteq Owing
    /\ portalPc \in Works /\ portalRequest.kind # "touch" => touches = {}
    /\ portalPc = "run" =>
           portalHeld \subseteq Owing \union portalAcquired
               \union {x \in {portalRequest.item} : InHandOf(portalRequest.kind, Len(plan))}
    /\ portalPc = "undo" /\ err # "fatal" =>
           portalHeld \subseteq Owing \union portalAcquired \union {x \in {portalRequest.item} : portalRequest.kind = "drag"}
    /\ portalPc = "undone" => err = "fatal"

\* The compositor has what is held, each key as it is sent under the modifiers held now.
PressedOK == ~crossed /\ ~closed => pressed = {Event(x) : x \in portalHeld \union touches}

PortalInv ==
    SessionTypes /\ KeyTypes /\ CauseOK /\ AttemptOK /\ DiskOK /\ PlanOK /\ OwingOK /\ PressedOK

-----------------------------------------------------------------------------
(* What a plan sends next.                                                  *)

\* The elements of a finite set in some order.
LEMMA InOrder ==
  ASSUME NEW S, IsFiniteSet(S)  PROVE  SetToSeq(S) \in Seq(S)
<1>1. Cardinality(S) \in Nat /\ ExistsBijection(1..Cardinality(S), S)
  BY FS_CardinalityType
<1>2. \E f \in [1..Cardinality(S) -> S] : IsInjective(f)
  BY <1>1 DEF ExistsBijection, Bijection, Injection, IsInjective
<1>3. SetToSeq(S) \in [1..Cardinality(S) -> S]
  BY <1>2 DEF SetToSeq
<1>4. QED  BY <1>1, <1>3

\* A plan is done from its head on.
LEMMA FollowsTail ==
  ASSUME NEW s, NEW r, NEW S, Follows(s, r, S), s # <<>>, Len(LastOf(r)) \in Nat
  PROVE  /\ Follows(Tail(s), r, S) /\ Len(Tail(s)) = Len(s) - 1 /\ Len(s) \in Nat \ {0}
         /\ IF Len(s) <= Len(LastOf(r)) THEN Head(s) = LastOf(r)[Len(LastOf(r)) - Len(s) + 1]
            ELSE Head(s) \in Before(r, S)
<1>1. s \in Seq(Steps)
  BY DEF Follows
<1>2. Len(s) \in Nat \ {0} /\ Tail(s) \in Seq(Steps) /\ Len(Tail(s)) = Len(s) - 1 /\ Head(s) = s[1]
  BY <1>1
<1>3. \A i \in 1..Len(Tail(s)) : Tail(s)[i] = s[i + 1] /\ i + 1 \in 1..Len(s) /\ Len(Tail(s)) - i = Len(s) - (i + 1)
  BY <1>1, <1>2
<1>4. \A i \in 1..Len(s) :
          IF Len(s) - i < Len(LastOf(r)) THEN s[i] = LastOf(r)[Len(LastOf(r)) - (Len(s) - i)]
          ELSE s[i] \in Before(r, S)
  BY DEF Follows
<1>5. Follows(Tail(s), r, S)
  <2> SUFFICES ASSUME NEW i \in 1..Len(Tail(s))
      PROVE  IF Len(Tail(s)) - i < Len(LastOf(r)) THEN Tail(s)[i] = LastOf(r)[Len(LastOf(r)) - (Len(Tail(s)) - i)]
             ELSE Tail(s)[i] \in Before(r, S)
    BY <1>2 DEF Follows
  <2>1. Tail(s)[i] = s[i + 1] /\ i + 1 \in 1..Len(s) /\ Len(Tail(s)) - i = Len(s) - (i + 1)
    BY <1>3
  <2>2. QED  BY <1>4, <2>1
<1>6. IF Len(s) <= Len(LastOf(r)) THEN s[1] = LastOf(r)[Len(LastOf(r)) - Len(s) + 1] ELSE s[1] \in Before(r, S)
  <2>1. 1 \in 1..Len(s) /\ (Len(s) - 1 < Len(LastOf(r)) <=> Len(s) <= Len(LastOf(r)))
        /\ Len(LastOf(r)) - (Len(s) - 1) = Len(LastOf(r)) - Len(s) + 1
    BY <1>2
  <2>2. QED  BY <1>4, <2>1
<1>7. QED  BY <1>2, <1>5, <1>6

\* A move is on a monitor or off all of them.
LEMMA MoveIs ==
  ASSUME NEW off \in BOOLEAN  PROVE  Move(off) \in {Move(TRUE), Move(FALSE)}
<1>1. CASE off
  BY <1>1 DEF Move
<1>2. CASE ~off
  BY <1>2 DEF Move
<1>3. QED  BY <1>1, <1>2

\* The last steps of the kinds of requests.
LEMMA LastOfKinds ==
  ASSUME NEW r \in PortalRequests, r.kind # "capture"
  PROVE  /\ Len(LastOf(r)) \in Nat
         /\ LastOf(r) \in Seq(Steps)
         /\ r.kind # "touch" => r.item \in Items
         /\ r.kind = "key" => LastOf(r) = <<Do("press", r.item), Do("lift", r.item)>>
         /\ r.kind = "key_down" => LastOf(r) = <<Do("press", r.item)>>
         /\ r.kind = "key_up" => LastOf(r) = <<Do("lift", r.item)>>
         /\ r.kind = "click" => LastOf(r) = <<Move(r.off), Do("press", r.item), Do("lift", r.item)>>
         /\ r.kind = "drag" => LastOf(r) = <<Move(FALSE), Do("press", r.item), Move(r.off), Do("lift", r.item)>>
         /\ r.kind = "mouse_down" => LastOf(r) = <<Move(r.off), Do("press", r.item)>>
         /\ r.kind = "mouse_up" => LastOf(r) = <<Move(r.off), Do("lift", r.item)>>
         /\ r.kind = "touch" => LastOf(r) = <<Move(r.off)>>
         /\ r.kind \in {"key", "key_down", "key_up", "click", "drag", "mouse_down", "mouse_up", "touch"}
         /\ r.mods \subseteq Modifiers /\ r.off \in BOOLEAN
<1>1. r.kind \in {"key", "key_down", "key_up", "click", "drag", "mouse_down", "mouse_up", "touch"}
      /\ (r.kind # "touch" => r.item \in Items) /\ r.mods \subseteq Modifiers /\ r.off \in BOOLEAN
  BY DEF PortalRequests, Items
<1>2. Move(r.off) \in Steps /\ Move(FALSE) \in Steps
  BY DEF Move, Do, Steps
<1>3. r.kind # "touch" => Do("press", r.item) \in Steps /\ Do("lift", r.item) \in Steps
  BY <1>1 DEF Do, Steps
<1>4. CASE r.kind = "key"
  BY <1>1, <1>3, <1>4 DEF LastOf
<1>5. CASE r.kind = "key_down"
  BY <1>1, <1>3, <1>5 DEF LastOf
<1>6. CASE r.kind = "key_up"
  BY <1>1, <1>3, <1>6 DEF LastOf
<1>7. CASE r.kind = "click"
  BY <1>1, <1>2, <1>3, <1>7 DEF LastOf
<1>8. CASE r.kind = "drag"
  <2>1. LastOf(r) = <<Move(FALSE), Do("press", r.item), Move(r.off), Do("lift", r.item)>>
    BY <1>8 DEF LastOf
  <2>2. \A a, b, c, d \in Steps : <<a, b, c, d>> \in Seq(Steps) /\ Len(<<a, b, c, d>>) = 4
    OBVIOUS
  <2>3. LastOf(r) \in Seq(Steps) /\ Len(LastOf(r)) \in Nat
    BY <1>1, <1>2, <1>3, <1>8, <2>1, <2>2
  <2>4. QED  BY <1>1, <1>8, <2>1, <2>3
<1>9. CASE r.kind = "mouse_down"
  BY <1>1, <1>2, <1>3, <1>9 DEF LastOf
<1>10. CASE r.kind = "mouse_up"
  BY <1>1, <1>2, <1>3, <1>10 DEF LastOf
<1>11. CASE r.kind = "touch"
  BY <1>1, <1>2, <1>11 DEF LastOf
<1>12. QED  BY <1>1, <1>4, <1>5, <1>6, <1>7, <1>8, <1>9, <1>10, <1>11

\* A plan that begins with modifiers or contacts and ends as its kind does.
LEMMA FollowsJoined ==
  ASSUME NEW r \in PortalRequests, r.kind # "capture", NEW S,
         NEW p \in Seq(Steps),
         \A i \in 1..Len(p) : p[i] \in Before(r, S)
  PROVE  Follows(p \o LastOf(r), r, S)
<1> DEFINE t == LastOf(r)
           s == p \o t
<1>1. t \in Seq(Steps) /\ Len(t) \in Nat
  BY LastOfKinds
<1> HIDE DEF t
<1>2. s \in Seq(Steps) /\ Len(s) = Len(p) + Len(t)
  BY <1>1
<1>6. Len(p) \in Nat
  OBVIOUS
<1>3. \A i \in 1..Len(s) : s[i] = IF i <= Len(p) THEN p[i] ELSE t[i - Len(p)]
  BY <1>1, <1>2, <1>6
<1>4. \A i \in 1..Len(s) : IF Len(s) - i < Len(t) THEN s[i] = t[Len(t) - (Len(s) - i)] ELSE s[i] \in Before(r, S)
  <2> SUFFICES ASSUME NEW i \in 1..Len(s)
      PROVE  IF Len(s) - i < Len(t) THEN s[i] = t[Len(t) - (Len(s) - i)] ELSE s[i] \in Before(r, S)
    OBVIOUS
  <2>1. CASE i <= Len(p)
    BY <1>1, <1>2, <1>3, <1>6, <2>1
  <2>2. CASE i > Len(p)
    <3>1. i - Len(p) = Len(t) - (Len(s) - i) /\ Len(s) - i < Len(t)
      BY <1>1, <1>2, <1>6, <2>2
    <3>2. s[i] = t[i - Len(p)]
      BY <1>1, <1>3, <1>6, <2>2
    <3>3. QED  BY <3>1, <3>2
  <2>3. QED  BY <1>6, <2>1, <2>2
<1>5. QED  BY <1>2, <1>4 DEF Follows, t

\* The presses of a set of modifiers, the touches of all contacts.
LEMMA PressesAll ==
  ASSUME NEW S \in SUBSET Modifiers
  PROVE  /\ Presses(S) \in Seq(Steps)
         /\ \A i \in 1..Len(Presses(S)) : Presses(S)[i] \in {Do("press", x) : x \in S}
<1> DEFINE row == SetToSeq(S)
<1>1. IsFiniteSet(S)
  BY FS_Subset, PortalAssumption
<1>2. row \in Seq(S)
  BY <1>1, InOrder
<1> HIDE DEF row
<1>3. Presses(S) = [i \in DOMAIN row |-> Do("press", row[i])]
  BY DEF Presses, row
<1>4. DOMAIN row = 1..Len(row) /\ Len(row) \in Nat /\ \A i \in 1..Len(row) : row[i] \in S
  BY <1>2
<1>5. \A i \in 1..Len(row) : Do("press", row[i]) \in Steps
  BY <1>4 DEF Do, Items, Steps
<1>6. QED  BY <1>3, <1>4, <1>5

LEMMA ContactsAll ==
  /\ Contacts("touch") \in Seq(Steps)
  /\ \A i \in 1..Len(Contacts("touch")) : Contacts("touch")[i] \in {Do("touch", x) : x \in Slots}
<1> DEFINE row == SetToSeq(Slots)
<1>1. row \in Seq(Slots)
  BY PortalAssumption, InOrder
<1> HIDE DEF row
<1>2. Contacts("touch") = [i \in DOMAIN row |-> Do("touch", row[i])]
  BY DEF Contacts, row
<1>3. DOMAIN row = 1..Len(row) /\ Len(row) \in Nat /\ \A i \in 1..Len(row) : row[i] \in Slots
  BY <1>1
<1>4. \A i \in 1..Len(row) : Do("touch", row[i]) \in Steps
  BY <1>3 DEF Do, Steps
<1>5. QED  BY <1>2, <1>3, <1>4

\* What dispatch plans for a request.
LEMMA PlanFollows ==
  ASSUME NEW r \in PortalRequests, r.kind # "capture"
  PROVE  Follows(Plan(r), r, IF r.kind \in {"key_up", "mouse_up"} THEN {} ELSE r.mods \ portalHeld)
<1> DEFINE S == r.mods \ portalHeld
<1>1. S \subseteq Modifiers
  BY LastOfKinds
<1>2. Presses(S) \in Seq(Steps) /\ \A i \in 1..Len(Presses(S)) : Presses(S)[i] \in {Do("press", x) : x \in S}
  BY <1>1, PressesAll
<1>3. <<>> \in Seq(Steps) /\ Len(<<>>) = 0
  OBVIOUS
<1>4. CASE r.kind \in {"key", "key_down", "click", "drag", "mouse_down"}
  <2>1. Plan(r) = Presses(S) \o LastOf(r)
    BY <1>4 DEF Plan, LastOf
  <2>2. \A i \in 1..Len(Presses(S)) : Presses(S)[i] \in Before(r, S)
    BY <1>2, <1>4 DEF Before
  <2>3. Follows(Presses(S) \o LastOf(r), r, S)
    BY <1>2, <2>2, FollowsJoined
  <2>4. QED  BY <1>4, <2>1, <2>3
<1>5. CASE r.kind \in {"key_up", "mouse_up"}
  <2>1. Plan(r) = LastOf(r)
    BY <1>5 DEF Plan, LastOf
  <2>2. LastOf(r) = <<>> \o LastOf(r)
    BY LastOfKinds
  <2>3. \A i \in 1..Len(<<>>) : <<>>[i] \in Before(r, {})
    BY <1>3
  <2>4. Follows(<<>> \o LastOf(r), r, {})
    BY <1>3, <2>3, FollowsJoined
  <2>5. QED  BY <1>5, <2>1, <2>2, <2>4
<1>6. CASE r.kind = "touch"
  <2>1. Plan(r) = Contacts("touch") \o LastOf(r)
    BY <1>6 DEF Plan, LastOf
  <2>2. \A i \in 1..Len(Contacts("touch")) : Contacts("touch")[i] \in Before(r, S)
    BY <1>6, ContactsAll DEF Before
  <2>3. Follows(Contacts("touch") \o LastOf(r), r, S)
    BY <2>2, ContactsAll, FollowsJoined
  <2>4. QED  BY <1>6, <2>1, <2>3
<1>7. QED  BY <1>4, <1>5, <1>6, LastOfKinds


\* What the next step of a request does, with n steps left: a modifier or a contact goes
\* down, the request's own key or button goes down or up, or the pointer moves.
ByModifier(r, n, do, S) ==
    /\ \E m \in S : do = Do("press", m)
    /\ r.kind \in {"key", "click"} => n > 2
    /\ r.kind \in {"key_down", "mouse_down"} => n > 1
    /\ r.kind \notin PortalUps /\ r.kind # "touch"
ByContact(r, do) == r.kind = "touch" /\ \E c \in Slots : do = Do("touch", c)
ByPress(r, n, do) ==
    /\ do = Do("press", r.item) /\ r.item \in Items
    /\ \/ r.kind = "drag" \/ (r.kind \in {"key", "click"} /\ n = 2)
       \/ r.kind \in {"key_down", "mouse_down"} /\ n = 1
ByLift(r, n, do) ==
    /\ do = Do("lift", r.item) /\ r.item \in Items
    /\ r.kind = "drag" \/ (r.kind \in {"key", "click"} /\ n = 1) \/ r.kind \in PortalUps
ByMove(r, n, do) ==
    /\ do \in {Move(TRUE), Move(FALSE)}
    /\ r.kind \in {"key", "click"} => n = 3
    /\ r.kind \in {"key_down", "mouse_down"} => n = 2
NextStep(r, n, do, S) ==
    ByModifier(r, n, do, S) \/ ByContact(r, do) \/ ByPress(r, n, do) \/ ByLift(r, n, do) \/ ByMove(r, n, do)

\* The next step of the plan in hand.
LEMMA NextOfPlan ==
  ASSUME KeyTypes, PlanOK, portalPc = "run", plan # <<>>
  PROVE  /\ Follows(Tail(plan), portalRequest, portalAcquired) /\ Len(Tail(plan)) = Len(plan) - 1
         /\ Len(plan) \in Nat \ {0}
         /\ NextStep(portalRequest, Len(plan), Head(plan), portalAcquired)
<1> DEFINE r == portalRequest  n == Len(plan)  do == Head(plan)
<1>1. r \in PortalRequests /\ r.kind # "capture" /\ (r.kind \in PortalUps => portalAcquired = {})
  BY DEF KeyTypes, Works
<1>2. Follows(plan, r, portalAcquired)
  BY DEF PlanOK
<1>3. /\ Follows(Tail(plan), r, portalAcquired) /\ Len(Tail(plan)) = n - 1 /\ n \in Nat \ {0}
      /\ IF n <= Len(LastOf(r)) THEN do = LastOf(r)[Len(LastOf(r)) - n + 1]
         ELSE do \in Before(r, portalAcquired)
  BY <1>1, <1>2, FollowsTail, LastOfKinds
<1>4. Move(r.off) \in {Move(TRUE), Move(FALSE)} /\ (r.kind # "touch" => r.item \in Items)
  BY <1>1, LastOfKinds, MoveIs
<1>5. SUFFICES NextStep(r, n, do, portalAcquired)
  BY <1>3
<1> HIDE DEF n, do
<1>6. CASE r.kind = "key"
  <2>1. LastOf(r) = <<Do("press", r.item), Do("lift", r.item)>>
    BY <1>1, <1>6, LastOfKinds
  <2>2. Len(LastOf(r)) = 2 /\ LastOf(r)[1] = Do("press", r.item) /\ LastOf(r)[2] = Do("lift", r.item)
    BY <2>1
  <2>3. CASE n = 2
    <3>1. n <= Len(LastOf(r)) /\ Len(LastOf(r)) - n + 1 = 1
      BY <2>2, <2>3
    <3>2. do = Do("press", r.item)
      BY <1>3, <2>2, <3>1
    <3>3. ByPress(r, n, do)
      BY <1>4, <1>6, <2>3, <3>2 DEF ByPress, PortalUps
    <3>4. QED  BY <3>3 DEF NextStep
  <2>4. CASE n = 1
    <3>1. n <= Len(LastOf(r)) /\ Len(LastOf(r)) - n + 1 = 2
      BY <2>2, <2>4
    <3>2. do = Do("lift", r.item)
      BY <1>3, <2>2, <3>1
    <3>3. ByLift(r, n, do)
      BY <1>4, <1>6, <2>4, <3>2 DEF ByLift, PortalUps
    <3>4. QED  BY <3>3 DEF NextStep
  <2>5. CASE n > 2
    <3>1. do \in Before(r, portalAcquired)
      BY <1>3, <2>2, <2>5
    <3>2. ByModifier(r, n, do, portalAcquired)
      BY <1>3, <1>6, <2>5, <3>1 DEF Before, ByModifier, PortalUps
    <3>3. QED  BY <3>2 DEF NextStep
  <2>6. QED  BY <1>3, <2>3, <2>4, <2>5
<1>7. CASE r.kind = "click"
  <2>1. LastOf(r) = <<Move(r.off), Do("press", r.item), Do("lift", r.item)>>
    BY <1>1, <1>7, LastOfKinds
  <2>2. Len(LastOf(r)) = 3 /\ LastOf(r)[1] = Move(r.off) /\ LastOf(r)[2] = Do("press", r.item) /\ LastOf(r)[3] = Do("lift", r.item)
    BY <2>1
  <2>3. CASE n = 3
    <3>1. n <= Len(LastOf(r)) /\ Len(LastOf(r)) - n + 1 = 1
      BY <2>2, <2>3
    <3>2. do = Move(r.off)
      BY <1>3, <2>2, <3>1
    <3>3. ByMove(r, n, do)
      BY <1>4, <1>7, <2>3, <3>2 DEF ByMove, PortalUps
    <3>4. QED  BY <3>3 DEF NextStep
  <2>4. CASE n = 2
    <3>1. n <= Len(LastOf(r)) /\ Len(LastOf(r)) - n + 1 = 2
      BY <2>2, <2>4
    <3>2. do = Do("press", r.item)
      BY <1>3, <2>2, <3>1
    <3>3. ByPress(r, n, do)
      BY <1>4, <1>7, <2>4, <3>2 DEF ByPress, PortalUps
    <3>4. QED  BY <3>3 DEF NextStep
  <2>5. CASE n = 1
    <3>1. n <= Len(LastOf(r)) /\ Len(LastOf(r)) - n + 1 = 3
      BY <2>2, <2>5
    <3>2. do = Do("lift", r.item)
      BY <1>3, <2>2, <3>1
    <3>3. ByLift(r, n, do)
      BY <1>4, <1>7, <2>5, <3>2 DEF ByLift, PortalUps
    <3>4. QED  BY <3>3 DEF NextStep
  <2>6. CASE n > 3
    <3>1. do \in Before(r, portalAcquired)
      BY <1>3, <2>2, <2>6
    <3>2. ByModifier(r, n, do, portalAcquired)
      BY <1>3, <1>7, <2>6, <3>1 DEF Before, ByModifier, PortalUps
    <3>3. QED  BY <3>2 DEF NextStep
  <2>7. QED  BY <1>3, <2>3, <2>4, <2>5, <2>6
<1>8. CASE r.kind = "drag"
  <2>1. LastOf(r) = <<Move(FALSE), Do("press", r.item), Move(r.off), Do("lift", r.item)>>
    BY <1>1, <1>8, LastOfKinds
  <2>2. Len(LastOf(r)) = 4 /\ LastOf(r)[1] = Move(FALSE) /\ LastOf(r)[2] = Do("press", r.item) /\ LastOf(r)[3] = Move(r.off) /\ LastOf(r)[4] = Do("lift", r.item)
    BY <2>1
  <2>3. CASE n = 4
    <3>1. n <= Len(LastOf(r)) /\ Len(LastOf(r)) - n + 1 = 1
      BY <2>2, <2>3
    <3>2. do = Move(FALSE)
      BY <1>3, <2>2, <3>1
    <3>3. ByMove(r, n, do)
      BY <1>4, <1>8, <2>3, <3>2 DEF ByMove, PortalUps
    <3>4. QED  BY <3>3 DEF NextStep
  <2>4. CASE n = 3
    <3>1. n <= Len(LastOf(r)) /\ Len(LastOf(r)) - n + 1 = 2
      BY <2>2, <2>4
    <3>2. do = Do("press", r.item)
      BY <1>3, <2>2, <3>1
    <3>3. ByPress(r, n, do)
      BY <1>4, <1>8, <2>4, <3>2 DEF ByPress, PortalUps
    <3>4. QED  BY <3>3 DEF NextStep
  <2>5. CASE n = 2
    <3>1. n <= Len(LastOf(r)) /\ Len(LastOf(r)) - n + 1 = 3
      BY <2>2, <2>5
    <3>2. do = Move(r.off)
      BY <1>3, <2>2, <3>1
    <3>3. ByMove(r, n, do)
      BY <1>4, <1>8, <2>5, <3>2 DEF ByMove, PortalUps
    <3>4. QED  BY <3>3 DEF NextStep
  <2>6. CASE n = 1
    <3>1. n <= Len(LastOf(r)) /\ Len(LastOf(r)) - n + 1 = 4
      BY <2>2, <2>6
    <3>2. do = Do("lift", r.item)
      BY <1>3, <2>2, <3>1
    <3>3. ByLift(r, n, do)
      BY <1>4, <1>8, <2>6, <3>2 DEF ByLift, PortalUps
    <3>4. QED  BY <3>3 DEF NextStep
  <2>7. CASE n > 4
    <3>1. do \in Before(r, portalAcquired)
      BY <1>3, <2>2, <2>7
    <3>2. ByModifier(r, n, do, portalAcquired)
      BY <1>3, <1>8, <2>7, <3>1 DEF Before, ByModifier, PortalUps
    <3>3. QED  BY <3>2 DEF NextStep
  <2>8. QED  BY <1>3, <2>3, <2>4, <2>5, <2>6, <2>7
<1>9. CASE r.kind = "key_down"
  <2>1. LastOf(r) = <<Do("press", r.item)>>
    BY <1>1, <1>9, LastOfKinds
  <2>2. Len(LastOf(r)) = 1 /\ LastOf(r)[1] = Do("press", r.item)
    BY <2>1
  <2>3. CASE n = 1
    <3>1. n <= Len(LastOf(r)) /\ Len(LastOf(r)) - n + 1 = 1
      BY <2>2, <2>3
    <3>2. do = Do("press", r.item)
      BY <1>3, <2>2, <3>1
    <3>3. ByPress(r, n, do)
      BY <1>4, <1>9, <2>3, <3>2 DEF ByPress, PortalUps
    <3>4. QED  BY <3>3 DEF NextStep
  <2>4. CASE n > 1
    <3>1. do \in Before(r, portalAcquired)
      BY <1>3, <2>2, <2>4
    <3>2. ByModifier(r, n, do, portalAcquired)
      BY <1>3, <1>9, <2>4, <3>1 DEF Before, ByModifier, PortalUps
    <3>3. QED  BY <3>2 DEF NextStep
  <2>5. QED  BY <1>3, <2>3, <2>4
<1>10. CASE r.kind = "mouse_down"
  <2>1. LastOf(r) = <<Move(r.off), Do("press", r.item)>>
    BY <1>1, <1>10, LastOfKinds
  <2>2. Len(LastOf(r)) = 2 /\ LastOf(r)[1] = Move(r.off) /\ LastOf(r)[2] = Do("press", r.item)
    BY <2>1
  <2>3. CASE n = 2
    <3>1. n <= Len(LastOf(r)) /\ Len(LastOf(r)) - n + 1 = 1
      BY <2>2, <2>3
    <3>2. do = Move(r.off)
      BY <1>3, <2>2, <3>1
    <3>3. ByMove(r, n, do)
      BY <1>4, <1>10, <2>3, <3>2 DEF ByMove, PortalUps
    <3>4. QED  BY <3>3 DEF NextStep
  <2>4. CASE n = 1
    <3>1. n <= Len(LastOf(r)) /\ Len(LastOf(r)) - n + 1 = 2
      BY <2>2, <2>4
    <3>2. do = Do("press", r.item)
      BY <1>3, <2>2, <3>1
    <3>3. ByPress(r, n, do)
      BY <1>4, <1>10, <2>4, <3>2 DEF ByPress, PortalUps
    <3>4. QED  BY <3>3 DEF NextStep
  <2>5. CASE n > 2
    <3>1. do \in Before(r, portalAcquired)
      BY <1>3, <2>2, <2>5
    <3>2. ByModifier(r, n, do, portalAcquired)
      BY <1>3, <1>10, <2>5, <3>1 DEF Before, ByModifier, PortalUps
    <3>3. QED  BY <3>2 DEF NextStep
  <2>6. QED  BY <1>3, <2>3, <2>4, <2>5
<1>11. CASE r.kind = "key_up"
  <2>1. LastOf(r) = <<Do("lift", r.item)>>
    BY <1>1, <1>11, LastOfKinds
  <2>2. Len(LastOf(r)) = 1 /\ LastOf(r)[1] = Do("lift", r.item)
    BY <2>1
  <2>3. CASE n = 1
    <3>1. n <= Len(LastOf(r)) /\ Len(LastOf(r)) - n + 1 = 1
      BY <2>2, <2>3
    <3>2. do = Do("lift", r.item)
      BY <1>3, <2>2, <3>1
    <3>3. ByLift(r, n, do)
      BY <1>4, <1>11, <2>3, <3>2 DEF ByLift, PortalUps
    <3>4. QED  BY <3>3 DEF NextStep
  <2>4. CASE n > 1
    <3>1. do \in Before(r, portalAcquired)
      BY <1>3, <2>2, <2>4
    <3>2. FALSE
      BY <1>1, <1>11, <3>1 DEF Before, PortalUps
    <3>3. QED  BY <3>2 DEF NextStep
  <2>5. QED  BY <1>3, <2>3, <2>4
<1>12. CASE r.kind = "mouse_up"
  <2>1. LastOf(r) = <<Move(r.off), Do("lift", r.item)>>
    BY <1>1, <1>12, LastOfKinds
  <2>2. Len(LastOf(r)) = 2 /\ LastOf(r)[1] = Move(r.off) /\ LastOf(r)[2] = Do("lift", r.item)
    BY <2>1
  <2>3. CASE n = 2
    <3>1. n <= Len(LastOf(r)) /\ Len(LastOf(r)) - n + 1 = 1
      BY <2>2, <2>3
    <3>2. do = Move(r.off)
      BY <1>3, <2>2, <3>1
    <3>3. ByMove(r, n, do)
      BY <1>4, <1>12, <2>3, <3>2 DEF ByMove, PortalUps
    <3>4. QED  BY <3>3 DEF NextStep
  <2>4. CASE n = 1
    <3>1. n <= Len(LastOf(r)) /\ Len(LastOf(r)) - n + 1 = 2
      BY <2>2, <2>4
    <3>2. do = Do("lift", r.item)
      BY <1>3, <2>2, <3>1
    <3>3. ByLift(r, n, do)
      BY <1>4, <1>12, <2>4, <3>2 DEF ByLift, PortalUps
    <3>4. QED  BY <3>3 DEF NextStep
  <2>5. CASE n > 2
    <3>1. do \in Before(r, portalAcquired)
      BY <1>3, <2>2, <2>5
    <3>2. FALSE
      BY <1>1, <1>12, <3>1 DEF Before, PortalUps
    <3>3. QED  BY <3>2 DEF NextStep
  <2>6. QED  BY <1>3, <2>3, <2>4, <2>5
<1>13. CASE r.kind = "touch"
  <2>1. LastOf(r) = <<Move(r.off)>>
    BY <1>1, <1>13, LastOfKinds
  <2>2. Len(LastOf(r)) = 1 /\ LastOf(r)[1] = Move(r.off)
    BY <2>1
  <2>3. CASE n = 1
    <3>1. n <= Len(LastOf(r)) /\ Len(LastOf(r)) - n + 1 = 1
      BY <2>2, <2>3
    <3>2. do = Move(r.off)
      BY <1>3, <2>2, <3>1
    <3>3. ByMove(r, n, do)
      BY <1>4, <1>13, <2>3, <3>2 DEF ByMove, PortalUps
    <3>4. QED  BY <3>3 DEF NextStep
  <2>4. CASE n > 1
    <3>1. do \in Before(r, portalAcquired)
      BY <1>3, <2>2, <2>4
    <3>2. ByContact(r, do)
      BY <1>13, <3>1 DEF Before, ByContact
    <3>3. QED  BY <3>2 DEF NextStep
  <2>5. QED  BY <1>3, <2>3, <2>4
<1>14. QED  BY <1>1, <1>6, <1>7, <1>8, <1>9, <1>10, <1>11, <1>12, <1>13, LastOfKinds

-----------------------------------------------------------------------------
(* Portal: every action keeps the invariant.                                *)

\* The types of the session are kept: a dialog comes up at most once with and once without a token.
LEMMA SessionStep ==
  ASSUME SessionTypes, CauseOK, AttemptOK, [PortalNext]_portalVars
  PROVE  SessionTypes'
<1>1. ASSUME NEW r \in PortalRequests, PortalAsk(r)  PROVE  SessionTypes'
  BY <1>1 DEF PortalAsk, SessionTypes, CauseOK, AttemptOK, Attempts, Works, grant, keys
<1>2. ASSUME Start  PROVE  SessionTypes'
  BY <1>2 DEF Start, Fault, SessionTypes, CauseOK, AttemptOK, Attempts, Works, keys, portalCall
<1>3. ASSUME Send  PROVE  SessionTypes'
  BY <1>3 DEF Send, SessionTypes, CauseOK, AttemptOK, Attempts, Works, keys, portalCall
<1>4. ASSUME Answer  PROVE  SessionTypes'
  BY <1>4 DEF Answer, Rejected, Spend, Fault, SessionTypes, CauseOK, AttemptOK, Attempts, Works, keys
<1>5. ASSUME Forget  PROVE  SessionTypes'
  BY <1>5 DEF Forget, DeleteToken, Unwritten, Fault, SessionTypes, CauseOK, AttemptOK, Attempts, Works, keys,
     portalCall
<1>6. ASSUME Drop  PROVE  SessionTypes'
  BY <1>6 DEF Drop, SessionTypes, CauseOK, AttemptOK, Attempts, Works, keys
<1>7. ASSUME Save  PROVE  SessionTypes'
  BY <1>7 DEF Save, WriteToken, Unwritten, Fault, SessionTypes, CauseOK, AttemptOK, Attempts, Works, keys,
     portalCall
<1>8. ASSUME Open  PROVE  SessionTypes'
  BY <1>8 DEF Open, Fault, SessionTypes, CauseOK, AttemptOK, Attempts, Works, keys, portalCall
<1>9. ASSUME Frame  PROVE  SessionTypes'
  BY <1>9 DEF Frame, SessionTypes, CauseOK, AttemptOK, Attempts, Works, grant, keys, portalCall
<1>10. ASSUME Run  PROVE  SessionTypes'
  BY <1>10 DEF Run, Fails, Pressing, Lifting, Touching, Fault, SessionTypes, CauseOK, AttemptOK, Attempts,
     Works, grant, keys, input
<1>11. ASSUME Ran  PROVE  SessionTypes'
  BY <1>11 DEF Ran, SessionTypes, CauseOK, AttemptOK, Attempts, Works, grant
<1>12. ASSUME Undo  PROVE  SessionTypes'
  BY <1>12 DEF Undo, Lifting, Untouching, Fault, SessionTypes, CauseOK, AttemptOK, Attempts, Works, grant,
     input
<1>13. ASSUME Undone  PROVE  SessionTypes'
  BY <1>13 DEF Undone, SessionTypes, CauseOK, AttemptOK, Attempts, Works, grant, input, portalCall
<1>14. ASSUME Fail  PROVE  SessionTypes'
  BY <1>14 DEF Fail, SessionTypes, CauseOK, AttemptOK, Attempts, Works, grant, keys, portalCall
<1>15. ASSUME Release  PROVE  SessionTypes'
  BY <1>15 DEF Release, Lifting, Untouching, Fault, SessionTypes, CauseOK, AttemptOK, Attempts, Works, grant,
     input, portalCall
<1>16. ASSUME Close  PROVE  SessionTypes'
  BY <1>16 DEF Close, SessionTypes, CauseOK, AttemptOK, Attempts, Works, portalCall
<1>17. ASSUME Stopping  PROVE  SessionTypes'
  BY <1>17 DEF Stopping, SessionTypes, CauseOK, AttemptOK, Attempts, Works, portalCall
<1>18. ASSUME Stop  PROVE  SessionTypes'
  BY <1>18 DEF Stop, SessionTypes, CauseOK, AttemptOK, Attempts, Works, grant, keys, portalCall
<1>19. ASSUME Revoke  PROVE  SessionTypes'
  BY <1>19 DEF Revoke, Fault, SessionTypes, CauseOK, AttemptOK, Attempts, Works, portalCall
<1>20. CASE UNCHANGED portalVars
  BY <1>20 DEF portalVars, SessionTypes, CauseOK, AttemptOK, Attempts, Works, grant, keys, input, portalCall
<1>21. QED
  BY <1>1, <1>2, <1>3, <1>4, <1>5, <1>6, <1>7, <1>8, <1>9, <1>10,
     <1>11, <1>12, <1>13, <1>14, <1>15, <1>16, <1>17, <1>18, <1>19, <1>20
  DEF PortalNext, PortalServe

\* A session is given up for a cause only.
LEMMA CauseStep ==
  ASSUME SessionTypes, CauseOK, AttemptOK, [PortalNext]_portalVars
  PROVE  CauseOK'
<1>1. ASSUME NEW r \in PortalRequests, PortalAsk(r)  PROVE  CauseOK'
  BY <1>1 DEF PortalAsk, SessionTypes, CauseOK, AttemptOK, Attempts, Works, grant, keys
<1>2. ASSUME Start  PROVE  CauseOK'
  BY <1>2 DEF Start, Fault, SessionTypes, CauseOK, AttemptOK, Attempts, Works, keys, portalCall
<1>3. ASSUME Send  PROVE  CauseOK'
  BY <1>3 DEF Send, SessionTypes, CauseOK, AttemptOK, Attempts, Works, keys, portalCall
<1>4. ASSUME Answer  PROVE  CauseOK'
  BY <1>4 DEF Answer, Rejected, Spend, Fault, SessionTypes, CauseOK, AttemptOK, Attempts, Works, keys
<1>5. ASSUME Forget  PROVE  CauseOK'
  BY <1>5 DEF Forget, DeleteToken, Unwritten, Fault, SessionTypes, CauseOK, AttemptOK, Attempts, Works, keys,
     portalCall
<1>6. ASSUME Drop  PROVE  CauseOK'
  BY <1>6 DEF Drop, SessionTypes, CauseOK, AttemptOK, Attempts, Works, keys
<1>7. ASSUME Save  PROVE  CauseOK'
  BY <1>7 DEF Save, WriteToken, Unwritten, Fault, SessionTypes, CauseOK, AttemptOK, Attempts, Works, keys,
     portalCall
<1>8. ASSUME Open  PROVE  CauseOK'
  BY <1>8 DEF Open, Fault, SessionTypes, CauseOK, AttemptOK, Attempts, Works, keys, portalCall
<1>9. ASSUME Frame  PROVE  CauseOK'
  BY <1>9 DEF Frame, SessionTypes, CauseOK, AttemptOK, Attempts, Works, grant, keys, portalCall
<1>10. ASSUME Run  PROVE  CauseOK'
  BY <1>10 DEF Run, Fails, Pressing, Lifting, Touching, Fault, SessionTypes, CauseOK, AttemptOK, Attempts,
     Works, grant, keys, input
<1>11. ASSUME Ran  PROVE  CauseOK'
  BY <1>11 DEF Ran, SessionTypes, CauseOK, AttemptOK, Attempts, Works, grant
<1>12. ASSUME Undo  PROVE  CauseOK'
  BY <1>12 DEF Undo, Lifting, Untouching, Fault, SessionTypes, CauseOK, AttemptOK, Attempts, Works, grant,
     input
<1>13. ASSUME Undone  PROVE  CauseOK'
  BY <1>13 DEF Undone, SessionTypes, CauseOK, AttemptOK, Attempts, Works, grant, input, portalCall
<1>14. ASSUME Fail  PROVE  CauseOK'
  BY <1>14 DEF Fail, SessionTypes, CauseOK, AttemptOK, Attempts, Works, grant, keys, portalCall
<1>15. ASSUME Release  PROVE  CauseOK'
  BY <1>15 DEF Release, Lifting, Untouching, Fault, SessionTypes, CauseOK, AttemptOK, Attempts, Works, grant,
     input, portalCall
<1>16. ASSUME Close  PROVE  CauseOK'
  BY <1>16 DEF Close, SessionTypes, CauseOK, AttemptOK, Attempts, Works, portalCall
<1>17. ASSUME Stopping  PROVE  CauseOK'
  BY <1>17 DEF Stopping, SessionTypes, CauseOK, AttemptOK, Attempts, Works, portalCall
<1>18. ASSUME Stop  PROVE  CauseOK'
  BY <1>18 DEF Stop, SessionTypes, CauseOK, AttemptOK, Attempts, Works, grant, keys, portalCall
<1>19. ASSUME Revoke  PROVE  CauseOK'
  BY <1>19 DEF Revoke, Fault, SessionTypes, CauseOK, AttemptOK, Attempts, Works, portalCall
<1>20. CASE UNCHANGED portalVars
  BY <1>20 DEF portalVars, SessionTypes, CauseOK, AttemptOK, Attempts, Works, grant, keys, input, portalCall
<1>21. QED
  BY <1>1, <1>2, <1>3, <1>4, <1>5, <1>6, <1>7, <1>8, <1>9, <1>10,
     <1>11, <1>12, <1>13, <1>14, <1>15, <1>16, <1>17, <1>18, <1>19, <1>20
  DEF PortalNext, PortalServe

\* An attempt without a token is the last, and none follows a no.
LEMMA AttemptStep ==
  ASSUME SessionTypes, CauseOK, AttemptOK, [PortalNext]_portalVars
  PROVE  AttemptOK'
<1>1. ASSUME NEW r \in PortalRequests, PortalAsk(r)  PROVE  AttemptOK'
  BY <1>1 DEF PortalAsk, SessionTypes, CauseOK, AttemptOK, Attempts, Works, grant, keys
<1>2. ASSUME Start  PROVE  AttemptOK'
  BY <1>2 DEF Start, Fault, SessionTypes, CauseOK, AttemptOK, Attempts, Works, keys, portalCall
<1>3. ASSUME Send  PROVE  AttemptOK'
  BY <1>3 DEF Send, SessionTypes, CauseOK, AttemptOK, Attempts, Works, keys, portalCall
<1>4. ASSUME Answer  PROVE  AttemptOK'
  BY <1>4 DEF Answer, Rejected, Spend, Fault, SessionTypes, CauseOK, AttemptOK, Attempts, Works, keys
<1>5. ASSUME Forget  PROVE  AttemptOK'
  BY <1>5 DEF Forget, DeleteToken, Unwritten, Fault, SessionTypes, CauseOK, AttemptOK, Attempts, Works, keys,
     portalCall
<1>6. ASSUME Drop  PROVE  AttemptOK'
  BY <1>6 DEF Drop, SessionTypes, CauseOK, AttemptOK, Attempts, Works, keys
<1>7. ASSUME Save  PROVE  AttemptOK'
  BY <1>7 DEF Save, WriteToken, Unwritten, Fault, SessionTypes, CauseOK, AttemptOK, Attempts, Works, keys,
     portalCall
<1>8. ASSUME Open  PROVE  AttemptOK'
  BY <1>8 DEF Open, Fault, SessionTypes, CauseOK, AttemptOK, Attempts, Works, keys, portalCall
<1>9. ASSUME Frame  PROVE  AttemptOK'
  BY <1>9 DEF Frame, SessionTypes, CauseOK, AttemptOK, Attempts, Works, grant, keys, portalCall
<1>10. ASSUME Run  PROVE  AttemptOK'
  BY <1>10 DEF Run, Fails, Pressing, Lifting, Touching, Fault, SessionTypes, CauseOK, AttemptOK, Attempts,
     Works, grant, keys, input
<1>11. ASSUME Ran  PROVE  AttemptOK'
  BY <1>11 DEF Ran, SessionTypes, CauseOK, AttemptOK, Attempts, Works, grant
<1>12. ASSUME Undo  PROVE  AttemptOK'
  BY <1>12 DEF Undo, Lifting, Untouching, Fault, SessionTypes, CauseOK, AttemptOK, Attempts, Works, grant,
     input
<1>13. ASSUME Undone  PROVE  AttemptOK'
  BY <1>13 DEF Undone, SessionTypes, CauseOK, AttemptOK, Attempts, Works, grant, input, portalCall
<1>14. ASSUME Fail  PROVE  AttemptOK'
  BY <1>14 DEF Fail, SessionTypes, CauseOK, AttemptOK, Attempts, Works, grant, keys, portalCall
<1>15. ASSUME Release  PROVE  AttemptOK'
  BY <1>15 DEF Release, Lifting, Untouching, Fault, SessionTypes, CauseOK, AttemptOK, Attempts, Works, grant,
     input, portalCall
<1>16. ASSUME Close  PROVE  AttemptOK'
  BY <1>16 DEF Close, SessionTypes, CauseOK, AttemptOK, Attempts, Works, portalCall
<1>17. ASSUME Stopping  PROVE  AttemptOK'
  BY <1>17 DEF Stopping, SessionTypes, CauseOK, AttemptOK, Attempts, Works, portalCall
<1>18. ASSUME Stop  PROVE  AttemptOK'
  BY <1>18 DEF Stop, SessionTypes, CauseOK, AttemptOK, Attempts, Works, grant, keys, portalCall
<1>19. ASSUME Revoke  PROVE  AttemptOK'
  BY <1>19 DEF Revoke, Fault, SessionTypes, CauseOK, AttemptOK, Attempts, Works, portalCall
<1>20. CASE UNCHANGED portalVars
  BY <1>20 DEF portalVars, SessionTypes, CauseOK, AttemptOK, Attempts, Works, grant, keys, input, portalCall
<1>21. QED
  BY <1>1, <1>2, <1>3, <1>4, <1>5, <1>6, <1>7, <1>8, <1>9, <1>10,
     <1>11, <1>12, <1>13, <1>14, <1>15, <1>16, <1>17, <1>18, <1>19, <1>20
  DEF PortalNext, PortalServe

\* A spent token is on its way out.
LEMMA DiskStep ==
  ASSUME SessionTypes, CauseOK, AttemptOK, DiskOK, [PortalNext]_portalVars
  PROVE  DiskOK'
<1>1. ASSUME NEW r \in PortalRequests, PortalAsk(r)  PROVE  DiskOK'
  BY <1>1 DEF PortalAsk, SessionTypes, CauseOK, AttemptOK, DiskOK, Attempts, Works, grant, keys
<1>2. ASSUME Start  PROVE  DiskOK'
  BY <1>2 DEF Start, Fault, SessionTypes, CauseOK, AttemptOK, DiskOK, Attempts, Works, keys, portalCall
<1>3. ASSUME Send  PROVE  DiskOK'
  BY <1>3 DEF Send, SessionTypes, CauseOK, AttemptOK, DiskOK, Attempts, Works, keys, portalCall
<1>4. ASSUME Answer  PROVE  DiskOK'
  <2> SUFFICES ASSUME ~spared'  PROVE  DiskOK'
    BY DEF DiskOK
  <2>1. ~spared /\ UNCHANGED <<spared, streams, prompts, token, started, failed>> /\ portalPc \in {"creating", "asking"}
    BY <1>4 DEF Answer
  <2>2. disk = token /\ ~streams /\ portalPc' \in {"fail", "consent", "save", "forget"}
    BY <1>4, <2>1 DEF Answer, Rejected, AttemptOK, DiskOK, Attempts
  <2>3. portalPc' # "fail" => disk' = disk /\ (cancelled' => cancelled \/ portalPc' = "forget")
    BY <1>4, <2>1 DEF Answer, Rejected
  <2>4. portalPc' = "fail" => disk' \in {disk, "spent"}
    BY <1>4, <2>1 DEF Answer, Rejected, Spend
  <2>. QED
    BY <1>4, <2>1, <2>2, <2>3, <2>4 DEF Answer, Rejected, Spend, SessionTypes, AttemptOK, DiskOK, Attempts
<1>5. ASSUME Forget  PROVE  DiskOK'
  BY <1>5 DEF Forget, DeleteToken, Unwritten, Fault, SessionTypes, CauseOK, AttemptOK, DiskOK, Attempts, Works,
     keys, portalCall
<1>6. ASSUME Drop  PROVE  DiskOK'
  BY <1>6 DEF Drop, SessionTypes, CauseOK, AttemptOK, DiskOK, Attempts, Works, keys
<1>7. ASSUME Save  PROVE  DiskOK'
  BY <1>7 DEF Save, WriteToken, Unwritten, Fault, SessionTypes, CauseOK, AttemptOK, DiskOK, Attempts, Works,
     keys, portalCall
<1>8. ASSUME Open  PROVE  DiskOK'
  BY <1>8 DEF Open, Fault, SessionTypes, CauseOK, AttemptOK, DiskOK, Attempts, Works, keys, portalCall
<1>9. ASSUME Frame  PROVE  DiskOK'
  BY <1>9 DEF Frame, SessionTypes, CauseOK, AttemptOK, DiskOK, Attempts, Works, grant, keys, portalCall
<1>10. ASSUME Run  PROVE  DiskOK'
  BY <1>10 DEF Run, Fails, Pressing, Lifting, Touching, Fault, SessionTypes, CauseOK, AttemptOK, DiskOK,
     Attempts, Works, grant, keys, input
<1>11. ASSUME Ran  PROVE  DiskOK'
  BY <1>11 DEF Ran, SessionTypes, CauseOK, AttemptOK, DiskOK, Attempts, Works, grant
<1>12. ASSUME Undo  PROVE  DiskOK'
  BY <1>12 DEF Undo, Lifting, Untouching, Fault, SessionTypes, CauseOK, AttemptOK, DiskOK, Attempts, Works,
     grant, input
<1>13. ASSUME Undone  PROVE  DiskOK'
  BY <1>13 DEF Undone, SessionTypes, CauseOK, AttemptOK, DiskOK, Attempts, Works, grant, input, portalCall
<1>14. ASSUME Fail  PROVE  DiskOK'
  BY <1>14 DEF Fail, SessionTypes, CauseOK, AttemptOK, DiskOK, Attempts, Works, grant, keys, portalCall
<1>15. ASSUME Release  PROVE  DiskOK'
  BY <1>15 DEF Release, Lifting, Untouching, Fault, SessionTypes, CauseOK, AttemptOK, DiskOK, Attempts, Works,
     grant, input, portalCall
<1>16. ASSUME Close  PROVE  DiskOK'
  BY <1>16 DEF Close, SessionTypes, CauseOK, AttemptOK, DiskOK, Attempts, Works, portalCall
<1>17. ASSUME Stopping  PROVE  DiskOK'
  BY <1>17 DEF Stopping, SessionTypes, CauseOK, AttemptOK, DiskOK, Attempts, Works, portalCall
<1>18. ASSUME Stop  PROVE  DiskOK'
  BY <1>18 DEF Stop, SessionTypes, CauseOK, AttemptOK, DiskOK, Attempts, Works, grant, keys, portalCall
<1>19. ASSUME Revoke  PROVE  DiskOK'
  BY <1>19 DEF Revoke, Fault, SessionTypes, CauseOK, AttemptOK, DiskOK, Attempts, Works, portalCall
<1>20. CASE UNCHANGED portalVars
  BY <1>20 DEF portalVars, SessionTypes, CauseOK, AttemptOK, DiskOK, Attempts, Works, grant, keys, input,
     portalCall
<1>21. QED
  BY <1>1, <1>2, <1>3, <1>4, <1>5, <1>6, <1>7, <1>8, <1>9, <1>10,
     <1>11, <1>12, <1>13, <1>14, <1>15, <1>16, <1>17, <1>18, <1>19, <1>20
  DEF PortalNext, PortalServe

\* What is left of a plan is the end of one.
LEMMA PlanStep ==
  ASSUME KeyTypes, PlanOK, [PortalNext]_portalVars
  PROVE  PlanOK'
<1>1. ASSUME NEW r \in PortalRequests, PortalAsk(r)  PROVE  PlanOK'
  <2>1. SUFFICES ASSUME portalPc' = "run"  PROVE  Follows(plan', portalRequest', portalAcquired')
    BY DEF PlanOK
  <2>2. /\ r.kind # "capture" /\ portalRequest' = r /\ plan' = Plan(r)
        /\ portalAcquired' = IF r.kind \in {"key_up", "mouse_up"} THEN {} ELSE r.mods \ portalHeld
    BY <1>1, <2>1 DEF PortalAsk
  <2>3. QED  BY <1>1, <2>2, PlanFollows
<1>2. ASSUME Start  PROVE  PlanOK'
  BY <1>2 DEF Start, Fault, PlanOK, Attempts, Works, keys, portalCall
<1>3. ASSUME Send  PROVE  PlanOK'
  BY <1>3 DEF Send, PlanOK, Attempts, Works, keys, portalCall
<1>4. ASSUME Answer  PROVE  PlanOK'
  BY <1>4 DEF Answer, Rejected, Spend, Fault, PlanOK, Attempts, Works, keys
<1>5. ASSUME Forget  PROVE  PlanOK'
  BY <1>5 DEF Forget, DeleteToken, Unwritten, Fault, PlanOK, Attempts, Works, keys, portalCall
<1>6. ASSUME Drop  PROVE  PlanOK'
  BY <1>6 DEF Drop, PlanOK, Attempts, Works, keys
<1>7. ASSUME Save  PROVE  PlanOK'
  BY <1>7 DEF Save, WriteToken, Unwritten, Fault, PlanOK, Attempts, Works, keys, portalCall
<1>8. ASSUME Open  PROVE  PlanOK'
  BY <1>8 DEF Open, Fault, PlanOK, Attempts, Works, keys, portalCall
<1>9. ASSUME Frame  PROVE  PlanOK'
  BY <1>9 DEF Frame, PlanOK, Attempts, Works, grant, keys, portalCall
<1>10. ASSUME Run  PROVE  PlanOK'
  <2>1. portalPc = "run" /\ plan # <<>> /\ portalRequest' = portalRequest /\ portalAcquired' = portalAcquired
        /\ (portalPc' = "run" => plan' = Tail(plan))
    BY <1>10 DEF Run, Fails
  <2>2. Follows(Tail(plan), portalRequest, portalAcquired)
    BY <2>1, NextOfPlan
  <2>3. QED  BY <2>1, <2>2 DEF PlanOK
<1>11. ASSUME Ran  PROVE  PlanOK'
  BY <1>11 DEF Ran, PlanOK, Attempts, Works, grant
<1>12. ASSUME Undo  PROVE  PlanOK'
  BY <1>12 DEF Undo, Lifting, Untouching, Fault, PlanOK, Attempts, Works, grant, input
<1>13. ASSUME Undone  PROVE  PlanOK'
  BY <1>13 DEF Undone, PlanOK, Attempts, Works, grant, input, portalCall
<1>14. ASSUME Fail  PROVE  PlanOK'
  BY <1>14 DEF Fail, PlanOK, Attempts, Works, grant, keys, portalCall
<1>15. ASSUME Release  PROVE  PlanOK'
  BY <1>15 DEF Release, Lifting, Untouching, Fault, PlanOK, Attempts, Works, grant, input, portalCall
<1>16. ASSUME Close  PROVE  PlanOK'
  BY <1>16 DEF Close, PlanOK, Attempts, Works, portalCall
<1>17. ASSUME Stopping  PROVE  PlanOK'
  BY <1>17 DEF Stopping, PlanOK, Attempts, Works, portalCall
<1>18. ASSUME Stop  PROVE  PlanOK'
  BY <1>18 DEF Stop, PlanOK, Attempts, Works, grant, keys, portalCall
<1>19. ASSUME Revoke  PROVE  PlanOK'
  BY <1>19 DEF Revoke, Fault, PlanOK, Attempts, Works, portalCall
<1>20. CASE UNCHANGED portalVars
  BY <1>20 DEF portalVars, PlanOK, Attempts, Works, grant, keys, input, portalCall
<1>21. QED
  BY <1>1, <1>2, <1>3, <1>4, <1>5, <1>6, <1>7, <1>8, <1>9, <1>10,
     <1>11, <1>12, <1>13, <1>14, <1>15, <1>16, <1>17, <1>18, <1>19, <1>20
  DEF PortalNext, PortalServe

\* What a step of a plan is.
LEMMA DoIs == \A x, op : Do(op, x).op = op /\ Do(op, x).item = x
BY DEF Do

LEMMA StepIs == Move(TRUE).op = "move" /\ Move(FALSE).op = "move"
BY DEF Do, Move

\* One notify of the plan, by what it does.
LEMMA RunIs ==
  ASSUME KeyTypes, PlanOK, Run
  PROVE  LET x == Head(plan).item IN
         \/ UNCHANGED <<keys, plan>> /\ portalPc' = "undo" /\ err' \in {"fatal", "input"}
         \/ /\ plan' = Tail(plan) /\ UNCHANGED <<portalPc, err, portalOwed>>
            /\ \/ ByModifier(portalRequest, Len(plan), Head(plan), portalAcquired) /\ Pressing(x) /\ x \in portalAcquired
               \/ ByContact(portalRequest, Head(plan)) /\ Touching(x) /\ x \in Slots
               \/ ByPress(portalRequest, Len(plan), Head(plan)) /\ Pressing(x) /\ x = portalRequest.item /\ x \in Items
               \/ ByLift(portalRequest, Len(plan), Head(plan)) /\ Lifting(x) /\ x = portalRequest.item /\ x \in Items
               \/ ByMove(portalRequest, Len(plan), Head(plan)) /\ UNCHANGED input
<1> DEFINE do == Head(plan)  r == portalRequest  n == Len(plan)
<1>1. portalPc = "run" /\ plan # <<>>
  BY DEF Run
<1>2. NextStep(r, n, do, portalAcquired)
  BY <1>1, NextOfPlan
<1>3. \/ UNCHANGED <<keys, plan>> /\ portalPc' = "undo" /\ err' \in {"fatal", "input"}
      \/ /\ plan' = Tail(plan) /\ UNCHANGED <<portalPc, err, portalOwed>>
         /\ \/ do.op = "press" /\ Pressing(do.item)
            \/ do.op = "lift" /\ Lifting(do.item)
            \/ do.op = "touch" /\ Touching(do.item)
            \/ do.op = "move" /\ UNCHANGED input
  BY DEF Run, Fails
<1>4. CASE ByModifier(r, n, do, portalAcquired)
  <2>1. do.op = "press" /\ do.item \in portalAcquired
    BY <1>4, DoIs DEF ByModifier
  <2>2. QED  BY <1>3, <1>4, <2>1
<1>5. CASE ByContact(r, do)
  <2>1. do.op = "touch" /\ do.item \in Slots
    BY <1>5, DoIs DEF ByContact
  <2>2. QED  BY <1>3, <1>5, <2>1
<1>6. CASE ByPress(r, n, do)
  <2>1. do.op = "press" /\ do.item = r.item /\ r.item \in Items
    BY <1>6, DoIs DEF ByPress
  <2>2. QED  BY <1>3, <1>6, <2>1
<1>7. CASE ByLift(r, n, do)
  <2>1. do.op = "lift" /\ do.item = r.item /\ r.item \in Items
    BY <1>7, DoIs DEF ByLift
  <2>2. QED  BY <1>3, <1>7, <2>1
<1>8. CASE ByMove(r, n, do)
  <2>1. do.op = "move"
    BY <1>8, StepIs DEF ByMove
  <2>2. QED  BY <1>3, <1>8, <2>1
<1>9. QED  BY <1>2, <1>4, <1>5, <1>6, <1>7, <1>8 DEF NextStep

\* What a press, a release and a contact keep of the types.
PortalInput(x) ==
    \/ x \in Items /\ Pressing(x)
    \/ x \in Items /\ Lifting(x)
    \/ x \in Slots /\ Touching(x)
    \/ x \in Slots /\ Untouching(x)
    \/ UNCHANGED input

LEMMA InputTyped ==
  ASSUME NEW x, KeyTypes, PortalInput(x)
  PROVE  /\ portalHeld' \subseteq Items /\ touches' \subseteq Slots /\ crossed' \in BOOLEAN /\ portalAsked' \subseteq Items
         /\ pressed' \subseteq [item : Items \union Slots, code : BOOLEAN]
<1>1. CASE x \in Items /\ Pressing(x)
  <2>1. Event(x) \in [item : Items \union Slots, code : BOOLEAN]
    BY <1>1 DEF Event
  <2>2. pressed' = pressed \union {Event(x)} /\ portalHeld' = portalHeld \union {x} /\ UNCHANGED <<touches, portalAsked>>
    BY <1>1 DEF Pressing
  <2>3. crossed' \in BOOLEAN
    BY <1>1 DEF Pressing, KeyTypes, Crosses
  <2>4. QED  BY <1>1, <2>1, <2>2, <2>3 DEF KeyTypes
<1>2. CASE x \in Items /\ Lifting(x)
  <2>1. crossed' \in BOOLEAN
    BY <1>2 DEF Lifting, KeyTypes, Crosses
  <2>2. QED  BY <1>2, <2>1 DEF Lifting, KeyTypes
<1>3. CASE x \in Slots /\ Touching(x)
  <2>1. Touch(x) \in [item : Items \union Slots, code : BOOLEAN]
    BY <1>3 DEF Touch
  <2>2. QED  BY <1>3, <2>1 DEF Touching, KeyTypes
<1>4. CASE x \in Slots /\ Untouching(x)
  BY <1>4 DEF Untouching, KeyTypes
<1>5. CASE UNCHANGED input
  BY <1>5 DEF input, KeyTypes
<1>6. QED  BY <1>1, <1>2, <1>3, <1>4, <1>5 DEF PortalInput

\* The types of the keys are kept.
LEMMA KeyStep ==
  ASSUME SessionTypes, KeyTypes, PlanOK, [PortalNext]_portalVars
  PROVE  KeyTypes'
<1>1. ASSUME NEW r \in PortalRequests, PortalAsk(r)  PROVE  KeyTypes'
  <2>1. r.mods \subseteq Modifiers
    BY <1>1 DEF PortalRequests
  <2>2. QED  BY <1>1, <2>1 DEF PortalAsk, KeyTypes, Works, PortalUps, keys
<1>2. ASSUME Start  PROVE  KeyTypes'
  BY <1>2 DEF Start, Fault, KeyTypes, Attempts, Works, keys, portalCall
<1>3. ASSUME Send  PROVE  KeyTypes'
  BY <1>3 DEF Send, KeyTypes, Attempts, Works, keys, portalCall
<1>4. ASSUME Answer  PROVE  KeyTypes'
  BY <1>4 DEF Answer, Rejected, Spend, Fault, KeyTypes, Attempts, Works, keys
<1>5. ASSUME Forget  PROVE  KeyTypes'
  BY <1>5 DEF Forget, DeleteToken, Unwritten, Fault, KeyTypes, Attempts, Works, keys, portalCall
<1>6. ASSUME Drop  PROVE  KeyTypes'
  BY <1>6 DEF Drop, KeyTypes, Attempts, Works, keys
<1>7. ASSUME Save  PROVE  KeyTypes'
  BY <1>7 DEF Save, WriteToken, Unwritten, Fault, KeyTypes, Attempts, Works, keys, portalCall
<1>8. ASSUME Open  PROVE  KeyTypes'
  BY <1>8 DEF Open, Fault, KeyTypes, Attempts, Works, keys, portalCall
<1>9. ASSUME Frame  PROVE  KeyTypes'
  BY <1>9 DEF Frame, KeyTypes, Attempts, Works, grant, keys, portalCall
<1>10. ASSUME Run  PROVE  KeyTypes'
  <2>1. portalPc = "run" /\ portalRequest' = portalRequest /\ portalAcquired' = portalAcquired
    BY <1>10 DEF Run
  <2>2. CASE UNCHANGED keys
    BY <1>10, <2>1, <2>2, RunIs DEF KeyTypes, Works, keys
  <2>3. CASE ~UNCHANGED keys
    <3>1. PortalInput(Head(plan).item) /\ UNCHANGED <<portalPc, portalOwed>>
      <4>1. portalAcquired \subseteq Items
        BY DEF KeyTypes, Items
      <4>2. QED  BY <1>10, <2>3, <4>1, RunIs DEF PortalInput
    <3>2. /\ portalHeld' \subseteq Items /\ touches' \subseteq Slots /\ crossed' \in BOOLEAN /\ portalAsked' \subseteq Items
          /\ pressed' \subseteq [item : Items \union Slots, code : BOOLEAN]
      BY <3>1, InputTyped
    <3>3. QED  BY <2>1, <3>1, <3>2 DEF KeyTypes
  <2>4. QED  BY <2>2, <2>3
<1>11. ASSUME Ran  PROVE  KeyTypes'
  <2>1. portalPc = "run" /\ portalRequest \in PortalRequests /\ portalRequest.kind # "capture"
    BY <1>11 DEF Ran, KeyTypes, Works
  <2>2. portalRequest.kind \in {"key_down", "mouse_down"} => portalRequest.item \in Items
    BY <2>1, LastOfKinds
  <2>3. QED  BY <1>11, <2>1, <2>2 DEF Ran, KeyTypes, Works, PortalUps
<1>12. ASSUME Undo  PROVE  KeyTypes'
  BY <1>12 DEF Undo, Lifting, Untouching, Fault, KeyTypes, Attempts, Works, grant, input
<1>13. ASSUME Undone  PROVE  KeyTypes'
  BY <1>13 DEF Undone, KeyTypes, Attempts, Works, grant, input, portalCall
<1>14. ASSUME Fail  PROVE  KeyTypes'
  BY <1>14 DEF Fail, KeyTypes, Attempts, Works, grant, keys, portalCall
<1>15. ASSUME Release  PROVE  KeyTypes'
  BY <1>15 DEF Release, Lifting, Untouching, Fault, KeyTypes, Attempts, Works, grant, input, portalCall
<1>16. ASSUME Close  PROVE  KeyTypes'
  BY <1>16 DEF Close, KeyTypes, Attempts, Works, portalCall
<1>17. ASSUME Stopping  PROVE  KeyTypes'
  BY <1>17 DEF Stopping, KeyTypes, Attempts, Works, portalCall
<1>18. ASSUME Stop  PROVE  KeyTypes'
  BY <1>18 DEF Stop, KeyTypes, Attempts, Works, grant, keys, portalCall
<1>19. ASSUME Revoke  PROVE  KeyTypes'
  BY <1>19 DEF Revoke, Fault, KeyTypes, Attempts, Works, portalCall
<1>20. CASE UNCHANGED portalVars
  BY <1>20 DEF portalVars, KeyTypes, Attempts, Works, grant, keys, input, portalCall
<1>21. QED
  BY <1>1, <1>2, <1>3, <1>4, <1>5, <1>6, <1>7, <1>8, <1>9, <1>10,
     <1>11, <1>12, <1>13, <1>14, <1>15, <1>16, <1>17, <1>18, <1>19, <1>20
  DEF PortalNext, PortalServe

\* A step of a plan keeps what is held accounted for.
LEMMA RunOwing ==
  ASSUME SessionTypes, KeyTypes, PlanOK, OwingOK, Run  PROVE  OwingOK'
<1> DEFINE r == portalRequest  k == portalRequest.kind  n == Len(plan)  x == Head(plan).item
<1>1. portalPc = "run" /\ UNCHANGED <<closed, portalRequest, portalAcquired>> /\ k # "capture" /\ r \in PortalRequests
      /\ (k \in PortalUps => portalAcquired = {})
  BY DEF Run, KeyTypes, Works
<1>2. (k # "touch" => touches = {})
      /\ portalHeld \subseteq Owing \union portalAcquired \union {y \in {r.item} : InHandOf(k, n)}
  BY <1>1 DEF OwingOK, Works
<1>3. plan # <<>> /\ n \in Nat \ {0} /\ Len(Tail(plan)) = n - 1
  BY <1>1, NextOfPlan DEF Run
<1> HIDE DEF n
<1>4. CASE UNCHANGED <<keys, plan>> /\ portalPc' = "undo" /\ err' \in {"fatal", "input"}
  <2>1. Head(plan) = Move(TRUE) \/ err' = "fatal"
    BY <1>4 DEF Run, Fails
  <2>2. CASE err' = "fatal"
    BY <1>1, <1>2, <1>4, <2>2 DEF OwingOK, Works, keys
  <2>3. CASE Head(plan) = Move(TRUE)
    <3>1. ByMove(r, n, Head(plan)) \/ k \in {"drag", "touch"} \cup PortalUps
      <4>1. Head(plan).op = "move"
        BY <2>3, StepIs
      <4>2. NextStep(r, n, Head(plan), portalAcquired)
        BY <1>1, <1>3, NextOfPlan DEF n
      <4>3. ~ByModifier(r, n, Head(plan), portalAcquired)
        BY <4>1, DoIs DEF ByModifier
      <4>4. ~ByPress(r, n, Head(plan)) /\ ~ByLift(r, n, Head(plan)) /\ ~ByContact(r, Head(plan))
        BY <4>1, DoIs DEF ByPress, ByLift, ByContact
      <4>5. QED  BY <4>2, <4>3, <4>4 DEF NextStep
    <3>2. InHandOf(k, n) => k = "drag"
      <4>1. CASE ByMove(r, n, Head(plan))
        BY <4>1 DEF ByMove, InHandOf
      <4>2. CASE k \in {"drag", "touch"} \cup PortalUps
        BY <4>2 DEF InHandOf, PortalUps
      <4>3. QED  BY <3>1, <4>1, <4>2
    <3>3. Owing' = Owing
      BY <1>4 DEF Owing, keys
    <3>4. QED  BY <1>1, <1>2, <1>4, <3>2, <3>3 DEF OwingOK, Works, keys
  <2>4. QED  BY <2>1, <2>2, <2>3
<1>5. CASE plan' = Tail(plan) /\ UNCHANGED <<portalPc, err, portalOwed>>
  <2>1. SUFFICES /\ k # "touch" => touches' = {}
                 /\ portalHeld' \subseteq Owing' \union portalAcquired \union {y \in {r.item} : InHandOf(k, n - 1)}
    BY <1>1, <1>3, <1>5 DEF OwingOK, Works
  <2>2. CASE ByModifier(r, n, Head(plan), portalAcquired) /\ Pressing(x) /\ x \in portalAcquired
    <3>1. InHandOf(k, n - 1) <=> InHandOf(k, n)
      BY <1>3, <2>2 DEF ByModifier, InHandOf
    <3>2. Owing' = Owing /\ touches' = touches /\ portalHeld' = portalHeld \union {x}
      BY <1>5, <2>2 DEF Pressing, Owing
    <3>3. QED  BY <1>2, <2>2, <3>1, <3>2
  <2>3. CASE ByContact(r, Head(plan)) /\ Touching(x)
    <3>1. ~InHandOf(k, n) /\ k = "touch"
      BY <2>3 DEF ByContact, InHandOf
    <3>2. Owing' = Owing /\ portalHeld' = portalHeld
      BY <1>5, <2>3 DEF Touching, Owing
    <3>3. QED  BY <1>2, <3>1, <3>2
  <2>4. CASE ByPress(r, n, Head(plan)) /\ Pressing(x) /\ x = r.item
    <3>1. InHandOf(k, n - 1) /\ k # "touch"
      BY <1>3, <2>4 DEF ByPress, InHandOf
    <3>2. Owing' = Owing /\ touches' = touches /\ portalHeld' = portalHeld \union {x}
      BY <1>5, <2>4 DEF Pressing, Owing
    <3>3. QED  BY <1>2, <2>4, <3>1, <3>2
  <2>5. CASE ByLift(r, n, Head(plan)) /\ Lifting(x) /\ x = r.item
    <3>1. Owing \ {x} \subseteq Owing' /\ touches' = touches /\ portalHeld' = portalHeld \ {x}
      BY <1>5, <2>5 DEF Lifting, Owing
    <3>2. QED  BY <1>2, <2>5, <3>1
  <2>6. CASE ByMove(r, n, Head(plan)) /\ UNCHANGED input
    <3>1. InHandOf(k, n) => InHandOf(k, n - 1)
      BY <1>3, <2>6 DEF ByMove, InHandOf
    <3>2. Owing' = Owing /\ touches' = touches /\ portalHeld' = portalHeld
      BY <1>5, <2>6 DEF input, Owing
    <3>3. QED  BY <1>2, <3>1, <3>2
  <2>7. CASE UNCHANGED <<keys, plan>> /\ portalPc' = "undo"
    BY <1>1, <1>5, <2>7
  <2>8. QED  BY <2>2, <2>3, <2>4, <2>5, <2>6, <2>7, RunIs DEF n
<1>6. QED  BY <1>4, <1>5, RunIs

\* What is held stays accounted for: a request releases what it has pressed, or remembers it.
LEMMA OwingStep ==
  ASSUME SessionTypes, KeyTypes, PlanOK, OwingOK, [PortalNext]_portalVars
  PROVE  OwingOK'
<1>1. ASSUME NEW r \in PortalRequests, PortalAsk(r)  PROVE  OwingOK'
  <2>1. touches' = touches /\ portalHeld' = portalHeld /\ Owing' = Owing /\ closed' = closed /\ portalPc = "idle"
        /\ portalPc' \in {"idle", "start", "fail", "run"} /\ (portalPc' = "run" => ~closed)
    BY <1>1 DEF PortalAsk, keys, Owing
  <2>2. QED  BY <2>1 DEF OwingOK, Works, Attempts
<1>2. ASSUME Start  PROVE  OwingOK'
  BY <1>2 DEF Start, Fault, OwingOK, Owing, SessionTypes, Attempts, Works, keys, portalCall
<1>3. ASSUME Send  PROVE  OwingOK'
  BY <1>3 DEF Send, OwingOK, Owing, SessionTypes, Attempts, Works, keys, portalCall
<1>4. ASSUME Answer  PROVE  OwingOK'
  BY <1>4 DEF Answer, Rejected, Spend, Fault, OwingOK, Owing, SessionTypes, Attempts, Works, keys
<1>5. ASSUME Forget  PROVE  OwingOK'
  BY <1>5 DEF Forget, DeleteToken, Unwritten, Fault, OwingOK, Owing, SessionTypes, Attempts, Works, keys,
     portalCall
<1>6. ASSUME Drop  PROVE  OwingOK'
  BY <1>6 DEF Drop, OwingOK, Owing, SessionTypes, Attempts, Works, keys
<1>7. ASSUME Save  PROVE  OwingOK'
  BY <1>7 DEF Save, WriteToken, Unwritten, Fault, OwingOK, Owing, SessionTypes, Attempts, Works, keys,
     portalCall
<1>8. ASSUME Open  PROVE  OwingOK'
  BY <1>8 DEF Open, Fault, OwingOK, Owing, SessionTypes, Attempts, Works, keys, portalCall
<1>9. ASSUME Frame  PROVE  OwingOK'
  BY <1>9 DEF Frame, OwingOK, Owing, SessionTypes, Attempts, Works, grant, keys, portalCall
<1>10. ASSUME Run  PROVE  OwingOK'
  BY <1>10, RunOwing
<1>11. ASSUME Ran  PROVE  OwingOK'
  <2> DEFINE k == portalRequest.kind
  <2>1. portalPc = "run" /\ plan = <<>> /\ portalPc' = "undo" /\ UNCHANGED <<closed, portalHeld, touches, portalRequest, err>>
    BY <1>11 DEF Ran
  <2>2. portalHeld \subseteq Owing \union portalAcquired \union {y \in {portalRequest.item} : InHandOf(k, Len(plan))}
        /\ (k # "touch" => touches = {})
    BY <2>1 DEF OwingOK, Works
  <2>3. Len(plan) = 0
    BY <2>1
  <2>4. CASE k \in {"key_down", "mouse_down"}
    <3>1. portalRequest \in PortalRequests /\ k # "capture"
      BY <2>1 DEF KeyTypes, Works
    <3>2. portalRequest.item \in Items /\ portalOwed \in [Items -> SUBSET Modifiers]
      BY <2>4, <3>1, LastOfKinds DEF KeyTypes
    <3>3. portalOwed' = [portalOwed EXCEPT ![portalRequest.item] = portalOwed[portalRequest.item] \union portalAcquired]
          /\ portalAsked' = portalAsked \union {portalRequest.item}
      BY <1>11, <2>4 DEF Ran
    <3>4. /\ \A i \in Items : portalOwed[i] \subseteq portalOwed'[i]
          /\ portalAcquired \subseteq portalOwed'[portalRequest.item]
      BY <3>2, <3>3
    <3>5. Owing \union portalAcquired \union {portalRequest.item} \subseteq Owing'
      BY <3>2, <3>3, <3>4 DEF Owing
    <3>6. QED  BY <2>1, <2>2, <2>4, <3>5 DEF OwingOK, Works
  <2>5. CASE k \notin {"key_down", "mouse_down"}
    <3>1. Owing' = Owing /\ portalAcquired' = portalAcquired
      BY <1>11, <2>5 DEF Ran, Owing
    <3>2. InHandOf(k, Len(plan)) => k = "drag"
      BY <2>3, <2>5 DEF InHandOf
    <3>3. QED  BY <2>1, <2>2, <3>1, <3>2 DEF OwingOK, Works
  <2>6. QED  BY <2>4, <2>5
<1>12. ASSUME Undo  PROVE  OwingOK'
  <2> DEFINE k == portalRequest.kind
  <2>1. portalPc = "undo" /\ UNCHANGED <<closed, portalRequest, portalAcquired, portalOwed>>
    BY <1>12 DEF Undo
  <2>2. (k # "touch" => touches = {})
        /\ (err # "fatal" => portalHeld \subseteq Owing \union portalAcquired \union {y \in {portalRequest.item} : k = "drag"})
    BY <2>1 DEF OwingOK, Works
  <2>3. CASE \E x : Lifting(x) /\ UNCHANGED <<portalPc, err>>
    <3>1. PICK x : Lifting(x) /\ UNCHANGED <<portalPc, err>>
      BY <2>3
    <3>2. Owing \ {x} \subseteq Owing' /\ touches' = touches /\ portalHeld' = portalHeld \ {x}
      BY <2>1, <3>1 DEF Lifting, Owing
    <3>3. QED  BY <2>1, <2>2, <3>1, <3>2 DEF OwingOK, Works
  <2>4. CASE \E x : k = "touch" /\ Untouching(x) /\ UNCHANGED <<portalPc, err>>
    <3>1. Owing' = Owing /\ portalHeld' = portalHeld
      BY <2>1, <2>4 DEF Untouching, Owing
    <3>2. QED  BY <2>1, <2>2, <2>4, <3>1 DEF OwingOK, Works
  <2>5. CASE err' = "fatal" /\ portalPc' = "undone" /\ UNCHANGED input
    BY <2>1, <2>2, <2>5 DEF OwingOK, Works, input
  <2>6. QED  BY <1>12, <2>3, <2>4, <2>5 DEF Undo
<1>13. ASSUME Undone  PROVE  OwingOK'
  <2> DEFINE k == portalRequest.kind
  <2>1. portalPc \in {"undo", "undone"} /\ UNCHANGED <<closed, portalHeld, touches, portalAsked>>
        /\ portalPc' \in {"fail", "idle"} /\ (portalPc' = "idle" => err # "fatal")
    BY <1>13 DEF Undone, input
  <2>2. CASE portalPc' = "fail"
    BY <2>2 DEF OwingOK, Works
  <2>3. CASE portalPc' = "idle"
    <3>1. portalPc = "undo" /\ err # "fatal"
      BY <2>1, <2>3 DEF OwingOK
    <3>2. Dragged = {} /\ Owes \intersect portalHeld = {} /\ (k = "touch" => touches = {})
      BY <1>13, <3>1 DEF Undone
    <3>3. touches = {} /\ portalHeld \subseteq Owing \union portalAcquired \union {y \in {portalRequest.item} : k = "drag"}
      BY <3>1, <3>2 DEF OwingOK, Works
    <3>4. portalRequest \in PortalRequests /\ k # "capture" /\ (k \in PortalUps => portalAcquired = {})
      BY <3>1 DEF KeyTypes, Works
    <3>5. k = "drag" => portalRequest.item \in MouseButtons
      BY <3>4 DEF PortalRequests
    <3>6. k = "drag" => portalRequest.item \notin portalHeld
      BY <3>2, <3>5 DEF Dragged
    <3>7. portalHeld \intersect portalAcquired = {}
      BY <3>2, <3>4 DEF Owes
    <3>8. portalHeld \subseteq Owing
      BY <3>3, <3>6, <3>7
    <3>9. portalHeld \subseteq Owing'
      <4>1. CASE k \in PortalUps
        <5>1. portalRequest.item \in Items /\ portalOwed \in [Items -> SUBSET Modifiers]
          BY <3>4, <4>1, LastOfKinds DEF KeyTypes, PortalUps
        <5>2. portalOwed' = [portalOwed EXCEPT ![portalRequest.item] = {}]
          BY <1>13, <4>1 DEF Undone
        <5>3. portalHeld \intersect portalOwed[portalRequest.item] = {}
          BY <3>2, <4>1 DEF Owes
        <5>4. \A i \in Items : i # portalRequest.item => portalOwed'[i] = portalOwed[i]
          BY <5>1, <5>2
        <5>5. QED  BY <2>1, <3>8, <5>1, <5>3, <5>4 DEF Owing
      <4>2. CASE k \notin PortalUps
        BY <1>13, <2>1, <3>8, <4>2 DEF Undone, Owing
      <4>3. QED  BY <4>1, <4>2
    <3>10. QED  BY <2>1, <2>3, <3>3, <3>9 DEF OwingOK, Works
  <2>4. QED  BY <2>1, <2>2, <2>3
<1>14. ASSUME Fail  PROVE  OwingOK'
  BY <1>14 DEF Fail, OwingOK, Owing, SessionTypes, Attempts, Works, grant, keys, portalCall
<1>15. ASSUME Release  PROVE  OwingOK'
  BY <1>15 DEF Release, Lifting, Untouching, Fault, OwingOK, Owing, SessionTypes, Attempts, Works, grant,
     input, portalCall
<1>16. ASSUME Close  PROVE  OwingOK'
  BY <1>16 DEF Close, OwingOK, Owing, SessionTypes, Attempts, Works, portalCall
<1>17. ASSUME Stopping  PROVE  OwingOK'
  BY <1>17 DEF Stopping, OwingOK, Owing, SessionTypes, Attempts, Works, portalCall
<1>18. ASSUME Stop  PROVE  OwingOK'
  BY <1>18 DEF Stop, OwingOK, Owing, SessionTypes, Attempts, Works, grant, keys, portalCall
<1>19. ASSUME Revoke  PROVE  OwingOK'
  BY <1>19 DEF Revoke, Fault, OwingOK, Owing, SessionTypes, Attempts, Works, portalCall
<1>20. CASE UNCHANGED portalVars
  BY <1>20 DEF portalVars, OwingOK, Owing, SessionTypes, Attempts, Works, grant, keys, input, portalCall
<1>21. QED
  BY <1>1, <1>2, <1>3, <1>4, <1>5, <1>6, <1>7, <1>8, <1>9, <1>10,
     <1>11, <1>12, <1>13, <1>14, <1>15, <1>16, <1>17, <1>18, <1>19, <1>20
  DEF PortalNext, PortalServe

\* As long as no modifier crosses a letter, the keys that are held are sent as before.
LEMMA EventKept ==
  ASSUME KeyTypes, NEW x \in Items, ~Crosses(x),
         portalHeld' = portalHeld \union {x} \/ portalHeld' = portalHeld \ {x},
         NEW y \in portalHeld \union touches \union {x}
  PROVE  Event(y)' = Event(y)
<1>1. CASE y \notin Letters
  BY <1>1 DEF Event
<1>2. CASE y \in Letters
  <2>1. y \in portalHeld \union {x}
    BY <1>2, PortalAssumption DEF KeyTypes
  <2>2. x \notin Modifiers
    BY <1>2, <2>1, PortalAssumption DEF Crosses
  <2>3. portalHeld' \intersect Modifiers = portalHeld \intersect Modifiers
    BY <2>2
  <2>4. QED  BY <2>3 DEF Event
<1>3. QED  BY <1>1, <1>2

\* The compositor follows the driver, key by key and contact by contact.
LEMMA PressedInput ==
  ASSUME KeyTypes, PressedOK, UNCHANGED closed, NEW x, PortalInput(x)
  PROVE  PressedOK'
<1> SUFFICES ASSUME ~crossed', ~closed  PROVE  pressed' = {Event(y)' : y \in portalHeld' \union touches'}
  BY DEF PressedOK
<1>1. \A y, z : (Event(y) = Event(z) => y = z) /\ (Event(y)' = Event(z)' => y = z)
  BY DEF Event
<1>2. CASE x \in Items /\ Pressing(x)
  <2>1. ~crossed /\ ~Crosses(x) /\ pressed' = pressed \union {Event(x)}
        /\ portalHeld' = portalHeld \union {x} /\ touches' = touches
    BY <1>2 DEF Pressing
  <2>2. \A y \in portalHeld \union touches \union {x} : Event(y)' = Event(y)
    BY <1>2, <2>1, EventKept
  <2>3. pressed = {Event(y) : y \in portalHeld \union touches}
    BY <2>1 DEF PressedOK
  <2>4. QED  BY <2>1, <2>2, <2>3
<1>3. CASE x \in Items /\ Lifting(x)
  <2>1. ~crossed /\ ~Crosses(x) /\ pressed' = pressed \ {Event(x)}
        /\ portalHeld' = portalHeld \ {x} /\ touches' = touches
    BY <1>3 DEF Lifting
  <2>2. \A y \in portalHeld \union touches \union {x} : Event(y)' = Event(y)
    BY <1>3, <2>1, EventKept
  <2>3. pressed = {Event(y) : y \in portalHeld \union touches}
    BY <2>1 DEF PressedOK
  <2>4. portalHeld' \union touches' = (portalHeld \union touches) \ {x}
    BY <1>3, <2>1, PortalAssumption DEF KeyTypes, Items
  <2>5. QED  BY <1>1, <2>1, <2>2, <2>3, <2>4
<1>4. CASE x \in Slots /\ Touching(x)
  <2>1. ~crossed /\ pressed' = pressed \union {Touch(x)} /\ portalHeld' = portalHeld /\ touches' = touches \union {x}
    BY <1>4 DEF Touching
  <2>2. Touch(x) = Event(x) /\ \A y : Event(y)' = Event(y)
    BY <1>4, <2>1, PortalAssumption DEF Touch, Event
  <2>3. pressed = {Event(y) : y \in portalHeld \union touches}
    BY <2>1 DEF PressedOK
  <2>4. QED  BY <2>1, <2>2, <2>3
<1>5. CASE x \in Slots /\ Untouching(x)
  <2>1. ~crossed /\ pressed' = pressed \ {Touch(x)} /\ portalHeld' = portalHeld /\ touches' = touches \ {x}
    BY <1>5 DEF Untouching
  <2>2. Touch(x) = Event(x) /\ \A y : Event(y)' = Event(y)
    BY <1>5, <2>1, PortalAssumption DEF Touch, Event
  <2>3. pressed = {Event(y) : y \in portalHeld \union touches}
    BY <2>1 DEF PressedOK
  <2>4. portalHeld' \union touches' = (portalHeld \union touches) \ {x}
    BY <1>5, <2>1, PortalAssumption DEF KeyTypes, Items
  <2>5. QED  BY <1>1, <2>1, <2>2, <2>3, <2>4
<1>6. CASE UNCHANGED input
  BY <1>6 DEF input, PressedOK, Event
<1>7. QED  BY <1>2, <1>3, <1>4, <1>5, <1>6 DEF PortalInput

\* What is pressed stays what is held.
LEMMA PressedStep ==
  ASSUME KeyTypes, PlanOK, PressedOK, [PortalNext]_portalVars
  PROVE  PressedOK'
<1>1. ASSUME NEW r \in PortalRequests, PortalAsk(r)  PROVE  PressedOK'
  BY <1>1 DEF PortalAsk, PressedOK, Event, grant, keys
<1>2. ASSUME Start  PROVE  PressedOK'
  BY <1>2 DEF Start, Fault, PressedOK, Event, keys, portalCall
<1>3. ASSUME Send  PROVE  PressedOK'
  BY <1>3 DEF Send, PressedOK, Event, keys, portalCall
<1>4. ASSUME Answer  PROVE  PressedOK'
  BY <1>4 DEF Answer, Rejected, Spend, Fault, PressedOK, Event, keys
<1>5. ASSUME Forget  PROVE  PressedOK'
  BY <1>5 DEF Forget, DeleteToken, Unwritten, Fault, PressedOK, Event, keys, portalCall
<1>6. ASSUME Drop  PROVE  PressedOK'
  BY <1>6 DEF Drop, PressedOK, Event, keys
<1>7. ASSUME Save  PROVE  PressedOK'
  BY <1>7 DEF Save, WriteToken, Unwritten, Fault, PressedOK, Event, keys, portalCall
<1>8. ASSUME Open  PROVE  PressedOK'
  BY <1>8 DEF Open, Fault, PressedOK, Event, keys, portalCall
<1>9. ASSUME Frame  PROVE  PressedOK'
  BY <1>9 DEF Frame, PressedOK, Event, grant, keys, portalCall
<1>10. ASSUME Run  PROVE  PressedOK'
  <2>1. UNCHANGED closed
    BY <1>10 DEF Run
  <2>2. CASE UNCHANGED keys
    BY <2>1, <2>2 DEF keys, PressedOK, Event
  <2>3. CASE ~UNCHANGED keys
    <3>1. PortalInput(Head(plan).item)
      <4>1. portalAcquired \subseteq Items
        BY DEF KeyTypes, Items
      <4>2. QED  BY <1>10, <2>3, <4>1, RunIs DEF PortalInput
    <3>2. QED  BY <2>1, <3>1, PressedInput
  <2>4. QED  BY <2>2, <2>3
<1>11. ASSUME Ran  PROVE  PressedOK'
  BY <1>11 DEF Ran, PressedOK, Event, grant
<1>12. ASSUME Undo  PROVE  PressedOK'
  <2>1. UNCHANGED closed /\ portalHeld \subseteq Items /\ touches \subseteq Slots
    BY <1>12 DEF Undo, KeyTypes
  <2>2. \/ \E x \in portalHeld : Lifting(x)
        \/ \E x \in touches : Untouching(x)
        \/ UNCHANGED input
    BY <1>12 DEF Undo, Dragged
  <2>3. CASE \E x \in portalHeld : Lifting(x)
    BY <2>1, <2>3, PressedInput DEF PortalInput
  <2>4. CASE \E x \in touches : Untouching(x)
    BY <2>1, <2>4, PressedInput DEF PortalInput
  <2>5. CASE UNCHANGED input
    BY <2>1, <2>5 DEF input, PressedOK, Event
  <2>6. QED  BY <2>2, <2>3, <2>4, <2>5
<1>13. ASSUME Undone  PROVE  PressedOK'
  BY <1>13 DEF Undone, PressedOK, Event, grant, input, portalCall
<1>14. ASSUME Fail  PROVE  PressedOK'
  BY <1>14 DEF Fail, PressedOK, Event, grant, keys, portalCall
<1>15. ASSUME Release  PROVE  PressedOK'
  <2>1. UNCHANGED closed /\ portalHeld \subseteq Items /\ touches \subseteq Slots
    BY <1>15 DEF Release, KeyTypes
  <2>2. \/ \E x \in portalHeld : Lifting(x)
        \/ \E x \in touches : Untouching(x)
        \/ UNCHANGED input
    BY <1>15 DEF Release
  <2>3. CASE \E x \in portalHeld : Lifting(x)
    BY <2>1, <2>3, PressedInput DEF PortalInput
  <2>4. CASE \E x \in touches : Untouching(x)
    BY <2>1, <2>4, PressedInput DEF PortalInput
  <2>5. CASE UNCHANGED input
    BY <2>1, <2>5 DEF input, PressedOK, Event
  <2>6. QED  BY <2>2, <2>3, <2>4, <2>5
<1>16. ASSUME Close  PROVE  PressedOK'
  BY <1>16 DEF Close, PressedOK, Event, portalCall
<1>17. ASSUME Stopping  PROVE  PressedOK'
  BY <1>17 DEF Stopping, PressedOK, Event, portalCall
<1>18. ASSUME Stop  PROVE  PressedOK'
  BY <1>18 DEF Stop, PressedOK, Event, grant, keys, portalCall
<1>19. ASSUME Revoke  PROVE  PressedOK'
  BY <1>19 DEF Revoke, Fault, PressedOK, Event, portalCall
<1>20. CASE UNCHANGED portalVars
  BY <1>20 DEF portalVars, PressedOK, Event, grant, keys, input, portalCall
<1>21. QED
  BY <1>1, <1>2, <1>3, <1>4, <1>5, <1>6, <1>7, <1>8, <1>9, <1>10,
     <1>11, <1>12, <1>13, <1>14, <1>15, <1>16, <1>17, <1>18, <1>19, <1>20
  DEF PortalNext, PortalServe

\* The portal's invariant holds at first, and every step keeps it.
LEMMA PortalInitInv ==
  ASSUME PortalInit  PROVE  PortalInv
<1>1. SessionTypes /\ CauseOK /\ AttemptOK /\ DiskOK
  <2>1. portalPc = "idle" /\ portalPc \notin Attempts /\ prompts = [saved |-> 0, normal |-> 0] /\ err = "no"
    BY DEF PortalInit, Attempts
  <2>2. prompts \in [saved : 0..1, normal : 0..1] /\ prompts.normal = 0 /\ prompts.saved = 0
    BY <2>1
  <2>3. SessionTypes
    BY <2>1, <2>2 DEF PortalInit, SessionTypes
  <2>4. CauseOK
    BY <2>1 DEF PortalInit, CauseOK
  <2>5. AttemptOK
    BY <2>1, <2>2 DEF PortalInit, AttemptOK
  <2>6. DiskOK
    BY <2>1, <2>2 DEF PortalInit, DiskOK
  <2>7. QED  BY <2>3, <2>4, <2>5, <2>6
<1>2. KeyTypes
  BY DEF PortalInit, KeyTypes, Works
<1>3. PlanOK /\ OwingOK /\ PressedOK
  BY DEF PortalInit, PlanOK, OwingOK, PressedOK, Works
<1>4. QED  BY <1>1, <1>2, <1>3 DEF PortalInv

LEMMA PortalStepInv ==
  ASSUME PortalInv, [PortalNext]_portalVars  PROVE  PortalInv'
<1>1. SessionTypes' /\ CauseOK' /\ AttemptOK' /\ DiskOK'
  BY SessionStep, CauseStep, AttemptStep, DiskStep DEF PortalInv
<1>2. KeyTypes' /\ PlanOK'
  BY KeyStep, PlanStep DEF PortalInv
<1>3. OwingOK' /\ PressedOK'
  BY OwingStep, PressedStep DEF PortalInv
<1>4. QED  BY <1>1, <1>2, <1>3 DEF PortalInv

\* What the invariant says between two requests and at the end.
LEMMA PortalIsSafe ==
  ASSUME PortalInv  PROVE  PortalSafe
<1>1. PortalTypeOK
  BY DEF PortalInv, SessionTypes, KeyTypes, PortalTypeOK
<1>2. ClosedForCause /\ EndsClosed
  BY DEF PortalInv, CauseOK, ClosedForCause, EndsClosed
<1>3. SpentIsGone
  <2>1. "idle" \notin Attempts \union {"fail"}
    BY DEF Attempts
  <2>2. QED  BY <2>1 DEF PortalInv, DiskOK, SpentIsGone
<1>4. PressedIsAskedFor
  BY DEF PortalInv, OwingOK, Owing, Works, PressedIsAskedFor
<1>5. PressedIsHeld
  <2> SUFFICES ASSUME ~closed, ~crossed  PROVE  {e.item : e \in pressed} = portalHeld \union touches
    BY DEF PressedIsHeld
  <2>1. pressed = {Event(x) : x \in portalHeld \union touches}
    BY DEF PortalInv, PressedOK
  <2>2. \A x : Event(x).item = x
    BY DEF Event
  <2>3. QED  BY <2>1, <2>2
<1>6. QED  BY <1>1, <1>2, <1>3, <1>4, <1>5 DEF PortalSafe

\* The inductive invariant of the portal holds in every run.
THEOREM PortalInvariant == PortalSpec => []PortalInv
<1>1. PortalInit => PortalInv
  BY PortalInitInv
<1>2. PortalInv /\ [PortalNext]_portalVars => PortalInv'
  BY PortalStepInv
<1>3. QED  BY <1>1, <1>2, PTL DEF PortalSpec

\* A session is given up for a cause only, a spent token is left on the disk only by a run that fails
\* before its streams are open, and between two requests what is pressed is what was asked for, key
\* by key.
THEOREM PortalStaysSafe == PortalSpec => []PortalSafe
<1>1. PortalInv => PortalSafe
  BY PortalIsSafe
<1>2. QED  BY <1>1, PortalInvariant, PTL

\* The person is asked at most once for a permission they have not given, and never again
\* after a no.
THEOREM PersonIsAskedOnce == PortalSpec => AskedOnce
<1>1. ASSUME PortalInv, [PortalNext]_portalVars
      PROVE  [prompts' # prompts => ~cancelled /\ prompts.normal = 0]_portalVars
  <2> SUFFICES ASSUME PortalNext, prompts' # prompts  PROVE  ~cancelled /\ prompts.normal = 0
    BY <1>1
  <2>1. Send
    BY DEF PortalNext, PortalServe, PortalAsk, Start, Answer, Forget, Drop, Save, Open, Frame, Run, Ran, Undo,
       Undone,
       Fail, Release, Close, Stopping, Stop, Revoke, grant
  <2>2. portalPc = "consent"
    BY <2>1 DEF Send
  <2>3. QED  BY <1>1, <2>2 DEF PortalInv, AttemptOK, Attempts
<1>2. QED  BY <1>1, PortalInvariant, PTL DEF PortalSpec, AskedOnce

-----------------------------------------------------------------------------
(* X11Windows: the inductive invariant.                                     *)

Mails == [kind : {"activate", "close", "minimize", "maximize", "unmaximize", "place"}, window : Windows]
ActionRequests == [action : WindowActions, window : Windows \ {Overlay}]

\* The types: the screen, the mail, what is left to look at.
WindowTypes ==
    /\ order \in Seq(Windows) /\ rest \in Seq(Windows) /\ mail \in Seq(Mails)
    /\ activeWindow \in Windows \union {NoWindow}
    /\ hidden \subseteq Windows /\ big \subseteq Windows /\ placed \subseteq Windows

\* The places of a request, which is not answered before its end.
CallOK ==
    /\ windowRequest \in WindowRequests \union {Unasked}
    /\ windowPc \in {"idle", "send", "wait", "poll", "scan"}
    /\ windowPc \in {"send", "wait", "poll"} => windowRequest \in ActionRequests
    /\ windowPc = "wait" => windowRequest.action = "focus"
    /\ windowPc = "scan" => windowRequest.action = "app_at"
    /\ windowPc # "idle" => windowReply = Unasked
    /\ windowReply.window \in Windows \union {NoWindow}

\* The focus has been where the answer says.
FocusOK ==
    /\ windowPc # "idle" => activeWindow \in focused
    /\ windowRequest.action = "focus" /\ (windowPc = "poll" \/ windowReply.action = "window") =>
           \E w \in focused \ {NoWindow} : windowRequest.window \in {w, Owner[w]}

\* A window that is answered as gone does not come back.
CloseOK ==
    windowRequest.action = "close" /\ windowReply = [action |-> "window", window |-> NoWindow] =>
        ~There(windowRequest.window)

\* The messages of set_bounds: what is still in the mail, and what is done.
BoundsOK ==
    was.calm /\ windowRequest.action = "set_bounds" =>
        LET w == windowRequest.window IN
        /\ windowPc = "send" => mail = <<>> /\ (was.big <=> w \in big)
        /\ (windowPc = "poll" \/ windowReply.action = "window") /\ There(w) =>
               \/ mail = <<Message("unmaximize", w), Message("place", w)>>
               \/ mail = <<Message("place", w)>> /\ w \notin big
               \/ mail = <<>> /\ w \in placed

\* The places of the windows that a click would reach, and what app_at has left behind.
Reachable == {i \in DOMAIN order : order[i] \in Covers \ (hidden \union {Overlay})}
ScanOK ==
    windowSteady =>
        /\ windowPc = "scan" =>
               \E k \in 0..Len(order) :
                   rest = SubSeq(order, k + 1, Len(order)) /\ \A i \in Reachable : k < i
        /\ windowReply.action = "app_at" =>
               \/ Reachable = {} /\ windowReply.window = NoWindow
               \/ \E i \in Reachable : windowReply.window = order[i] /\ \A j \in Reachable : i <= j

WindowsInv == WindowTypes /\ CallOK /\ FocusOK /\ CloseOK /\ BoundsOK /\ ScanOK

\* The elements of two sequences, one after the other, and their places.
LEMMA JoinedIs ==
    ASSUME NEW S, NEW a \in Seq(S), NEW b \in Seq(S)
    PROVE  /\ a \o b \in Seq(S) /\ Len(a \o b) = Len(a) + Len(b) /\ DOMAIN (a \o b) = 1..(Len(a) + Len(b))
           /\ \A i \in 1..Len(a) : (a \o b)[i] = a[i]
           /\ \A i \in 1..Len(b) : (a \o b)[Len(a) + i] = b[i]
  <1>1. a \o b \in Seq(S) /\ Len(a \o b) = Len(a) + Len(b) /\ Len(a) \in Nat /\ Len(b) \in Nat
    OBVIOUS
  <1>2. DOMAIN (a \o b) = 1..(Len(a) + Len(b))
    BY <1>1
  <1>3. \A i \in 1..Len(a) : (a \o b)[i] = a[i]
    OBVIOUS
  <1>4. \A i \in 1..Len(b) : (a \o b)[Len(a) + i] = b[i]
    OBVIOUS
  <1> QED BY <1>1, <1>2, <1>3, <1>4

-----------------------------------------------------------------------------
(* X11Windows: facts about windows and messages.                            *)

\* What a request has.
LEMMA WindowRequestIs ==
    ASSUME NEW r \in WindowRequests
    PROVE  /\ r.action = "app_at" \/ r \in ActionRequests
           /\ r.action = "app_at" => r.window = NoWindow
           /\ r \in ActionRequests => r.window \in Windows /\ r.window # NoWindow /\ r.action \in WindowActions /\ r.action # "app_at"
BY X11WindowsAssumption DEF WindowRequests, ActionRequests, WindowActions

\* Two one-element sequences make one of two.
LEMMA TwoJoined ==
    ASSUME NEW x, NEW y
    PROVE  <<x>> \o <<y>> = <<x, y>>
  <1> DEFINE s == <<x>> \o <<y>>  t == <<x, y>>
  <1>1. <<x>> \in Seq({x, y}) /\ <<y>> \in Seq({x, y}) /\ Len(<<x>>) = 1 /\ Len(<<y>>) = 1 /\ <<x>>[1] = x /\ <<y>>[1] = y
    OBVIOUS
  <1>2. s \in Seq({x, y}) /\ DOMAIN s = 1..2 /\ s[1] = x /\ s[2] = y
    BY <1>1
  <1>3. t \in Seq({x, y}) /\ DOMAIN t = 1..2 /\ t[1] = x /\ t[2] = y
    OBVIOUS
  <1>4. Len(s) = 2 /\ Len(t) = 2
    BY <1>1, <1>3
  <1> HIDE DEF s, t
  <1>5. \A i \in 1..2 : s[i] = t[i]
    BY <1>2, <1>3
  <1>6. s = t
    BY <1>2, <1>3, <1>4, <1>5
  <1> QED BY <1>6 DEF s, t

\* What an action sends are messages about its window.
LEMMA MessagesAre ==
    ASSUME NEW w \in Windows, NEW a \in WindowActions
    PROVE  /\ Messages(a, w) \in Seq(Mails)
           /\ a = "set_bounds" =>
                  Messages(a, w) = IF was.big THEN <<Message("unmaximize", w), Message("place", w)>> ELSE <<Message("place", w)>>
  <1> DEFINE one(kind) == <<Message(kind, w)>>
  <1>1. \A kind \in {"activate", "close", "minimize", "maximize", "unmaximize", "place"} : Message(kind, w) \in Mails
    BY DEF Message, Mails
  <1>2. /\ one("activate") \in Seq(Mails) /\ one("unmaximize") \in Seq(Mails) /\ one("place") \in Seq(Mails)
        /\ one("minimize") \in Seq(Mails) /\ one("maximize") \in Seq(Mails) /\ one("close") \in Seq(Mails) /\ <<>> \in Seq(Mails)
    BY <1>1
  <1>3. CASE a = "restore"
    <2>1. Messages(a, w) = (IF was.hidden THEN one("activate") ELSE <<>>) \o one("unmaximize")
      BY <1>3 DEF Messages
    <2> QED BY <1>2, <1>3, <2>1
  <1>4. CASE a = "set_bounds"
    <2>1. Messages(a, w) = (IF was.big THEN one("unmaximize") ELSE <<>>) \o one("place")
      BY <1>4 DEF Messages
    <2>2. one("unmaximize") \o one("place") = <<Message("unmaximize", w), Message("place", w)>>
      BY TwoJoined
    <2>3. <<>> \o one("place") = one("place")
      BY <1>2
    <2>4. Messages(a, w) = IF was.big THEN <<Message("unmaximize", w), Message("place", w)>> ELSE <<Message("place", w)>>
      BY <2>1, <2>2, <2>3
    <2>5. Messages(a, w) \in Seq(Mails)
      BY <1>2, <2>1
    <2> QED BY <2>4, <2>5
  <1>5. CASE a = "focus"
    BY <1>2, <1>5 DEF Messages
  <1>6. CASE a \in {"minimize", "maximize", "close"}
    <2>1. Messages(a, w) = one(a)
      BY <1>6 DEF Messages
    <2> QED BY <1>2, <1>6, <2>1
  <1> QED BY <1>3, <1>4, <1>5, <1>6 DEF WindowActions

\* A window that comes to the front, and one that goes, leave the others.
LEMMA RaisesKeep ==
    ASSUME WindowTypes, NEW w \in Windows, Raise(w)
    PROVE  /\ order' \in Seq(Windows) /\ activeWindow' \in Windows \union {NoWindow} /\ hidden' \subseteq Windows
           /\ ToSet(order') \subseteq ToSet(order)
  <1>1. PICK i \in DOMAIN order : order[i] = w /\ order' = [j \in DOMAIN order |->
                IF j \in (Foremost + 1)..i THEN order[j - 1] ELSE IF j = Foremost THEN w ELSE order[j]]
    BY DEF Raise
  <1>2. DOMAIN order = 1..Len(order) /\ Len(order) \in Nat /\ Foremost \in {1, 2} /\ \A j \in 1..Len(order) : order[j] \in Windows
    BY DEF WindowTypes, Foremost
  <1>3. ASSUME NEW j \in DOMAIN order PROVE order'[j] \in Windows /\ order'[j] \in ToSet(order)
    <2>1. CASE j \in (Foremost + 1)..i
      <3>1. j - 1 \in DOMAIN order
        BY <1>2, <2>1
      <3> QED BY <1>1, <1>2, <1>3, <2>1, <3>1 DEF ToSet
    <2>2. CASE j \notin (Foremost + 1)..i
      BY <1>1, <1>2, <1>3, <2>2 DEF ToSet
    <2> QED BY <2>1, <2>2
  <1>4. DOMAIN order' = 1..Len(order)
    BY <1>1, <1>2
  <1>5. order' \in [1..Len(order) -> Windows]
    BY <1>1, <1>2, <1>3
  <1>6. order' \in Seq(Windows)
    BY <1>2, <1>5
  <1>7. ToSet(order') \subseteq ToSet(order)
    BY <1>2, <1>3, <1>4 DEF ToSet
  <1> QED BY <1>6, <1>7 DEF Raise, WindowTypes

LEMMA TakingKeeps ==
    ASSUME WindowTypes, NEW w \in Windows, TakeAway(w)
    PROVE  /\ order' \in Seq(Windows) /\ activeWindow' \in Windows \union {NoWindow} /\ hidden' \subseteq Windows
           /\ ToSet(order') \subseteq ToSet(order)
  <1>1. PICK i \in DOMAIN order : order' = SubSeq(order, 1, i - 1) \o SubSeq(order, i + 1, Len(order))
    BY DEF TakeAway, RemoveAt
  <1>2. DOMAIN order = 1..Len(order) /\ Len(order) \in Nat /\ i \in 1..Len(order) /\ \A j \in 1..Len(order) : order[j] \in Windows
    BY DEF WindowTypes
  <1> DEFINE before == SubSeq(order, 1, i - 1)  after == SubSeq(order, i + 1, Len(order))
  <1>3. before \in Seq(Windows) /\ DOMAIN before = 1..(i - 1) /\ \A j \in 1..(i - 1) : before[j] = order[j] /\ j \in DOMAIN order
    BY <1>2 DEF WindowTypes
  <1>4. /\ after \in Seq(Windows) /\ DOMAIN after = 1..(Len(order) - i)
        /\ \A j \in 1..(Len(order) - i) : after[j] = order[i + j] /\ i + j \in DOMAIN order
    BY <1>2 DEF WindowTypes
  <1>5. ToSet(before) \subseteq ToSet(order) /\ ToSet(after) \subseteq ToSet(order)
    BY <1>3, <1>4 DEF ToSet
  <1> HIDE DEF before, after
  <1>6. before \o after \in Seq(Windows) /\ ToSet(before \o after) \subseteq ToSet(before) \union ToSet(after)
    <2>1. \A a, b \in Seq(Windows) : a \o b \in Seq(Windows) /\ ToSet(a \o b) \subseteq ToSet(a) \union ToSet(b)
      <3>1. TAKE a, b \in Seq(Windows)
      <3>2. /\ a \o b \in Seq(Windows) /\ DOMAIN (a \o b) = 1..(Len(a) + Len(b))
            /\ \A j \in 1..Len(a) : (a \o b)[j] = a[j]
            /\ \A j \in 1..Len(b) : (a \o b)[Len(a) + j] = b[j]
        BY JoinedIs
      <3>3. DOMAIN a = 1..Len(a) /\ DOMAIN b = 1..Len(b) /\ Len(a) \in Nat /\ Len(b) \in Nat
        OBVIOUS
      <3>4. ASSUME NEW j \in 1..(Len(a) + Len(b)) PROVE (a \o b)[j] \in ToSet(a) \union ToSet(b)
        <4>1. CASE j \in 1..Len(a)
          BY <4>1, <3>2, <3>3 DEF ToSet
        <4>2. CASE j \notin 1..Len(a)
          <5>1. j - Len(a) \in 1..Len(b) /\ Len(a) + (j - Len(a)) = j
            BY <4>2, <3>3, <3>4
          <5>2. (a \o b)[j] = b[j - Len(a)]
            BY <5>1, <3>2
          <5> QED BY <5>1, <5>2, <3>3 DEF ToSet
        <4> QED BY <4>1, <4>2
      <3> QED BY <3>2, <3>4 DEF ToSet
    <2> QED BY <1>3, <1>4, <2>1
  <1>7. order' = before \o after
    BY <1>1 DEF before, after
  <1> QED BY <1>5, <1>6, <1>7 DEF TakeAway, WindowTypes

\* What the window manager and the user do leaves windows, and no window comes back.
LEMMA ScreenKeeps ==
    ASSUME WindowTypes, Manage \/ User
    PROVE  WindowTypes' /\ \A w : There(w)' => There(w)
  <1>1. CASE Manage
    <2> DEFINE w == Head(mail).window
    <2>1. Head(mail) \in Mails /\ Tail(mail) \in Seq(Mails)
      BY <1>1 DEF Manage, WindowTypes
    <2>2. w \in Windows /\ rest' = rest /\ mail' \in Seq(Mails)
      BY <1>1, <2>1 DEF Manage, Mails, windowCall
    <2> HIDE DEF w
    <2>3. CASE Raise(w) /\ UNCHANGED <<big, placed>>
      BY <2>2, <2>3, RaisesKeep DEF WindowTypes, There
    <2>4. CASE TakeAway(w) /\ UNCHANGED <<big, placed>>
      BY <2>2, <2>4, TakingKeeps DEF WindowTypes, There
    <2>5. CASE UNCHANGED order /\ activeWindow' \in {activeWindow, NoWindow} /\ hidden' \in {hidden, hidden \union {w}}
               /\ big' \in {big, big \union {w}, big \ {w}} /\ placed' \in {placed, placed \union {w}, placed \ {w}}
      BY <2>2, <2>5 DEF WindowTypes, There
    <2> QED BY <1>1, <2>3, <2>4, <2>5 DEF Manage, screen, Same, Shrink, w
  <1>2. CASE User
    <2>1. PICK w \in ToSet(order) : Raise(w) \/ TakeAway(w)
      BY <1>2 DEF User
    <2>2. w \in Windows /\ UNCHANGED <<big, placed, mail, rest>>
      BY <1>2 DEF User, WindowTypes, ToSet, windowCall
    <2> QED BY <2>1, <2>2, RaisesKeep, TakingKeeps DEF WindowTypes, There
  <1> QED BY <1>1, <1>2

-----------------------------------------------------------------------------
(* X11Windows: the steps.                                                   *)

\* Windows stay windows, and messages messages.
LEMMA TypesStep ==
    ASSUME WindowTypes, CallOK, [WindowsNext]_windowsVars
    PROVE  WindowTypes'
  <1>1. ASSUME NEW r \in WindowRequests, AskWindow(r) PROVE WindowTypes'
    <2>1. rest' \in {order, <<>>} /\ UNCHANGED <<screen, mail>>
      BY <1>1 DEF AskWindow
    <2>2. <<>> \in Seq(Windows)
      OBVIOUS
    <2> QED BY <2>1, <2>2 DEF screen, WindowTypes
  <1>2. CASE SendMessages
    <2>1. windowRequest.window \in Windows /\ windowRequest.action \in WindowActions
      BY <1>2 DEF SendMessages, CallOK, ActionRequests
    <2>2. mail \in Seq(Mails) /\ Messages(windowRequest.action, windowRequest.window) \in Seq(Mails)
      BY <2>1, MessagesAre DEF WindowTypes
    <2>3. mail' \in Seq(Mails)
      <3>1. mail' = mail \/ mail' = mail \o Messages(windowRequest.action, windowRequest.window)
        BY <1>2 DEF SendMessages
      <3>2. \A a, b \in Seq(Mails) : a \o b \in Seq(Mails)
        OBVIOUS
      <3> QED BY <2>2, <3>1, <3>2
    <2> QED BY <1>2, <2>3 DEF SendMessages, screen, WindowTypes
  <1>3. CASE WaitActive
    BY <1>3 DEF WaitActive, AnswerWindow, screen, WindowTypes
  <1>4. CASE Poll
    BY <1>4 DEF Poll, AnswerWindow, screen, WindowTypes
  <1>5. CASE Scan
    <2>1. rest' \in {rest, Tail(rest)} /\ (rest' # rest => rest # <<>>) /\ UNCHANGED <<screen, mail>>
      BY <1>5 DEF Scan
    <2>2. rest # <<>> => Tail(rest) \in Seq(Windows)
      BY DEF WindowTypes
    <2> QED BY <2>1, <2>2 DEF screen, WindowTypes
  <1>6. CASE Manage
    BY <1>6, ScreenKeeps DEF Manage, windowCall, WindowTypes
  <1>7. CASE User
    BY <1>7, ScreenKeeps DEF User, windowCall, WindowTypes
  <1>8. CASE UNCHANGED windowsVars
    BY <1>8 DEF windowsVars, screen, windowCall, WindowTypes
  <1> QED BY <1>1, <1>2, <1>3, <1>4, <1>5, <1>6, <1>7, <1>8 DEF WindowsNext, WindowsServe

\* A request is answered at its end.
LEMMA CallStep ==
    ASSUME WindowTypes, CallOK, [WindowsNext]_windowsVars
    PROVE  CallOK'
  <1>1. ASSUME NEW r \in WindowRequests, AskWindow(r) PROVE CallOK'
    <2>1. CASE r.action = "app_at"
      BY <1>1, <2>1 DEF AskWindow, CallOK, Unasked
    <2>2. CASE r.action # "app_at"
      BY <1>1, <2>2, WindowRequestIs DEF AskWindow, AnswerWindow, CallOK, Unasked
    <2> QED BY <2>1, <2>2
  <1>2. CASE SendMessages
    BY <1>2 DEF SendMessages, AnswerWindow, CallOK
  <1>3. CASE WaitActive
    BY <1>3 DEF WaitActive, AnswerWindow, screen, CallOK
  <1>4. CASE Poll
    <2>1. windowRequest.window \in Windows /\ windowPc' = "idle" /\ windowRequest' = windowRequest
          /\ windowReply'.window \in {windowRequest.window, NoWindow}
      BY <1>4 DEF Poll, AnswerWindow, CallOK, ActionRequests
    <2> QED BY <2>1 DEF CallOK
  <1>5. CASE Scan
    <2>1. CASE windowPc' = "idle" /\ windowReply'.window \in Windows \union {NoWindow}
      BY <1>5, <2>1 DEF Scan, CallOK
    <2>2. CASE UNCHANGED <<windowPc, windowReply>>
      BY <1>5, <2>2 DEF Scan, CallOK
    <2>3. rest # <<>> => Head(rest) \in Windows
      BY DEF WindowTypes
    <2> QED BY <1>5, <2>1, <2>2, <2>3 DEF Scan, AnswerWindow
  <1>6. CASE Manage
    BY <1>6 DEF Manage, windowCall, CallOK
  <1>7. CASE User
    BY <1>7 DEF User, windowCall, CallOK
  <1>8. CASE UNCHANGED windowsVars
    BY <1>8 DEF windowsVars, screen, windowCall, CallOK
  <1> QED BY <1>1, <1>2, <1>3, <1>4, <1>5, <1>6, <1>7, <1>8 DEF WindowsNext, WindowsServe

\* The focus comes before the answer that says so.
LEMMA FocusStep ==
    ASSUME WindowTypes, CallOK, FocusOK, [WindowsNext]_windowsVars
    PROVE  FocusOK'
  <1>1. ASSUME NEW r \in WindowRequests, AskWindow(r) PROVE FocusOK'
    <2>1. focused' = {activeWindow} /\ UNCHANGED activeWindow /\ windowPc' \in {"idle", "scan", "send"}
          /\ windowReply'.action \in {"none", "not_found"}
      BY <1>1 DEF AskWindow, AnswerWindow, screen, Unasked
    <2> QED BY <2>1 DEF FocusOK
  <1>2. CASE SendMessages
    <2>1. /\ UNCHANGED <<activeWindow, focused, windowRequest>> /\ windowPc = "send"
          /\ windowRequest.action = "focus" => windowPc' # "poll" /\ windowReply'.action \in {"none", "not_found"}
      BY <1>2 DEF SendMessages, AnswerWindow, screen, CallOK, Unasked
    <2> QED BY <2>1 DEF FocusOK
  <1>3. CASE WaitActive
    <2>1. UNCHANGED <<activeWindow, focused, windowRequest>> /\ activeWindow \in focused /\ windowRequest.window \in Windows
      BY <1>3 DEF WaitActive, screen, CallOK, FocusOK, ActionRequests
    <2>2. CASE windowPc' = "poll"
      <3>1. activeWindow # NoWindow /\ windowRequest.window \in {activeWindow, Owner[activeWindow]}
        BY <1>3, <2>1, <2>2, X11WindowsAssumption DEF WaitActive, AnswerWindow
      <3> QED BY <2>1, <3>1 DEF FocusOK
    <2>3. CASE windowPc' = "idle" /\ windowReply'.action = "blocked"
      BY <2>1, <2>3 DEF FocusOK
    <2> QED BY <1>3, <2>2, <2>3 DEF WaitActive, AnswerWindow
  <1>4. CASE Poll
    <2>1. UNCHANGED <<activeWindow, focused, windowRequest>> /\ windowPc = "poll" /\ windowPc' = "idle"
      BY <1>4 DEF Poll, AnswerWindow, screen
    <2> QED BY <2>1 DEF FocusOK
  <1>5. CASE Scan
    <2>1. UNCHANGED <<activeWindow, focused, windowRequest>> /\ windowPc = "scan" /\ windowRequest.action # "focus"
      BY <1>5 DEF Scan, screen, CallOK
    <2> QED BY <2>1 DEF FocusOK
  <1>6. CASE Manage
    BY <1>6 DEF Manage, windowCall, FocusOK
  <1>7. CASE User
    BY <1>7 DEF User, windowCall, FocusOK
  <1>8. CASE UNCHANGED windowsVars
    BY <1>8 DEF windowsVars, screen, windowCall, FocusOK
  <1> QED BY <1>1, <1>2, <1>3, <1>4, <1>5, <1>6, <1>7, <1>8 DEF WindowsNext, WindowsServe

\* What is gone stays gone.
LEMMA CloseStep ==
    ASSUME WindowTypes, CallOK, CloseOK, [WindowsNext]_windowsVars
    PROVE  CloseOK'
  <1>1. ASSUME NEW r \in WindowRequests, AskWindow(r) PROVE CloseOK'
    <2>1. windowReply'.action # "window"
      BY <1>1 DEF AskWindow, AnswerWindow, Unasked
    <2> QED BY <2>1 DEF CloseOK
  <1>2. CASE SendMessages
    <2>1. windowReply'.action # "window"
      BY <1>2 DEF SendMessages, AnswerWindow, Unasked, CallOK
    <2> QED BY <2>1 DEF CloseOK
  <1>3. CASE WaitActive
    <2>1. windowReply'.action # "window"
      BY <1>3 DEF WaitActive, AnswerWindow, Unasked, CallOK
    <2> QED BY <2>1 DEF CloseOK
  <1>4. CASE Poll
    <2>1. windowRequest.window \in Windows /\ UNCHANGED <<order, windowRequest>>
      BY <1>4 DEF Poll, screen, CallOK, ActionRequests
    <2>2. windowReply'.window = IF There(windowRequest.window) THEN windowRequest.window ELSE NoWindow
      BY <1>4 DEF Poll, AnswerWindow
    <2>3. windowReply'.window = NoWindow => ~There(windowRequest.window)
      BY <2>1, <2>2, X11WindowsAssumption
    <2> QED BY <2>1, <2>3 DEF CloseOK, There
  <1>5. CASE Scan
    <2>1. windowReply'.action # "window"
      BY <1>5 DEF Scan, AnswerWindow, Unasked, CallOK
    <2> QED BY <2>1 DEF CloseOK
  <1>6. CASE Manage
    <2>1. UNCHANGED <<windowRequest, windowReply>> /\ \A w : There(w)' => There(w)
      BY <1>6, ScreenKeeps DEF Manage, windowCall
    <2> QED BY <2>1 DEF CloseOK
  <1>7. CASE User
    <2>1. UNCHANGED <<windowRequest, windowReply>> /\ \A w : There(w)' => There(w)
      BY <1>7, ScreenKeeps DEF User, windowCall
    <2> QED BY <2>1 DEF CloseOK
  <1>8. CASE UNCHANGED windowsVars
    BY <1>8 DEF windowsVars, screen, windowCall, CloseOK, There
  <1> QED BY <1>1, <1>2, <1>3, <1>4, <1>5, <1>6, <1>7, <1>8 DEF WindowsNext, WindowsServe

\* Messages of set_bounds are obeyed one by one.
LEMMA BoundsStep ==
    ASSUME WindowTypes, CallOK, BoundsOK, [WindowsNext]_windowsVars
    PROVE  BoundsOK'
  <1>1. ASSUME NEW r \in WindowRequests, AskWindow(r) PROVE BoundsOK'
    <2>1. windowReply'.action \in {"none", "not_found"} /\ UNCHANGED <<mail, big>> /\ windowPc' # "poll" /\ windowRequest' = r
      BY <1>1 DEF AskWindow, AnswerWindow, screen, Unasked
    <2>2. was'.calm => mail = <<>>
      BY <1>1 DEF AskWindow
    <2>3. was'.big <=> r.window \in big
      BY <1>1 DEF AskWindow
    <2> QED BY <2>1, <2>2, <2>3 DEF BoundsOK
  <1>2. CASE SendMessages
    <2> DEFINE w == windowRequest.window
    <2>1. UNCHANGED <<was, big, placed, order, windowRequest>> /\ windowPc = "send" /\ w \in Windows /\ windowPc' # "send"
          /\ (There(w)' <=> There(w))
      BY <1>2 DEF SendMessages, AnswerWindow, screen, CallOK, ActionRequests, There
    <2>2. CASE There(w) /\ windowRequest.action = "set_bounds" /\ was.calm
      <3>1. mail = <<>> /\ (was.big <=> w \in big)
        BY <2>1, <2>2 DEF BoundsOK
      <3>2. mail' = mail \o Messages("set_bounds", w)
        BY <1>2, <2>2 DEF SendMessages
      <3>3. Messages("set_bounds", w) = (IF was.big THEN <<Message("unmaximize", w), Message("place", w)>> ELSE <<Message("place", w)>>)
            /\ Messages("set_bounds", w) \in Seq(Mails)
        BY <2>1, MessagesAre DEF WindowActions
      <3>4. \A s \in Seq(Mails) : <<>> \o s = s
        OBVIOUS
      <3>5. mail' = Messages("set_bounds", w)
        BY <3>1, <3>2, <3>3, <3>4
      <3> QED BY <2>1, <3>1, <3>3, <3>5 DEF BoundsOK, Message
    <2>3. CASE ~There(w)
      BY <2>1, <2>3 DEF BoundsOK
    <2>4. CASE windowRequest.action # "set_bounds" \/ ~was.calm
      BY <2>1, <2>4 DEF BoundsOK
    <2> QED BY <2>2, <2>3, <2>4
  <1>3. CASE WaitActive
    <2>1. windowRequest' = windowRequest /\ windowRequest.action # "set_bounds"
      BY <1>3 DEF WaitActive, CallOK
    <2> QED BY <2>1 DEF BoundsOK
  <1>4. CASE Poll
    <2>1. UNCHANGED <<was, big, placed, order, mail, windowRequest>> /\ windowPc = "poll" /\ windowPc' = "idle"
      BY <1>4 DEF Poll, AnswerWindow, screen
    <2> QED BY <2>1 DEF BoundsOK, There, Message
  <1>5. CASE Scan
    <2>1. windowRequest' = windowRequest /\ windowRequest.action # "set_bounds"
      BY <1>5 DEF Scan, CallOK
    <2> QED BY <2>1 DEF BoundsOK
  <1>6. CASE Manage
    <2> DEFINE w == windowRequest.window
    <2>1. UNCHANGED <<was, windowRequest, windowPc, windowReply>> /\ (There(w)' => There(w)) /\ mail # <<>> /\ mail' = Tail(mail)
      BY <1>6, ScreenKeeps DEF Manage, windowCall
    <2>2. CASE There(w)' /\ was.calm /\ windowRequest.action = "set_bounds" /\ (windowPc = "poll" \/ windowReply.action = "window")
      <3>1. CASE mail = <<Message("unmaximize", w), Message("place", w)>>
        <4>1. mail' = <<Message("place", w)>> /\ Head(mail) = Message("unmaximize", w)
          BY <2>1, <3>1
        <4>2. Head(mail).window = w /\ Head(mail).kind = "unmaximize"
          BY <4>1 DEF Message
        <4>3. w \notin big'
          BY <1>6, <2>1, <2>2, <4>2 DEF Manage, Shrink
        <4>4. windowPc # "send"
          BY <2>2 DEF CallOK, Unasked
        <4> QED BY <2>1, <4>1, <4>3, <4>4 DEF BoundsOK, Message
      <3>2. CASE mail = <<Message("place", w)>> /\ w \notin big
        <4>1. mail' = <<>> /\ Head(mail) = Message("place", w)
          BY <2>1, <3>2
        <4>2. Head(mail).window = w /\ Head(mail).kind = "place"
          BY <4>1 DEF Message
        <4>3. w \in placed'
          BY <1>6, <2>1, <2>2, <3>2, <4>2 DEF Manage
        <4>4. windowPc # "send"
          BY <2>2 DEF CallOK, Unasked
        <4> QED BY <2>1, <4>1, <4>3, <4>4 DEF BoundsOK, Message
      <3> QED BY <2>1, <2>2, <3>1, <3>2 DEF BoundsOK
    <2>3. CASE was.calm /\ windowRequest.action = "set_bounds" /\ windowPc = "send"
      BY <2>1, <2>3 DEF BoundsOK
    <2>4. CASE ~(There(w)' /\ (windowPc = "poll" \/ windowReply.action = "window")) /\ windowPc # "send"
      BY <2>1, <2>4 DEF BoundsOK
    <2>5. CASE ~(was.calm /\ windowRequest.action = "set_bounds")
      BY <2>1, <2>5 DEF BoundsOK
    <2> QED BY <2>2, <2>3, <2>4, <2>5
  <1>7. CASE User
    <2>1. UNCHANGED <<was, windowRequest, windowPc, windowReply, mail, big, placed>> /\ \A w : There(w)' => There(w)
      BY <1>7, ScreenKeeps DEF User, windowCall
    <2> QED BY <2>1 DEF BoundsOK, Message
  <1>8. CASE UNCHANGED windowsVars
    BY <1>8 DEF windowsVars, screen, windowCall, BoundsOK, There, Message
  <1> QED BY <1>1, <1>2, <1>3, <1>4, <1>5, <1>6, <1>7, <1>8 DEF WindowsNext, WindowsServe

\* What is left of a sequence after its first k elements.
LEMMA RestIs ==
    ASSUME NEW S, NEW s \in Seq(S), NEW k \in 0..Len(s)
    PROVE  /\ SubSeq(s, k + 1, Len(s)) \in Seq(S) /\ Len(SubSeq(s, k + 1, Len(s))) = Len(s) - k
           /\ k < Len(s) => /\ Head(SubSeq(s, k + 1, Len(s))) = s[k + 1]
                            /\ Tail(SubSeq(s, k + 1, Len(s))) = SubSeq(s, (k + 1) + 1, Len(s))
  <1>1. Len(s) \in Nat /\ k \in Int /\ k + 1 \in Int /\ \A i \in k + 1..Len(s) : s[i] \in S
    OBVIOUS
  <1>2. SubSeq(s, k + 1, Len(s)) \in Seq(S) /\ Len(SubSeq(s, k + 1, Len(s))) = IF k + 1 <= Len(s) THEN Len(s) - (k + 1) + 1 ELSE 0
    BY <1>1, SubSeqProperties
  <1>3. Len(SubSeq(s, k + 1, Len(s))) = Len(s) - k
    BY <1>1, <1>2
  <1>4. ASSUME k < Len(s)
        PROVE  /\ Head(SubSeq(s, k + 1, Len(s))) = s[k + 1]
               /\ Tail(SubSeq(s, k + 1, Len(s))) = SubSeq(s, (k + 1) + 1, Len(s))
    <2>1. k + 1 \in 1..Len(s) /\ Len(s) \in (k + 1)..Len(s)
      BY <1>1, <1>4
    <2> QED BY <2>1, HeadTailOfSubSeq
  <1> QED BY <1>2, <1>3, <1>4

\* What app_at has left behind covers nothing that a click would reach.
LEMMA ScanStep ==
    ASSUME WindowTypes, CallOK, ScanOK, [WindowsNext]_windowsVars
    PROVE  ScanOK'
  <1>1. ASSUME NEW r \in WindowRequests, AskWindow(r) PROVE ScanOK'
    <2>1. windowReply'.action # "app_at" /\ UNCHANGED <<order, hidden>> /\ (windowPc' = "scan" => rest' = order)
      BY <1>1 DEF AskWindow, AnswerWindow, screen, Unasked
    <2>2. order = SubSeq(order, 1, Len(order)) /\ Len(order) \in Nat /\ \A i \in Reachable : 0 < i
      BY DEF WindowTypes, Reachable
    <2>3. Reachable' = Reachable
      BY <2>1 DEF Reachable
    <2>4. windowPc' = "scan" => rest' = SubSeq(order', 0 + 1, Len(order')) /\ \A i \in Reachable' : 0 < i
      BY <2>1, <2>2, <2>3
    <2>5. 0 \in 0..Len(order')
      BY <2>1, <2>2
    <2> QED BY <2>1, <2>4, <2>5 DEF ScanOK
  <1>2. CASE SendMessages
    <2>1. windowPc' # "scan" /\ windowReply'.action # "app_at"
      BY <1>2 DEF SendMessages, AnswerWindow, CallOK, Unasked
    <2> QED BY <2>1 DEF ScanOK
  <1>3. CASE WaitActive
    <2>1. windowPc' # "scan" /\ windowReply'.action # "app_at"
      BY <1>3 DEF WaitActive, AnswerWindow, CallOK, Unasked
    <2> QED BY <2>1 DEF ScanOK
  <1>4. CASE Poll
    <2>1. windowPc' # "scan" /\ windowReply'.action # "app_at"
      BY <1>4 DEF Poll, AnswerWindow, CallOK, Unasked
    <2> QED BY <2>1 DEF ScanOK
  <1>5. CASE Scan
    <2>1. /\ UNCHANGED <<order, hidden, windowSteady>> /\ windowPc = "scan" /\ windowReply = Unasked
          /\ Reachable' = Reachable
      BY <1>5 DEF Scan, screen, CallOK, Reachable
    <2>2. ASSUME windowSteady
          PROVE  /\ windowPc' = "scan" =>
                      \E k \in 0..Len(order) : rest' = SubSeq(order, k + 1, Len(order)) /\ \A i \in Reachable : k < i
                 /\ windowReply'.action = "app_at" =>
                      \/ Reachable = {} /\ windowReply'.window = NoWindow
                      \/ \E i \in Reachable : windowReply'.window = order[i] /\ \A j \in Reachable : i <= j
      <3>1. PICK k \in 0..Len(order) : rest = SubSeq(order, k + 1, Len(order)) /\ \A i \in Reachable : k < i
        BY <2>1, <2>2 DEF ScanOK
      <3>2. Len(order) \in Nat /\ DOMAIN order = 1..Len(order) /\ k \in Nat /\ order \in Seq(Windows) /\ Reachable \subseteq 1..Len(order)
        BY DEF WindowTypes, Reachable
      <3>3. /\ Len(rest) = Len(order) - k /\ rest \in Seq(Windows)
            /\ k < Len(order) => Head(rest) = order[k + 1] /\ Tail(rest) = SubSeq(order, (k + 1) + 1, Len(order))
        BY <3>1, <3>2, RestIs
      <3>6. Len(rest) = Len(order) - k /\ rest \in Seq(Windows) /\ Len(order) \in Nat /\ k \in Nat /\ k <= Len(order)
        <4>1. Len(order) \in Nat /\ k \in 0..Len(order)
          BY <3>2
        <4>2. k \in Nat /\ k <= Len(order)
          BY <4>1
        <4> QED BY <4>1, <4>2, <3>3
      <3>4. CASE rest = <<>>
        <4>1. k = Len(order)
          <5>1. Len(rest) = 0
            BY <3>4
          <5> QED BY <3>6, <5>1
        <4>2. Reachable = {}
          BY <3>1, <3>2, <4>1
        <4> QED BY <1>5, <3>4, <4>2 DEF Scan, AnswerWindow
      <3>5. CASE rest # <<>>
        <4>1. k < Len(order) /\ k + 1 \in 1..Len(order) /\ k + 1 \in 0..Len(order) /\ Head(rest) = order[k + 1]
          <5>1. Len(rest) # 0
            BY <3>6, <3>5
          <5>2. k < Len(order)
            BY <3>6, <5>1
          <5>3. k + 1 \in 1..Len(order) /\ k + 1 \in 0..Len(order)
            BY <3>6, <5>2
          <5> QED BY <3>3, <5>2, <5>3
        <4>2. There(Head(rest))
          BY <3>2, <4>1 DEF There, ToSet
        <4>3. Head(rest) \notin hidden /\ Head(rest) \in Covers /\ Head(rest) # Overlay <=> k + 1 \in Reachable
          BY <3>2, <4>1 DEF Reachable
        <4>4. CASE k + 1 \in Reachable
          <5>1. windowPc' = "idle" /\ windowReply' = [action |-> "app_at", window |-> Head(rest)]
            BY <1>5, <3>5, <4>2, <4>3, <4>4 DEF Scan, AnswerWindow
          <5>2. \A j \in Reachable : k + 1 <= j
            BY <3>1, <3>2
          <5> QED BY <4>1, <4>4, <5>1, <5>2
        <4>5. CASE k + 1 \notin Reachable
          <5>1. rest' = Tail(rest) /\ UNCHANGED windowReply
            BY <1>5, <3>5, <4>3, <4>5 DEF Scan
          <5>2. Tail(rest) = SubSeq(order, (k + 1) + 1, Len(order))
            BY <3>3, <4>1
          <5>3. \A j \in Reachable : k + 1 < j
            BY <3>1, <3>2, <4>5
          <5>4. windowReply'.action # "app_at"
            BY <2>1, <5>1 DEF Unasked
          <5> QED BY <4>1, <5>1, <5>2, <5>3, <5>4
        <4> QED BY <4>4, <4>5
      <3> QED BY <3>4, <3>5
    <2> QED BY <2>1, <2>2 DEF ScanOK
  <1>6. CASE Manage
    <2>1. windowSteady' = FALSE
      BY <1>6 DEF Manage
    <2> QED BY <2>1 DEF ScanOK
  <1>7. CASE User
    <2>1. windowSteady' = FALSE
      BY <1>7 DEF User
    <2> QED BY <2>1 DEF ScanOK
  <1>8. CASE UNCHANGED windowsVars
    BY <1>8 DEF windowsVars, screen, windowCall, ScanOK, Reachable
  <1> QED BY <1>1, <1>2, <1>3, <1>4, <1>5, <1>6, <1>7, <1>8 DEF WindowsNext, WindowsServe

-----------------------------------------------------------------------------
(* X11Windows: the theorems.                                                *)

LEMMA WindowsInitInv ==
    ASSUME WindowsInit
    PROVE  WindowsInv
  <1>1. WindowTypes
    <2>1. order \in Seq(Windows)
      <3>1. Cardinality(Windows) \in Nat
        BY FS_CardinalityType, X11WindowsAssumption
      <3>2. order \in [1..Cardinality(Windows) -> Windows]
        BY DEF WindowsInit, SetToSeqs
      <3> QED BY <3>1, <3>2
    <2>2. <<>> \in Seq(Windows) /\ <<>> \in Seq(Mails)
      OBVIOUS
    <2> QED BY <2>1, <2>2 DEF WindowsInit, WindowTypes
  <1>2. CallOK
    BY DEF WindowsInit, CallOK, Unasked
  <1>3. FocusOK /\ CloseOK /\ BoundsOK /\ ScanOK
    BY DEF WindowsInit, Unasked, FocusOK, CloseOK, BoundsOK, ScanOK
  <1> QED BY <1>1, <1>2, <1>3 DEF WindowsInv

LEMMA WindowsStepInv ==
    ASSUME WindowsInv, [WindowsNext]_windowsVars
    PROVE  WindowsInv'
BY TypesStep, CallStep, FocusStep, CloseStep, BoundsStep, ScanStep DEF WindowsInv

LEMMA WindowsAreSafe ==
    ASSUME WindowsInv
    PROVE  WindowsSafe
  <1>1. WindowsTypeOK
    BY DEF WindowsInv, WindowTypes, CallOK, WindowsTypeOK, Mails
  <1>2. FocusCame /\ ClosedIsGone
    BY DEF WindowsInv, FocusOK, CloseOK, FocusCame, ClosedIsGone
  <1>3. BoundsTake
    BY DEF WindowsInv, BoundsOK, BoundsTake
  <1>4. AppAtIsFront
    BY DEF WindowsInv, ScanOK, Reachable, AppAtIsFront
  <1> QED BY <1>1, <1>2, <1>3, <1>4 DEF WindowsSafe

\* WindowsInv is an inductive invariant of the window requests.
THEOREM WindowsInvariant == WindowsSpec => []WindowsInv
  <1>1. WindowsInit => WindowsInv
    BY WindowsInitInv
  <1>2. WindowsInv /\ [WindowsNext]_windowsVars => WindowsInv'
    BY WindowsStepInv
  <1> QED BY <1>1, <1>2, PTL DEF WindowsSpec

\* Whenever the window manager obeys or declines, and whatever the user does meanwhile: an answer
\* that a window was focused, closed or placed is true of it, and app_at names the front window.
THEOREM WindowsStaySafe == WindowsSpec => []WindowsSafe
  <1>1. WindowsInv => WindowsSafe
    BY WindowsAreSafe
  <1> QED BY <1>1, WindowsInvariant, PTL

-----------------------------------------------------------------------------
(* Elements: the inductive invariant.                                       *)

Places == [node : Nodes, depth : Nat]
Stacked == {stack[i].node : i \in DOMAIN stack}
Acting == {"look", "read", "select_text", "states", "act", "look again"}
Toggles == {"expand", "collapse"}

\* The types: the application, and what the driver keeps of it.
AppTypes ==
    /\ alive \subseteq Nodes /\ showing \subseteq Nodes /\ secure \subseteq Nodes /\ open \subseteq Nodes
    /\ active \in Nodes
    /\ elementSteady \in BOOLEAN /\ told \subseteq Nodes /\ secret \subseteq Nodes

WalkTypes ==
    /\ root \in Nodes \union {NoNode} /\ visited \subseteq Nodes /\ truncated \in BOOLEAN /\ looked \in BOOLEAN
    /\ stack \in Seq(Places) /\ out \in Seq(Nodes) /\ store \in Seq(Nodes)

\* The requests and their places.
RequestsOK ==
    /\ elementPc \in {"idle", "visit", "descend", "climb"} \union Acting
    /\ elementRequest = NoRequest \/ elementRequest \in ElementRequests
    /\ elementPc = "visit" => elementRequest.kind \in {"elements", "focused"}
    /\ elementPc \in {"descend", "climb"} => elementRequest.kind = "point"
    /\ elementPc = "descend" => stack # <<>>
    /\ elementPc \in Acting => elementRequest.kind = "element_action"
    /\ elementPc \in {"read", "select_text"} => elementRequest.action = elementPc
    /\ elementPc # "idle" => elementReply = "none" /\ elementRequest # NoRequest
    /\ elementAsks \in [listings : 0..Listings, actions : Nat]

\* The newest listing numbers its elements one by one; ids of older ones have older epochs.
IdsOK ==
    /\ epoch \in 0..Listings /\ epoch <= elementAsks.listings
    /\ IsInjective(store)
    /\ issued \subseteq [epoch : 1..Listings, number : 1..Cardinality(Nodes), node : Nodes]
    /\ \A id \in issued :
           /\ id.epoch <= epoch
           /\ id.epoch = epoch => id.number \in DOMAIN store /\ store[id.number] = id.node
    /\ \/ elementPc = "visit" /\ elementRequest.kind = "elements"
       \/ elementPc = "climb"
       => epoch > 0 /\ ToSet(store) \subseteq visited
    /\ elementPc = "climb" /\ stack # <<>> => Below \notin visited
    /\ elementPc = "descend" => epoch > 0 /\ store = <<>>
    /\ elementPc \in Acting => elementRequest.id \in issued /\ elementRequest.id.epoch = epoch

\* Nodes that were secure all the time are not told, and not about to be read.
SecretsOK ==
    /\ secret \subseteq secure
    /\ told \intersect secret = {}
    /\ elementPc \in {"read", "select_text"} /\ ~looked => Target \notin secret

\* A node is toggled when it is not as asked, on a tree that stands still.
TogglesOK ==
    elementSteady /\ elementRequest.kind = "element_action" /\ elementRequest.action \in Toggles =>
        /\ elementPc = "act" => ~(Target \in open <=> elementRequest.action = "expand")
        /\ elementPc = "look again" \/ elementReply = "element" =>
               (Target \in open <=> elementRequest.action = "expand")

\* A listing without a depth on a tree that stands still: what the walk has come to can be
\* reached; while it is not truncated, what it has passed has its children passed or stacked, and is
\* listed when it matches; when it is, the listing is full and there is one more.
Lands == {n \in Nodes : \A S \in SUBSET Nodes : Closed(S) => n \in S}
Wanted(n) == Seen(n) /\ Matches(n)

Listing ==
    /\ elementPc = "visit" \/ elementReply = "listed"
    /\ elementRequest.kind = "elements" /\ elementRequest.depth = {} /\ elementSteady

WalkOK ==
    /\ root \in Nodes /\ visited \union Stacked \subseteq Lands
    /\ ~truncated =>
           /\ root \in visited \union Stacked
           /\ \A n \in visited : Seen(n) => ToSet(Kids[n]) \subseteq visited \union Stacked
    /\ truncated \/ elementReply = "listed" => stack = <<>>

OutOK ==
    /\ IsInjective(out) /\ \A most \in elementRequest.max : Len(out) <= most
    /\ \A n \in ToSet(out) : n \in visited /\ Wanted(n)
    /\ ~truncated => \A n \in visited : Wanted(n) => n \in ToSet(out)
    /\ truncated =>
           /\ \E most \in elementRequest.max : Len(out) = most
           /\ \E n \in Lands : Wanted(n) /\ n \notin ToSet(out)

ListingOK == Listing => WalkOK /\ OutOK

TreeInv == AppTypes /\ WalkTypes /\ RequestsOK /\ IdsOK /\ SecretsOK /\ TogglesOK /\ ListingOK

-----------------------------------------------------------------------------

(* Facts about windows, requests and stacks.                                *)

\* Places of a window list that are not none have a first.
LEMMA FirstOfPlaces ==
    ASSUME NEW P \in SUBSET Nat, P # {}
    PROVE  Min(P) \in P
  <1> DEFINE less == OpToRel(<, Nat)
  <1>1. \A x, y \in Nat : <<y, x>> \in less <=> y < x
    BY DEF OpToRel
  <1>2. IsWellFoundedOn(less, Nat)
    BY NatLessThanWellFounded
  <1> HIDE DEF less
  <1>3. PICK x \in P : \A y \in P : <<y, x>> \notin less
    BY <1>2, WFMin
  <1>4. ASSUME NEW y \in P PROVE x =< y
    <2>1. x \in Nat /\ y \in Nat /\ ~(y < x)
      BY <1>1, <1>3
    <2> QED BY <2>1
  <1> QED BY <1>4 DEF Min

\* pick_window finds a node.
LEMMA PickIsNode ==
    ASSUME NEW w
    PROVE  PickWindow(w) \in Nodes
  <1> DEFINE same == {i \in DOMAIN AppWindows : AppWindows[i] \in alive /\ Title[AppWindows[i]] = Title[w]}
             shown == {i \in DOMAIN AppWindows : AppWindows[i] \in alive \intersect showing}
             places == IF same # {} THEN same ELSE IF shown # {} THEN shown ELSE {1}
  <1>1. DOMAIN AppWindows = 1..Len(AppWindows) /\ Len(AppWindows) \in Nat /\ 1 \in DOMAIN AppWindows
    BY ElementsAssumption
  <1>2. places \subseteq DOMAIN AppWindows /\ places # {}
    BY <1>1
  <1>3. Min(places) \in DOMAIN AppWindows
    <2> HIDE DEF places
    <2> QED BY <1>1, <1>2, FirstOfPlaces
  <1>4. AppWindows[Min(places)] \in Nodes
    BY <1>3, ElementsAssumption
  <1> QED BY <1>4 DEF PickWindow

LEMMA ScopeIsNode ==
    ASSUME AppTypes, NEW r, Scope(r) # NoNode
    PROVE  Scope(r) \in Nodes
BY PickIsNode DEF Scope, AppTypes

\* The requests there are only become more.
LEMMA RequestsStay ==
    ASSUME issued \subseteq issued'
    PROVE  ElementRequests \subseteq ElementRequests'
  <1> DEFINE deeds(ids_) == [kind : {"element_action"}, id : ids_,
                action : {"read", "select_text", "locate", "press", "expand", "collapse"}]
  <1>1. deeds(issued) \subseteq deeds(issued')
    OBVIOUS
  <1> QED BY <1>1 DEF ElementRequests

\* What a request has.
LEMMA RequestIs ==
    ASSUME NEW r \in ElementRequests
    PROVE  /\ r # NoRequest /\ r.kind \in {"elements", "point", "focused", "element_action"}
           /\ r.kind = "elements" => r.max \in Limit(Maxima) /\ r.depth \in Limit(Depths)
           /\ r.kind = "element_action" => r.id \in issued
  <1>1. CASE r \in [kind : {"elements"}, window : ToSet(AppWindows) \union {NoNode}, max : Limit(Maxima), depth : Limit(Depths), all : BOOLEAN]
    BY <1>1 DEF NoRequest
  <1>2. CASE r \in [kind : {"point", "focused"}, window : {NoNode}, max : {{}}, depth : {{}}, all : {TRUE}]
    BY <1>2 DEF NoRequest
  <1>3. CASE r \in [kind : {"element_action"}, id : issued,
                action : {"read", "select_text", "locate", "press", "expand", "collapse"}]
    BY <1>3 DEF NoRequest
  <1> QED BY <1>1, <1>2, <1>3 DEF ElementRequests

\* The stack has places of nodes; its top is one.
LEMMA TopIsPlace ==
    ASSUME WalkTypes, stack # <<>>
    PROVE  /\ Top \in Places /\ Top.node \in Nodes /\ Top.depth \in Nat /\ Below = Top.node
           /\ Tail(stack) \in Seq(Places)
           /\ Stacked = {Top.node} \union {Tail(stack)[i].node : i \in DOMAIN Tail(stack)}
  <1>1. Len(stack) \in Nat \ {0} /\ DOMAIN stack = 1..Len(stack) /\ \A i \in 1..Len(stack) : stack[i] \in Places
    BY DEF WalkTypes
  <1>2. Tail(stack) \in Seq(Places) /\ DOMAIN Tail(stack) = 1..(Len(stack) - 1)
    BY <1>1 DEF WalkTypes
  <1>3. \A i \in 1..(Len(stack) - 1) : Tail(stack)[i] = stack[i + 1]
    BY <1>1 DEF WalkTypes
  <1>4. Top = stack[1]
    BY <1>1 DEF Top
  <1>5. \A i \in 2..Len(stack) : i - 1 \in 1..(Len(stack) - 1) /\ Tail(stack)[i - 1] = stack[i]
    BY <1>1, <1>3
  <1>6. Stacked = {Top.node} \union {Tail(stack)[i].node : i \in DOMAIN Tail(stack)}
    <2>1. ASSUME NEW i \in 1..Len(stack) PROVE stack[i].node \in {Top.node} \union {Tail(stack)[j].node : j \in DOMAIN Tail(stack)}
      <3>1. CASE i = 1
        BY <3>1, <1>4
      <3>2. CASE i \in 2..Len(stack)
        BY <3>2, <1>2, <1>5
      <3> QED BY <1>1, <3>1, <3>2
    <2>2. ASSUME NEW i \in 1..(Len(stack) - 1) PROVE Tail(stack)[i].node \in Stacked
      BY <1>1, <1>3 DEF Stacked
    <2>3. Top.node \in Stacked
      BY <1>1, <1>4 DEF Stacked
    <2> QED BY <2>1, <2>2, <2>3, <1>1, <1>2 DEF Stacked
  <1> QED BY <1>1, <1>2, <1>4, <1>6 DEF Below, Places

\* Opening a node up: its children come before the rest.
LEMMA PushIs ==
    ASSUME WalkTypes, stack # <<>>, NEW n \in Nodes, NEW d \in Nat, Push(n, d)
    PROVE  /\ stack' \in Seq(Places)
           /\ Stacked' = ToSet(Kids[n]) \union {Tail(stack)[i].node : i \in DOMAIN Tail(stack)}
  <1> DEFINE kids == [i \in 1..Len(Kids[n]) |-> [node |-> Kids[n][i], depth |-> d + 1]]
             tail == Tail(stack)
  <1>1. Kids[n] \in Seq(Nodes) /\ Len(Kids[n]) \in Nat /\ DOMAIN Kids[n] = 1..Len(Kids[n])
    BY ElementsAssumption
  <1>2. \A i \in 1..Len(Kids[n]) : [node |-> Kids[n][i], depth |-> d + 1] \in Places
    BY <1>1 DEF Places
  <1>3. kids \in Seq(Places) /\ Len(kids) = Len(Kids[n]) /\ \A i \in 1..Len(Kids[n]) : kids[i].node = Kids[n][i]
    BY <1>1, <1>2
  <1>4. tail \in Seq(Places) /\ DOMAIN tail = 1..Len(tail) /\ Len(tail) \in Nat
    BY TopIsPlace
  <1>5. stack' = kids \o tail
    BY DEF Push
  <1> HIDE DEF kids, tail
  <1>6. /\ stack' \in Seq(Places) /\ Len(stack') = Len(kids) + Len(tail) /\ DOMAIN stack' = 1..(Len(kids) + Len(tail))
        /\ \A i \in 1..Len(kids) : stack'[i] = kids[i]
        /\ \A i \in 1..Len(tail) : stack'[Len(kids) + i] = tail[i]
    <2>1. kids \in Seq(Places) /\ tail \in Seq(Places)
      BY <1>3, <1>4
    <2>3. \A a, b \in Seq(Places) :
          /\ a \o b \in Seq(Places) /\ Len(a \o b) = Len(a) + Len(b)
          /\ DOMAIN (a \o b) = 1..(Len(a) + Len(b))
          /\ \A i \in 1..Len(a) : (a \o b)[i] = a[i]
          /\ \A i \in 1..Len(b) : (a \o b)[Len(a) + i] = b[i]
      BY JoinedIs
    <2>2. /\ kids \o tail \in Seq(Places) /\ Len(kids \o tail) = Len(kids) + Len(tail)
          /\ DOMAIN (kids \o tail) = 1..(Len(kids) + Len(tail))
          /\ \A i \in 1..Len(kids) : (kids \o tail)[i] = kids[i]
          /\ \A i \in 1..Len(tail) : (kids \o tail)[Len(kids) + i] = tail[i]
      BY <2>1, <2>3, Zenon
    <2> QED BY <2>2, <1>5, Zenon
  <1>7. ASSUME NEW i \in DOMAIN stack' PROVE stack'[i].node \in ToSet(Kids[n]) \union {tail[j].node : j \in DOMAIN tail}
    <2>1. CASE i <= Len(kids)
      BY <2>1, <1>1, <1>3, <1>6 DEF ToSet
    <2>2. CASE ~(i <= Len(kids))
      <3>1. i - Len(kids) \in 1..Len(tail) /\ Len(kids) + (i - Len(kids)) = i
        BY <2>2, <1>1, <1>3, <1>4, <1>6
      <3>2. stack'[i] = tail[i - Len(kids)]
        BY <3>1, <1>6
      <3> QED BY <3>1, <3>2, <1>4
    <2> QED BY <2>1, <2>2
  <1>8. ASSUME NEW i \in DOMAIN Kids[n] PROVE \E j \in DOMAIN stack' : stack'[j].node = Kids[n][i]
    <2>1. i \in 1..(Len(kids) + Len(tail)) /\ i \in 1..Len(kids)
      BY <1>1, <1>3, <1>4
    <2> QED BY <2>1, <1>1, <1>3, <1>6
  <1>9. ASSUME NEW i \in DOMAIN tail PROVE \E j \in DOMAIN stack' : stack'[j].node = tail[i].node
    <2>1. Len(kids) + i \in 1..(Len(kids) + Len(tail))
      BY <1>1, <1>3, <1>4
    <2> QED BY <2>1, <1>4, <1>6
  <1>10. Stacked' = {stack'[i].node : i \in DOMAIN stack'} /\ ToSet(Kids[n]) = {Kids[n][i] : i \in DOMAIN Kids[n]}
    BY DEF Stacked, ToSet
  <1>11. Stacked' = ToSet(Kids[n]) \union {tail[i].node : i \in DOMAIN tail}
    <2>1. Stacked' \subseteq ToSet(Kids[n]) \union {tail[i].node : i \in DOMAIN tail}
      BY <1>7, <1>10
    <2>2. ToSet(Kids[n]) \subseteq Stacked'
      BY <1>8, <1>10
    <2>3. {tail[i].node : i \in DOMAIN tail} \subseteq Stacked'
      BY <1>9, <1>10
    <2> QED BY <2>1, <2>2, <2>3
  <1>12. {tail[i].node : i \in DOMAIN tail} = {Tail(stack)[i].node : i \in DOMAIN Tail(stack)}
    BY DEF tail
  <1> QED BY <1>6, <1>11, <1>12

-----------------------------------------------------------------------------
(* Elements: the steps.                                                     *)

\* While element_action works, the node it looks up is the node of the id.
LEMMA ActingIsOnTarget ==
    ASSUME RequestsOK, IdsOK, WalkTypes, elementPc \in Acting
    PROVE  Acc = Target /\ Acc \in Nodes /\ Target \in Nodes
BY DEF RequestsOK, IdsOK, Acc, Target

\* The sets of the application, and of what was told, stay sets of nodes.
LEMMA AppStep ==
    ASSUME AppTypes, WalkTypes, RequestsOK, IdsOK, [ElementsNext]_elementsVars
    PROVE  AppTypes'
  <1>1. ASSUME NEW r \in ElementRequests, AskListing(r) PROVE AppTypes'
    BY <1>1 DEF AskListing, Begin, AnswerElement, app, ids, walk, AppTypes
  <1>2. ASSUME NEW r \in ElementRequests, AskAction(r) PROVE AppTypes'
    BY <1>2 DEF AskAction, Begin, AnswerElement, ForgetWalk, app, ids, AppTypes
  <1>3. CASE Pass
    BY <1>3 DEF Pass, app, ids, watch, AppTypes
  <1>4. CASE Visit
    BY <1>4, TopIsPlace DEF Visit, app, watch, Remember, Told, AppTypes
  <1>5. CASE Seek
    BY <1>5, TopIsPlace DEF Seek, app, ids, watch, Told, AppTypes
  <1>6. CASE Listed
    BY <1>6 DEF Listed, AnswerElement, app, ids, walk, watch, AppTypes
  <1>7. CASE Descend
    BY <1>7 DEF Descend, app, ids, watch, AppTypes
  <1>8. CASE Climb
    BY <1>8 DEF Climb, app, watch, Remember, Told, AppTypes
  <1>9. CASE Look
    BY <1>9 DEF Look, app, ids, walk, watch, Told, AnswerElement, AppTypes
  <1>10. CASE Read
    BY <1>10, ActingIsOnTarget DEF Read, app, ids, walk, watch, AnswerElement, AppTypes, Acting
  <1>11. CASE States
    BY <1>11 DEF States, app, ids, walk, watch, AppTypes
  <1>12. CASE Act
    BY <1>12 DEF Act, ids, walk, watch, AnswerElement, AppTypes
  <1>13. CASE LookAgain
    BY <1>13 DEF LookAgain, app, ids, walk, watch, Told, AnswerElement, AppTypes
  <1>14. CASE Change
    BY <1>14 DEF Change, ids, walk, Flip, AppTypes
  <1>15. CASE UNCHANGED elementsVars
    BY <1>15 DEF elementsVars, app, ids, walk, watch, AppTypes
  <1> QED BY <1>1, <1>2, <1>3, <1>4, <1>5, <1>6, <1>7, <1>8, <1>9, <1>10, <1>11, <1>12, <1>13, <1>14, <1>15 DEF ElementsNext, ElementsServe

\* Children and parents are nodes; a stack may hold one node.
LEMMA KidsAreNodes ==
    ASSUME NEW n \in Nodes
    PROVE  ToSet(Kids[n]) \subseteq Nodes /\ Kids[n] \in Seq(Nodes)
BY ElementsAssumption DEF ToSet

LEMMA OneStacked ==
    ASSUME NEW n \in Nodes
    PROVE  <<[node |-> n, depth |-> 0]>> \in Seq(Places) /\ <<[node |-> n, depth |-> 0]>> # <<>>
  <1>1. [node |-> n, depth |-> 0] \in Places
    BY DEF Places
  <1> QED BY <1>1

\* What the walk keeps are nodes, places and sequences of them.
LEMMA WalkStep ==
    ASSUME AppTypes, WalkTypes, RequestsOK, IdsOK, [ElementsNext]_elementsVars
    PROVE  WalkTypes'
  <1>1. ASSUME NEW r \in ElementRequests, AskListing(r) PROVE WalkTypes'
    <2>1. CASE Scope(r) = NoNode
      BY <1>1, <2>1 DEF AskListing, Begin, ids, walk, WalkTypes
    <2>2. CASE Scope(r) # NoNode
      <3>1. Scope(r) \in Nodes
        BY <2>2, ScopeIsNode
      <3>2. stack' \in Seq(Places)
        BY <1>1, <2>2, <3>1, OneStacked DEF AskListing
      <3>3. truncated' \in BOOLEAN /\ looked' \in BOOLEAN
        BY <1>1, <2>2 DEF AskListing, Begin
      <3>4. store' \in Seq(Nodes)
        <4>1. store' \in {store, <<>>}
          BY <1>1, <2>2 DEF AskListing
        <4>2. <<>> \in Seq(Nodes) /\ store \in Seq(Nodes)
          BY DEF WalkTypes
        <4> QED BY <4>1, <4>2
      <3>5. out' \in Seq(Nodes) /\ visited' \subseteq Nodes /\ root' \in Nodes
        BY <1>1, <2>2, <3>1 DEF AskListing
      <3> QED BY <3>2, <3>3, <3>4, <3>5 DEF WalkTypes
    <2> QED BY <2>1, <2>2
  <1>2. ASSUME NEW r \in ElementRequests, AskAction(r) PROVE WalkTypes'
    <2>1. truncated' \in BOOLEAN /\ looked' \in BOOLEAN
      BY <1>2 DEF AskAction, Begin, ForgetWalk
    <2>2. store' \in Seq(Nodes) /\ out' \in Seq(Nodes) /\ stack' \in Seq(Places) /\ visited' \subseteq Nodes
      BY <1>2 DEF AskAction, ForgetWalk, ids, WalkTypes
    <2>3. root' \in Nodes \union {NoNode}
      BY <1>2 DEF AskAction, ForgetWalk
    <2> QED BY <2>1, <2>2, <2>3 DEF WalkTypes
  <1>3. CASE Pass
    BY <1>3, TopIsPlace DEF Pass, app, ids, watch, WalkTypes
  <1>4. CASE Visit
    <2> DEFINE n == Top.node
    <2>1. n \in Nodes /\ Top.depth \in Nat /\ Tail(stack) \in Seq(Places)
      BY <1>4, TopIsPlace DEF Visit
    <2>2. stack' \in Seq(Places) /\ visited' \subseteq Nodes
      <3>1. CASE Push(n, Top.depth)
        <4>1. stack' \in Seq(Places)
          BY <1>4, <2>1, <3>1, PushIs DEF Visit
        <4> QED BY <4>1, <2>1, <3>1 DEF Push, WalkTypes
      <3>2. CASE stack' \in {<<>>, Tail(stack)} /\ visited' = visited \union {n}
        <4>1. <<>> \in Seq(Places)
          OBVIOUS
        <4> QED BY <4>1, <2>1, <3>2 DEF WalkTypes
      <3> QED BY <1>4, <3>1, <3>2 DEF Visit
    <2>3. out' \in Seq(Nodes) /\ store' \in Seq(Nodes)
      <3>1. out' \in {out, Append(out, n)} /\ store' \in {store, Append(store, n)}
        BY <1>4 DEF Visit, Remember
      <3>2. out \in Seq(Nodes) /\ store \in Seq(Nodes)
        BY DEF WalkTypes
      <3>3. Append(out, n) \in Seq(Nodes) /\ Append(store, n) \in Seq(Nodes)
        <4> HIDE DEF n
        <4> QED BY <2>1, <3>2
      <3> QED BY <3>1, <3>2, <3>3
    <2>4. truncated' \in BOOLEAN
      BY <1>4 DEF Visit, WalkTypes
    <2> QED BY <1>4, <2>2, <2>3, <2>4 DEF Visit, WalkTypes
  <1>5. CASE Seek
    <2>1. Top.node \in Nodes /\ Top.depth \in Nat
      BY <1>5, TopIsPlace DEF Seek
    <2>2. CASE Push(Top.node, Top.depth) /\ UNCHANGED out
      <3>1. stack' \in Seq(Places)
        BY <1>5, <2>1, <2>2, PushIs DEF Seek
      <3> QED BY <1>5, <2>1, <2>2, <3>1 DEF Seek, Push, ids, WalkTypes
    <2>3. CASE stack' = <<>> /\ out' = <<Top.node>> /\ visited' = visited \union {Top.node}
      BY <1>5, <2>1, <2>3 DEF Seek, ids, WalkTypes
    <2> QED BY <1>5, <2>2, <2>3 DEF Seek
  <1>6. CASE Listed
    BY <1>6 DEF Listed, AnswerElement, app, ids, walk, watch, WalkTypes
  <1>7. CASE Descend
    <2>1. Below \in Nodes
      BY <1>7, TopIsPlace DEF Descend, RequestsOK
    <2>2. stack' \in Seq(Places)
      <3>1. \A child \in ToSet(Kids[Below]) : <<[node |-> child, depth |-> 0]>> \in Seq(Places)
        BY <2>1, KidsAreNodes, OneStacked
      <3>2. stack \in Seq(Places) /\ <<>> \in Seq(Places)
        BY DEF WalkTypes
      <3> QED BY <1>7, <3>1, <3>2 DEF Descend
    <2>3. visited' \subseteq Nodes
      BY <1>7, <2>1 DEF Descend, WalkTypes
    <2> QED BY <1>7, <2>2, <2>3 DEF Descend, ids, WalkTypes
  <1>8. CASE Climb
    <2>1. Below \in Nodes
      BY <1>8, TopIsPlace DEF Climb
    <2>2. stack' \in Seq(Places)
      <3>1. \A p \in Parents(Below) : <<[node |-> p, depth |-> 0]>> \in Seq(Places)
        BY OneStacked DEF Parents
      <3>2. <<>> \in Seq(Places)
        OBVIOUS
      <3> QED BY <1>8, <3>1, <3>2 DEF Climb
    <2>3. out' \in Seq(Nodes) /\ store' \in Seq(Nodes)
      <3>1. out' \in {out, Append(out, Below)} /\ store' \in {store, Append(store, Below)}
        BY <1>8 DEF Climb, Remember
      <3>2. out \in Seq(Nodes) /\ store \in Seq(Nodes)
        BY DEF WalkTypes
      <3>3. Append(out, Below) \in Seq(Nodes) /\ Append(store, Below) \in Seq(Nodes)
        BY <2>1, <3>2
      <3> QED BY <3>1, <3>2, <3>3
    <2> QED BY <1>8, <2>1, <2>2, <2>3 DEF Climb, WalkTypes
  <1>9. CASE Look
    <2>1. looked' \in BOOLEAN
      <3>1. looked' = looked \/ looked' = (Acc \in secure)
        BY <1>9 DEF Look
      <3>2. looked \in BOOLEAN /\ (Acc \in secure) \in BOOLEAN
        BY DEF WalkTypes
      <3> QED BY <3>1, <3>2, Zenon
    <2> QED BY <1>9, <2>1 DEF Look, ids, walk, WalkTypes
  <1>10. CASE Read
    BY <1>10 DEF Read, app, ids, walk, watch, AnswerElement, WalkTypes
  <1>11. CASE States
    BY <1>11 DEF States, app, ids, walk, watch, WalkTypes
  <1>12. CASE Act
    BY <1>12 DEF Act, ids, walk, watch, AnswerElement, WalkTypes
  <1>13. CASE LookAgain
    BY <1>13 DEF LookAgain, app, ids, walk, watch, Told, AnswerElement, WalkTypes
  <1>14. CASE Change
    BY <1>14 DEF Change, ids, walk, Flip, WalkTypes
  <1>15. CASE UNCHANGED elementsVars
    BY <1>15 DEF elementsVars, app, ids, walk, watch, WalkTypes
  <1> QED BY <1>1, <1>2, <1>3, <1>4, <1>5, <1>6, <1>7, <1>8, <1>9, <1>10, <1>11, <1>12, <1>13, <1>14, <1>15 DEF ElementsNext, ElementsServe

\* Requests are answered where they were taken up, and not before.
LEMMA RequestsStep ==
    ASSUME AppTypes, WalkTypes, RequestsOK, IdsOK, [ElementsNext]_elementsVars
    PROVE  RequestsOK'
  <1>1. ASSUME NEW r \in ElementRequests, AskListing(r) PROVE RequestsOK'
    <2>1. ElementRequests' = ElementRequests
      BY <1>1 DEF AskListing, ids, ElementRequests
    <2>2. r # NoRequest /\ r.kind \in {"elements", "point", "focused"}
      BY <1>1, RequestIs DEF AskListing
    <2>3. elementAsks' \in [listings : 0..Listings, actions : Nat]
      <3>1. Listings \in Nat /\ ElementActions \in Nat
        BY ElementsAssumption
      <3>2. elementAsks \in [listings : 0..Listings, actions : Nat] /\ elementAsks' = [elementAsks EXCEPT !.listings = @ + 1]
        BY <1>1 DEF AskListing, RequestsOK
      <3>3. elementAsks.listings \in 0..Listings /\ elementAsks.actions \in Nat
        BY <3>2
      <3>4. elementAsks.listings + 1 \in 0..Listings
        BY <1>1, <3>1, <3>3 DEF AskListing
      <3> QED BY <3>2, <3>3, <3>4
    <2>4. elementPc' = "descend" => stack' # <<>>
      BY <1>1 DEF AskListing, Begin, AnswerElement
    <2> QED BY <1>1, <2>1, <2>2, <2>3, <2>4 DEF AskListing, Begin, AnswerElement, ids, RequestsOK, Acting
  <1>2. ASSUME NEW r \in ElementRequests, AskAction(r) PROVE RequestsOK'
    <2>1. ElementRequests' = ElementRequests
      BY <1>2 DEF AskAction, ids, ElementRequests
    <2>2. r # NoRequest
      BY <1>2, RequestIs DEF AskAction
    <2>3. elementAsks' \in [listings : 0..Listings, actions : Nat]
      <3>1. Listings \in Nat /\ ElementActions \in Nat
        BY ElementsAssumption
      <3>2. elementAsks \in [listings : 0..Listings, actions : Nat] /\ elementAsks' = [elementAsks EXCEPT !.actions = @ + 1]
        BY <1>2 DEF AskAction, RequestsOK
      <3>3. elementAsks.listings \in 0..Listings /\ elementAsks.actions \in Nat
        BY <3>2
      <3>4. elementAsks.actions + 1 \in Nat
        BY <1>2, <3>1, <3>3 DEF AskAction
      <3> QED BY <3>2, <3>3, <3>4
    <2> QED BY <1>2, <2>1, <2>2, <2>3 DEF AskAction, Begin, AnswerElement, ids, RequestsOK, Acting
  <1>3. CASE Pass
    BY <1>3, RequestsStay DEF Pass, app, ids, watch, RequestsOK, Acting
  <1>4. CASE Visit
    BY <1>4, RequestsStay DEF Visit, app, watch, Remember, Told, RequestsOK, Acting
  <1>5. CASE Seek
    BY <1>5, RequestsStay DEF Seek, app, ids, watch, Told, RequestsOK, Acting
  <1>6. CASE Listed
    BY <1>6, RequestsStay DEF Listed, AnswerElement, app, ids, walk, watch, RequestsOK, Acting
  <1>7. CASE Descend
    <2>1. elementPc' = "descend" => stack' # <<>>
      BY <1>7 DEF Descend
    <2>2. elementPc' \in {"descend", "climb"}
      BY <1>7 DEF Descend
    <2> QED BY <1>7, <2>1, <2>2, RequestsStay DEF Descend, app, ids, watch, RequestsOK, Acting
  <1>8. CASE Climb
    BY <1>8, RequestsStay DEF Climb, app, watch, Remember, Told, RequestsOK, Acting
  <1>9. CASE Look
    BY <1>9, RequestsStay DEF Look, app, ids, walk, watch, Told, AnswerElement, RequestsOK, Acting
  <1>10. CASE Read
    BY <1>10, RequestsStay DEF Read, app, ids, walk, watch, AnswerElement, RequestsOK, Acting
  <1>11. CASE States
    BY <1>11, RequestsStay DEF States, app, ids, walk, watch, RequestsOK, Acting
  <1>12. CASE Act
    BY <1>12, RequestsStay DEF Act, ids, walk, watch, AnswerElement, RequestsOK, Acting
  <1>13. CASE LookAgain
    BY <1>13, RequestsStay DEF LookAgain, app, ids, walk, watch, Told, AnswerElement, RequestsOK, Acting
  <1>14. CASE Change
    BY <1>14, RequestsStay DEF Change, ids, walk, Flip, RequestsOK, Acting
  <1>15. CASE UNCHANGED elementsVars
    BY <1>15, RequestsStay DEF elementsVars, app, ids, walk, watch, RequestsOK, Acting
  <1> QED BY <1>1, <1>2, <1>3, <1>4, <1>5, <1>6, <1>7, <1>8, <1>9, <1>10, <1>11, <1>12, <1>13, <1>14, <1>15 DEF ElementsNext, ElementsServe

\* A sequence without repetitions stays one when another element is appended; it is as long as
\* it has elements.
LEMMA OnceMore ==
    ASSUME NEW S, NEW s \in Seq(S), NEW x \in S, IsInjective(s), x \notin ToSet(s), NEW t, t = Append(s, x)
    PROVE  IsInjective(t)
  <1>1. t[Len(s) + 1] = x /\ DOMAIN t = 1..(Len(s) + 1) /\ Len(s) \in Nat /\ DOMAIN s = 1..Len(s)
    OBVIOUS
  <1>2. \A i \in 1..Len(s) : s[i] # x
    BY <1>1 DEF ToSet
  <1>3. \A i \in 1..Len(s) : t[i] = s[i]
    OBVIOUS
  <1>4. \A i, j \in 1..Len(s) : s[i] = s[j] => i = j
    BY <1>1 DEF IsInjective
  <1>5. ASSUME NEW i \in DOMAIN t, NEW j \in DOMAIN t, t[i] = t[j] PROVE i = j
    <2>1. i \in 1..Len(s) \/ i = Len(s) + 1
      BY <1>1
    <2>2. j \in 1..Len(s) \/ j = Len(s) + 1
      BY <1>1
    <2> QED BY <2>1, <2>2, <1>1, <1>2, <1>3, <1>4, <1>5
  <1> QED BY <1>5 DEF IsInjective

LEMMA AsLongAsMany ==
    ASSUME NEW S, IsFiniteSet(S), NEW s \in Seq(S), IsInjective(s)
    PROVE  /\ IsFiniteSet(ToSet(s)) /\ Cardinality(ToSet(s)) = Len(s)
           /\ Cardinality(S) \in Nat /\ Len(s) <= Cardinality(S)
  <1>1. Len(s) \in Nat /\ DOMAIN s = 1..Len(s) /\ s \in [1..Len(s) -> S]
    OBVIOUS
  <1>2. ToSet(s) \subseteq S /\ s \in [1..Len(s) -> ToSet(s)]
    BY <1>1 DEF ToSet
  <1>3. s \in Bijection(1..Len(s), ToSet(s))
    BY <1>1, <1>2 DEF Bijection, Injection, Surjection, IsInjective, ToSet
  <1>4. IsFiniteSet(ToSet(s)) /\ Cardinality(ToSet(s)) <= Cardinality(S)
    BY <1>2, FS_Subset
  <1>5. Cardinality(ToSet(s)) = Len(s)
    BY <1>1, <1>3, <1>4, FS_CountingElements DEF ExistsBijection
  <1> QED BY <1>4, <1>5, FS_CardinalityType

\* A node that is remembered gets the next number of the newest listing.
LEMMA RememberIs ==
    ASSUME WalkTypes, IdsOK, NEW n \in Nodes, n \notin ToSet(store), epoch > 0, Remember(n), epoch' = epoch
    PROVE  /\ IsInjective(store') /\ ToSet(store') = ToSet(store) \union {n}
           /\ issued' \subseteq [epoch : 1..Listings, number : 1..Cardinality(Nodes), node : Nodes]
           /\ \A id \in issued' :
                  /\ id.epoch <= epoch'
                  /\ id.epoch = epoch' => id.number \in DOMAIN store' /\ store'[id.number] = id.node
  <1>1. store \in Seq(Nodes) /\ store' = Append(store, n)
    BY DEF WalkTypes, Remember
  <1>2. IsInjective(store') /\ ToSet(store') = ToSet(store) \union {n} /\ store' \in Seq(Nodes)
    <2>1. IsInjective(store)
      BY DEF IdsOK
    <2>2. IsInjective(store')
      BY <1>1, <2>1, OnceMore
    <2>3. Append(store, n) \in Seq(Nodes) /\ ToSet(Append(store, n)) = ToSet(store) \union {n}
      BY <1>1, ToSetAppend
    <2> QED BY <1>1, <2>2, <2>3
  <1>3. /\ DOMAIN store = 1..Len(store) /\ DOMAIN store' = 1..(Len(store) + 1) /\ Len(store') = Len(store) + 1 /\ Len(store) \in Nat
        /\ store'[Len(store) + 1] = n /\ \A i \in 1..Len(store) : store'[i] = store[i]
    BY <1>1
  <1>4. Len(store') <= Cardinality(Nodes) /\ Cardinality(Nodes) \in Nat
    BY <1>2, AsLongAsMany, ElementsAssumption
  <1> DEFINE new == [epoch |-> epoch, number |-> Len(store'), node |-> n]
  <1>5. issued' = issued \union {new}
    BY DEF Remember
  <1>6. epoch \in 1..Listings /\ Len(store') \in 1..Cardinality(Nodes)
    BY <1>3, <1>4, ElementsAssumption DEF IdsOK
  <1>7. new \in [epoch : 1..Listings, number : 1..Cardinality(Nodes), node : Nodes]
    BY <1>6
  <1>8. ASSUME NEW id \in issued' PROVE id.epoch <= epoch' /\ (id.epoch = epoch' => id.number \in DOMAIN store' /\ store'[id.number] = id.node)
    <2>1. CASE id \in issued
      BY <2>1, <1>3 DEF IdsOK
    <2>2. CASE id = new
      BY <2>2, <1>3, <1>6
    <2> QED BY <2>1, <2>2, <1>5
  <1> QED BY <1>2, <1>5, <1>7, <1>8 DEF IdsOK

\* Ids keep their nodes.
LEMMA IdsStep ==
    ASSUME AppTypes, WalkTypes, RequestsOK, IdsOK, [ElementsNext]_elementsVars
    PROVE  IdsOK'
  <1>1. ASSUME NEW r \in ElementRequests, AskListing(r) PROVE IdsOK'
    <2>1. epoch < Listings /\ elementAsks'.listings = elementAsks.listings + 1 /\ Listings \in Nat
      <3>1. elementAsks \in [listings : 0..Listings, actions : Nat] /\ Listings \in Nat
        BY ElementsAssumption DEF RequestsOK
      <3>2. elementAsks.listings \in 0..Listings /\ elementAsks.listings < Listings /\ elementAsks' = [elementAsks EXCEPT !.listings = @ + 1]
        BY <1>1, <3>1 DEF AskListing
      <3>3. elementAsks'.listings = elementAsks.listings + 1
        BY <3>1, <3>2
      <3>4. epoch \in Nat /\ epoch <= elementAsks.listings
        BY <3>1 DEF IdsOK
      <3> QED BY <3>1, <3>2, <3>3, <3>4
    <2>5. epoch \in 0..Listings /\ epoch <= elementAsks'.listings
      BY <2>1 DEF IdsOK, RequestsOK
    <2>2. CASE Scope(r) = NoNode
      <3>1. UNCHANGED <<epoch, store, issued>> /\ elementPc' = "idle"
        BY <1>1, <2>2 DEF AskListing, AnswerElement, ids
      <3> QED BY <3>1, <2>5 DEF IdsOK, Acting
    <2>3. CASE Scope(r) # NoNode /\ r.kind = "focused"
      <3>1. UNCHANGED <<epoch, store, issued>> /\ elementPc' = "visit" /\ elementRequest'.kind = "focused"
        BY <1>1, <2>3 DEF AskListing, Begin
      <3> QED BY <3>1, <2>5 DEF IdsOK, Acting
    <2>4. CASE Scope(r) # NoNode /\ r.kind # "focused"
      <3>1. /\ epoch' = epoch + 1 /\ store' = <<>> /\ issued' = issued /\ visited' = {}
            /\ elementPc' \in {"visit", "descend"} /\ elementRequest' = r
        BY <1>1, <2>4 DEF AskListing, Begin
      <3>2. ToSet(store') = {} /\ IsInjective(store')
        BY <3>1 DEF ToSet, IsInjective
      <3>3. epoch' \in 0..Listings /\ epoch' > 0 /\ epoch' <= elementAsks'.listings
        BY <2>1, <3>1 DEF RequestsOK, IdsOK
      <3>4. \A id \in issued : id.epoch <= epoch' /\ id.epoch # epoch'
        <4>1. \A id \in issued : id.epoch \in 1..Listings /\ id.epoch <= epoch
          BY DEF IdsOK
        <4> QED BY <4>1, <3>1, <2>1, <2>5
      <3>5. issued' \subseteq [epoch : 1..Listings, number : 1..Cardinality(Nodes), node : Nodes]
        BY <3>1 DEF IdsOK
      <3>6. elementPc' \notin Acting /\ elementPc' # "climb"
        BY <3>1 DEF Acting
      <3> QED BY <3>1, <3>2, <3>3, <3>4, <3>5, <3>6 DEF IdsOK
    <2> QED BY <2>2, <2>3, <2>4
  <1>2. ASSUME NEW r \in ElementRequests, AskAction(r) PROVE IdsOK'
    <2>1. r.id \in issued /\ elementAsks'.listings = elementAsks.listings
      BY <1>2, RequestIs DEF AskAction, RequestsOK
    <2>2. elementPc' \in Acting => r.id.epoch = epoch
      BY <1>2 DEF AskAction, AnswerElement, Found, Acting
    <2>3. elementPc' \in {"idle", "look"} /\ elementRequest' = r
      BY <1>2 DEF AskAction, AnswerElement, Begin
    <2> QED BY <1>2, <2>1, <2>2, <2>3 DEF AskAction, ids, IdsOK, Acting
  <1>3. CASE Pass
    BY <1>3 DEF Pass, app, ids, watch, IdsOK, Acting
  <1>4. CASE Visit
    <2> DEFINE n == Top.node
    <2>1. n \in Nodes /\ n \notin visited /\ visited' = visited \union {n} /\ epoch > 0 /\ ToSet(store) \subseteq visited
      BY <1>4, TopIsPlace DEF Visit, Push, Skipped, IdsOK
    <2>2. epoch' = epoch /\ elementPc' = "visit" /\ elementAsks' = elementAsks
      BY <1>4 DEF Visit
    <2>3. CASE Remember(n)
      BY <2>1, <2>2, <2>3, RememberIs DEF IdsOK, Acting
    <2>4. CASE UNCHANGED <<store, issued>>
      BY <2>1, <2>2, <2>4 DEF IdsOK, Acting
    <2> QED BY <1>4, <2>3, <2>4 DEF Visit
  <1>5. CASE Seek
    BY <1>5 DEF Seek, app, ids, watch, Told, IdsOK, Acting
  <1>6. CASE Listed
    BY <1>6 DEF Listed, AnswerElement, app, ids, walk, watch, IdsOK, Acting
  <1>7. CASE Descend
    <2>1. elementPc' \in {"descend", "climb"} /\ elementPc = "descend" /\ UNCHANGED <<epoch, store, issued, elementAsks, elementRequest>>
      BY <1>7 DEF Descend, ids
    <2>2. elementPc' = "climb" => visited' = {}
      BY <1>7 DEF Descend
    <2> QED BY <2>1, <2>2, ToSetEmpty DEF IdsOK, Acting
  <1>8. CASE Climb
    <2>1. /\ Below \in Nodes /\ Below \notin visited /\ visited' = visited \union {Below} /\ epoch > 0
          /\ ToSet(store) \subseteq visited
      BY <1>8, TopIsPlace DEF Climb, IdsOK
    <2>2. epoch' = epoch /\ elementPc' = "climb" /\ elementAsks' = elementAsks
      BY <1>8 DEF Climb
    <2>3. stack' # <<>> => Below' \notin visited'
      <3>1. ASSUME NEW p, stack' = <<[node |-> p, depth |-> 0]>> PROVE Below' = p
        BY <3>1 DEF Below
      <3>2. stack' # <<>> => \E p \in Parents(Below) : p \notin visited' /\ stack' = <<[node |-> p, depth |-> 0]>>
        BY <1>8 DEF Climb
      <3> QED BY <3>1, <3>2
    <2>4. CASE Remember(Below)
      BY <2>1, <2>2, <2>3, <2>4, RememberIs DEF IdsOK, Acting
    <2>5. CASE UNCHANGED <<store, issued>>
      BY <2>1, <2>2, <2>3, <2>5 DEF IdsOK, Acting
    <2> QED BY <1>8, <2>4, <2>5 DEF Climb
  <1>9. CASE Look
    BY <1>9 DEF Look, app, ids, walk, watch, Told, AnswerElement, IdsOK, Acting
  <1>10. CASE Read
    BY <1>10 DEF Read, app, ids, walk, watch, AnswerElement, IdsOK, Acting
  <1>11. CASE States
    BY <1>11 DEF States, app, ids, walk, watch, IdsOK, Acting
  <1>12. CASE Act
    BY <1>12 DEF Act, ids, walk, watch, AnswerElement, IdsOK, Acting
  <1>13. CASE LookAgain
    BY <1>13 DEF LookAgain, app, ids, walk, watch, Told, AnswerElement, IdsOK, Acting
  <1>14. CASE Change
    BY <1>14 DEF Change, ids, walk, Flip, IdsOK, Acting, Below
  <1>15. CASE UNCHANGED elementsVars
    BY <1>15 DEF elementsVars, app, ids, walk, watch, IdsOK, Acting, Below
  <1> QED BY <1>1, <1>2, <1>3, <1>4, <1>5, <1>6, <1>7, <1>8, <1>9, <1>10, <1>11, <1>12, <1>13, <1>14, <1>15 DEF ElementsNext, ElementsServe

\* A secret stays untold.
LEMMA SecretsStep ==
    ASSUME AppTypes, WalkTypes, RequestsOK, IdsOK, SecretsOK, [ElementsNext]_elementsVars
    PROVE  SecretsOK'
  <1>1. ASSUME NEW r \in ElementRequests, AskListing(r) PROVE SecretsOK'
    <2>1. secret' = secure /\ told' = {} /\ secure' = secure /\ elementPc' \in {"idle", "descend", "visit"}
      BY <1>1 DEF AskListing, Begin, AnswerElement, app
    <2> QED BY <2>1 DEF SecretsOK
  <1>2. ASSUME NEW r \in ElementRequests, AskAction(r) PROVE SecretsOK'
    <2>1. secret' = secure /\ told' = {} /\ secure' = secure /\ elementPc' \in {"idle", "look"}
      BY <1>2 DEF AskAction, Begin, AnswerElement, app
    <2> QED BY <2>1 DEF SecretsOK
  <1>3. CASE Pass
    BY <1>3 DEF Pass, app, ids, watch, SecretsOK
  <1>4. CASE Visit
    <2>1. UNCHANGED <<secret, secure>> /\ elementPc' = "visit" /\ told' = told \union ({Top.node} \ secure)
      BY <1>4 DEF Visit, app, watch, Told
    <2> QED BY <2>1 DEF SecretsOK
  <1>5. CASE Seek
    BY <1>5 DEF Seek, app, ids, watch, Told, SecretsOK
  <1>6. CASE Listed
    BY <1>6 DEF Listed, AnswerElement, app, ids, walk, watch, SecretsOK
  <1>7. CASE Descend
    BY <1>7 DEF Descend, app, ids, watch, SecretsOK
  <1>8. CASE Climb
    <2>1. UNCHANGED <<secret, secure>> /\ elementPc' = "climb" /\ told' \in {told, told \union ({Below} \ secure)}
      BY <1>8 DEF Climb, app, watch, Told
    <2> QED BY <2>1 DEF SecretsOK
  <1>9. CASE Look
    <2>1. UNCHANGED <<secret, secure, elementRequest>> /\ told' \subseteq told \union (Nodes \ secure)
      BY <1>9, ActingIsOnTarget DEF Look, Acting, app, watch, Told
    <2>2. elementPc' \in {"read", "select_text"} => looked' = (Acc \in secure)
      BY <1>9 DEF Look, AnswerElement
    <2>3. Acc = Target /\ Target' = Target
      BY <1>9, <2>1, ActingIsOnTarget DEF Look, Acting, Target
    <2>4. elementPc' \in {"read", "select_text"} /\ ~looked' => Target' \notin secret'
      BY <2>1, <2>2, <2>3 DEF SecretsOK
    <2> QED BY <2>1, <2>4 DEF SecretsOK
  <1>10. CASE Read
    <2>1. UNCHANGED <<secret, secure>> /\ elementPc' = "idle" /\ told' \in {told, told \union {Acc}}
      BY <1>10 DEF Read, AnswerElement, app, watch
    <2>2. told' # told => ~looked
      BY <1>10 DEF Read
    <2>3. Acc = Target
      BY <1>10, ActingIsOnTarget DEF Read, Acting
    <2>4. told' # told => Target \notin secret
      BY <1>10, <2>2 DEF Read, SecretsOK
    <2> QED BY <2>1, <2>3, <2>4 DEF SecretsOK
  <1>11. CASE States
    BY <1>11 DEF States, app, ids, walk, watch, SecretsOK
  <1>12. CASE Act
    BY <1>12 DEF Act, ids, walk, watch, AnswerElement, SecretsOK
  <1>13. CASE LookAgain
    BY <1>13 DEF LookAgain, app, ids, walk, watch, Told, AnswerElement, SecretsOK
  <1>14. CASE Change
    <2>1. secret' = secret \intersect secure' /\ UNCHANGED <<elementRequest, elementPc, looked, told>>
      BY <1>14 DEF Change
    <2> QED BY <2>1 DEF SecretsOK, Target
  <1>15. CASE UNCHANGED elementsVars
    BY <1>15 DEF elementsVars, app, ids, walk, watch, SecretsOK, Target
  <1> QED BY <1>1, <1>2, <1>3, <1>4, <1>5, <1>6, <1>7, <1>8, <1>9, <1>10, <1>11, <1>12, <1>13, <1>14, <1>15 DEF ElementsNext, ElementsServe

\* A toggle is used when it is wanted.
LEMMA TogglesStep ==
    ASSUME AppTypes, WalkTypes, RequestsOK, IdsOK, TogglesOK, [ElementsNext]_elementsVars
    PROVE  TogglesOK'
  <1>1. ASSUME NEW r \in ElementRequests, AskListing(r) PROVE TogglesOK'
    <2>1. elementRequest' = r /\ r.kind # "element_action"
      BY <1>1 DEF AskListing, Begin
    <2> QED BY <2>1 DEF TogglesOK
  <1>2. ASSUME NEW r \in ElementRequests, AskAction(r) PROVE TogglesOK'
    <2>1. elementPc' \in {"idle", "look"} /\ elementReply' \in {"none", "stale"}
      BY <1>2 DEF AskAction, AnswerElement
    <2> QED BY <2>1 DEF TogglesOK
  <1>3. CASE Pass
    <2>1. elementRequest' = elementRequest /\ elementRequest.kind # "element_action"
      BY <1>3 DEF Pass, RequestsOK
    <2> QED BY <2>1 DEF TogglesOK
  <1>4. CASE Visit
    <2>1. elementRequest' = elementRequest /\ elementRequest.kind # "element_action"
      BY <1>4 DEF Visit, RequestsOK
    <2> QED BY <2>1 DEF TogglesOK
  <1>5. CASE Seek
    <2>1. elementRequest' = elementRequest /\ elementRequest.kind # "element_action"
      BY <1>5 DEF Seek, RequestsOK
    <2> QED BY <2>1 DEF TogglesOK
  <1>6. CASE Listed
    <2>1. elementRequest' = elementRequest /\ elementRequest.kind # "element_action"
      BY <1>6 DEF Listed, RequestsOK
    <2> QED BY <2>1 DEF TogglesOK
  <1>7. CASE Descend
    <2>1. elementRequest' = elementRequest /\ elementRequest.kind # "element_action"
      BY <1>7 DEF Descend, RequestsOK
    <2> QED BY <2>1 DEF TogglesOK
  <1>8. CASE Climb
    <2>1. elementRequest' = elementRequest /\ elementRequest.kind # "element_action"
      BY <1>8 DEF Climb, RequestsOK
    <2> QED BY <2>1 DEF TogglesOK
  <1>9. CASE Look
    <2>1. /\ UNCHANGED elementRequest /\ elementPc' \in {"read", "select_text", "idle", "states"}
          /\ elementReply' = "element" => elementRequest.action = "locate"
      BY <1>9 DEF Look, AnswerElement, RequestsOK
    <2> QED BY <2>1 DEF TogglesOK, Toggles
  <1>10. CASE Read
    <2>1. UNCHANGED elementRequest /\ elementPc' = "idle" /\ elementRequest.action \in {"read", "select_text"}
      BY <1>10 DEF Read, AnswerElement, RequestsOK
    <2> QED BY <2>1 DEF TogglesOK, Toggles
  <1>11. CASE States
    <2>1. UNCHANGED <<elementRequest, open>> /\ Acc = Target /\ elementReply' = "none"
      BY <1>11, ActingIsOnTarget DEF States, Acting, app, RequestsOK
    <2>2. elementPc' \in {"act", "look again"}
      BY <1>11 DEF States
    <2>3. elementRequest.action \in Toggles => (elementPc' = "look again" <=> (Acc \in open <=> elementRequest.action = "expand"))
      <3> DEFINE asAsked == (Acc \in open) = (elementRequest.action = "expand")
      <3>1. asAsked <=> (Acc \in open <=> elementRequest.action = "expand")
        OBVIOUS
      <3>2. elementPc' = IF elementRequest.action \in Toggles /\ asAsked THEN "look again" ELSE "act"
        BY <1>11 DEF States, Toggles
      <3> HIDE DEF asAsked
      <3> QED BY <3>1, <3>2
    <2>4. Target' = Target
      BY <2>1 DEF Target
    <2> QED BY <2>1, <2>2, <2>3, <2>4 DEF TogglesOK
  <1>12. CASE Act
    <2>1. UNCHANGED <<elementRequest, elementSteady>> /\ Acc = Target /\ elementPc = "act" /\ elementReply = "none"
      BY <1>12, ActingIsOnTarget DEF Act, Acting, watch, RequestsOK
    <2>2. Target' = Target
      BY <2>1 DEF Target
    <2>3. CASE elementPc' = "idle" /\ elementReply' = "failed"
      BY <2>3 DEF TogglesOK
    <2>4. CASE elementPc' = "look again" /\ elementReply' = "none"
      <3>1. elementRequest.action \in Toggles => open' = (IF Acc \in open THEN open \ {Acc} ELSE open \union {Acc})
        BY <1>12, <2>4 DEF Act, Toggles, AnswerElement
      <3>2. elementRequest.action \in Toggles => (Target \in open' <=> Target \notin open)
        BY <3>1, <2>1
      <3> QED BY <3>2, <2>1, <2>2, <2>4 DEF TogglesOK
    <2> QED BY <1>12, <2>1, <2>3, <2>4 DEF Act, AnswerElement
  <1>13. CASE LookAgain
    <2>1. UNCHANGED <<elementRequest, open, elementSteady>> /\ elementPc = "look again" /\ elementPc' = "idle"
      BY <1>13 DEF LookAgain, AnswerElement, app, watch
    <2> QED BY <2>1 DEF TogglesOK, Target
  <1>14. CASE Change
    <2>1. elementSteady' = FALSE
      BY <1>14 DEF Change
    <2> QED BY <2>1 DEF TogglesOK
  <1>15. CASE UNCHANGED elementsVars
    BY <1>15 DEF elementsVars, app, ids, walk, watch, TogglesOK, Target
  <1> QED BY <1>1, <1>2, <1>3, <1>4, <1>5, <1>6, <1>7, <1>8, <1>9, <1>10, <1>11, <1>12, <1>13, <1>14, <1>15 DEF ElementsNext, ElementsServe

-----------------------------------------------------------------------------
(* Elements: what a listing has.                                            *)

\* What the root leads to is closed under the children of nodes that show, and the least such set.
LEMMA LandsAreClosed ==
    ASSUME root \in Nodes
    PROVE  /\ root \in Lands /\ Lands \subseteq Nodes
           /\ \A n \in Lands : Seen(n) => ToSet(Kids[n]) \subseteq Lands
           /\ \A S \in SUBSET Nodes : Closed(S) => Lands \subseteq S
  <1>1. root \in Lands /\ Lands \subseteq Nodes
    BY DEF Lands, Closed
  <1>2. ASSUME NEW n \in Lands, Seen(n), NEW k \in ToSet(Kids[n]) PROVE k \in Lands
    <2>1. n \in Nodes /\ k \in Nodes
      BY <1>1, <1>2, KidsAreNodes
    <2>2. ASSUME NEW S \in SUBSET Nodes, Closed(S) PROVE k \in S
      <3>1. n \in S
        BY <2>2 DEF Lands
      <3> QED BY <1>2, <2>2, <3>1 DEF Closed
    <2> QED BY <2>1, <2>2 DEF Lands
  <1>3. \A S \in SUBSET Nodes : Closed(S) => Lands \subseteq S
    BY DEF Lands
  <1> QED BY <1>1, <1>2, <1>3

LEMMA LandsStay ==
    ASSUME UNCHANGED <<root, alive, showing, elementRequest>>
    PROVE  Lands' = Lands /\ \A n : (Seen(n)' <=> Seen(n)) /\ (Wanted(n)' <=> Wanted(n)) /\ (Matches(n)' <=> Matches(n))
  <1>1. \A n : (Seen(n)' <=> Seen(n)) /\ (Matches(n)' <=> Matches(n))
    BY DEF Seen, Matches
  <1>2. \A S : Closed(S)' <=> Closed(S)
    BY DEF Closed, Seen
  <1>3. Lands' = Lands
    BY <1>2 DEF Lands
  <1> QED BY <1>1, <1>3 DEF Wanted

\* A listing stays one only while nothing else is asked and nothing changes.
LEMMA ListingStays ==
    ASSUME UNCHANGED <<root, alive, showing, elementRequest>>, WalkOK, OutOK,
           UNCHANGED <<visited, stack, out, truncated>>, elementReply' = "listed" => stack = <<>>
    PROVE  WalkOK' /\ OutOK'
  <1>1. Stacked' = Stacked
    BY DEF Stacked
  <1> QED BY <1>1, LandsStay DEF WalkOK, OutOK

\* A listing goes on to be whole, or full.
LEMMA ListingStep ==
    ASSUME AppTypes, WalkTypes, RequestsOK, IdsOK, ListingOK, [ElementsNext]_elementsVars
    PROVE  ListingOK'
  <1>1. ASSUME NEW r \in ElementRequests, AskListing(r) PROVE ListingOK'
    <2>1. CASE Scope(r) # NoNode /\ r.kind = "elements"
      <3>1. /\ root' = Scope(r) /\ stack' = <<[node |-> Scope(r), depth |-> 0]>> /\ visited' = {} /\ out' = <<>>
            /\ ~truncated' /\ elementReply' = "none" /\ elementRequest' = r
        BY <1>1, <2>1 DEF AskListing, Begin
      <3>2. root' \in Nodes /\ Stacked' = {root'} /\ ToSet(out') = {}
        BY <2>1, <3>1, ScopeIsNode DEF Stacked, ToSet
      <3>3. root' \in Lands'
        BY <3>2 DEF Lands, Closed
      <3>4. IsInjective(out') /\ \A most \in r.max : Len(out') <= most
        <4>1. r.max \in Limit(Maxima)
          BY <2>1, RequestIs
        <4>2. r.max \subseteq Nat
          BY <4>1, ElementsAssumption DEF Limit
        <4> QED BY <3>1, <4>2 DEF IsInjective
      <3>5. WalkOK'
        BY <3>1, <3>2, <3>3 DEF WalkOK
      <3>6. OutOK'
        BY <3>1, <3>2, <3>4 DEF OutOK
      <3> QED BY <3>5, <3>6 DEF ListingOK
    <2>2. CASE Scope(r) = NoNode
      BY <1>1, <2>2 DEF AskListing, AnswerElement, ListingOK, Listing
    <2>3. CASE r.kind # "elements"
      BY <1>1, <2>3 DEF AskListing, Begin, ListingOK, Listing
    <2> QED BY <2>1, <2>2, <2>3
  <1>2. ASSUME NEW r \in ElementRequests, AskAction(r) PROVE ListingOK'
    BY <1>2 DEF AskAction, Begin, ListingOK, Listing
  <1>3. CASE Pass
    <2> DEFINE n == Top.node
    <2>1. UNCHANGED <<root, alive, showing, elementRequest, out, truncated, elementSteady, elementReply, elementPc>>
      BY <1>3 DEF Pass, app, watch
    <2>2. visited' = visited \union {n} /\ stack' = Tail(stack) /\ stack # <<>> /\ Skipped(n) /\ elementPc = "visit"
      BY <1>3 DEF Pass
    <2>3. n \in Nodes /\ Stacked = {n} \union Stacked'
      BY <2>2, TopIsPlace DEF Stacked
    <2>4. Seen(n) => n \in visited
      BY <2>2 DEF Skipped, Seen
    <2> HIDE DEF n
    <2>5. ASSUME Listing' PROVE WalkOK' /\ OutOK'
      <3>1. WalkOK /\ OutOK /\ ~truncated /\ elementReply' # "listed"
        BY <2>1, <2>2, <2>5 DEF ListingOK, Listing, WalkOK, RequestsOK
      <3>2. WalkOK'
        BY <3>1, <2>1, <2>2, <2>3, <2>4, LandsStay DEF WalkOK
      <3>3. OutOK'
        BY <3>1, <2>1, <2>2, <2>3, <2>4, LandsStay DEF OutOK, Wanted
      <3> QED BY <3>2, <3>3
    <2> QED BY <2>5 DEF ListingOK
  <1>4. CASE Visit
    <2> DEFINE n == Top.node
               full == Matches(n) /\ Over(Len(out), elementRequest.max)
    <2>1. UNCHANGED <<root, alive, showing, elementRequest, elementSteady, elementReply, elementPc>> /\ elementPc = "visit"
      BY <1>4 DEF Visit, app, watch
    <2>2. n \in Nodes /\ n \in Stacked /\ Top.depth \in Nat /\ stack # <<>>
      BY <1>4, TopIsPlace DEF Visit
    <2>3. n \notin visited /\ Seen(n)
      BY <1>4 DEF Visit, Skipped, Seen
    <2>4. ASSUME Listing' PROVE WalkOK' /\ OutOK'
      <3>1. WalkOK /\ OutOK /\ ~truncated /\ elementReply' # "listed" /\ elementRequest.depth = {}
        BY <2>1, <2>2, <2>4 DEF ListingOK, Listing, WalkOK, RequestsOK
      <3>2. ~Over(Top.depth, elementRequest.depth)
        BY <3>1 DEF Over
      <3>3. n \in Lands /\ n \notin ToSet(out) /\ elementRequest.max \subseteq Nat /\ Len(out) \in Nat
        <4>1. elementRequest.max \in Limit(Maxima)
          BY <2>1, <2>4, RequestIs DEF Listing, RequestsOK
        <4>2. elementRequest.max \subseteq Nat
          BY <4>1, ElementsAssumption DEF Limit
        <4> QED BY <3>1, <2>2, <2>3, <4>2 DEF WalkOK, OutOK, WalkTypes
      <3>4. /\ Lands' = Lands /\ \A m : (Seen(m)' <=> Seen(m)) /\ (Wanted(m)' <=> Wanted(m))
            /\ Wanted(n) <=> Matches(n)
        BY <2>1, <2>3, LandsStay DEF Wanted
      <3>5. CASE full
        <4>1. /\ truncated' /\ stack' = <<>> /\ visited' = visited \union {n} /\ UNCHANGED out
          BY <1>4, <3>5 DEF Visit
        <4>2. Stacked' = {}
          BY <4>1 DEF Stacked
        <4>3. \E most \in elementRequest.max : Len(out) = most
          <5>1. PICK most \in elementRequest.max : Len(out) >= most
            BY <3>5 DEF Over
          <5>2. Len(out) <= most
            BY <3>1 DEF OutOK
          <5> QED BY <5>1, <5>2, <3>3
        <4> HIDE DEF n
        <4>4. WalkOK'
          BY <2>1, <3>1, <3>3, <3>4, <4>1, <4>2 DEF WalkOK
        <4>5. OutOK'
          BY <2>1, <3>1, <3>3, <3>4, <3>5, <4>1, <4>3 DEF OutOK
        <4> QED BY <4>4, <4>5
      <3>6. CASE ~full
        <4>1. Push(n, Top.depth) /\ ~truncated'
          BY <1>4, <3>1, <3>2, <3>6 DEF Visit
        <4>2. /\ visited' = visited \union {n}
              /\ Stacked' = ToSet(Kids[n]) \union {Tail(stack)[i].node : i \in DOMAIN Tail(stack)}
              /\ Stacked = {n} \union {Tail(stack)[i].node : i \in DOMAIN Tail(stack)}
          BY <2>2, <4>1, PushIs, TopIsPlace DEF Push
        <4>3. IF Wanted(n) THEN out' = Append(out, n) ELSE out' = out
          BY <1>4, <3>4, <3>6 DEF Visit
        <4>4. Wanted(n) => \A most \in elementRequest.max : Len(out) + 1 <= most
          BY <3>3, <3>4, <3>6 DEF Over
        <4> HIDE DEF n
        <4>5. ToSet(out') = IF Wanted(n) THEN ToSet(out) \union {n} ELSE ToSet(out)
          <5>1. out \in Seq(Nodes)
            BY DEF WalkTypes
          <5>2. ToSet(Append(out, n)) = ToSet(out) \union {n}
            BY <2>2, <5>1, ToSetAppend
          <5> QED BY <4>3, <5>2
        <4>6. IsInjective(out')
          BY <2>2, <3>1, <3>3, <4>3, OnceMore DEF WalkTypes, OutOK
        <4>7. \A most \in elementRequest.max : Len(out') <= most
          <5>1. CASE Wanted(n)
            <6>1. Len(out') = Len(out) + 1
              BY <5>1, <4>3, <2>2 DEF WalkTypes
            <6> QED BY <5>1, <6>1, <4>4
          <5>2. CASE ~Wanted(n)
            BY <5>2, <4>3, <3>1 DEF OutOK
          <5> QED BY <5>1, <5>2
        <4>8. WalkOK'
          <5>1. ToSet(Kids[n]) \subseteq Lands
            BY <2>3, <3>1, <3>3, LandsAreClosed DEF WalkOK
          <5> QED BY <2>1, <3>1, <3>3, <3>4, <4>1, <4>2, <5>1 DEF WalkOK
        <4>9. OutOK'
          BY <2>1, <3>1, <3>4, <4>1, <4>2, <4>5, <4>6, <4>7 DEF OutOK
        <4> QED BY <4>8, <4>9
      <3> QED BY <3>5, <3>6
    <2> QED BY <2>4 DEF ListingOK
  <1>5. CASE Seek
    BY <1>5 DEF Seek, RequestsOK, ListingOK, Listing
  <1>6. CASE Listed
    <2>1. UNCHANGED <<root, alive, showing, elementRequest, visited, stack, out, truncated, elementSteady>> /\ stack = <<>>
      BY <1>6 DEF Listed, app, walk, watch
    <2>2. Listing' => Listing
      BY <1>6, <2>1 DEF Listed, Listing, RequestsOK
    <2> QED BY <2>1, <2>2, ListingStays DEF ListingOK
  <1>7. CASE Descend
    BY <1>7 DEF Descend, RequestsOK, ListingOK, Listing
  <1>8. CASE Climb
    BY <1>8 DEF Climb, RequestsOK, ListingOK, Listing
  <1>9. CASE Look
    BY <1>9 DEF Look, RequestsOK, ListingOK, Listing, Acting
  <1>10. CASE Read
    BY <1>10 DEF Read, RequestsOK, ListingOK, Listing, Acting
  <1>11. CASE States
    BY <1>11 DEF States, RequestsOK, ListingOK, Listing, Acting
  <1>12. CASE Act
    BY <1>12 DEF Act, RequestsOK, ListingOK, Listing, Acting
  <1>13. CASE LookAgain
    BY <1>13 DEF LookAgain, RequestsOK, ListingOK, Listing, Acting
  <1>14. CASE Change
    BY <1>14 DEF Change, ListingOK, Listing
  <1>15. CASE UNCHANGED elementsVars
    <2>1. UNCHANGED <<root, alive, showing, elementRequest, visited, stack, out, truncated, elementReply>> /\ Listing' = Listing
      BY <1>15 DEF elementsVars, app, walk, watch, Listing
    <2> QED BY <2>1, ListingStays DEF ListingOK, WalkOK
  <1> QED BY <1>1, <1>2, <1>3, <1>4, <1>5, <1>6, <1>7, <1>8, <1>9, <1>10, <1>11, <1>12, <1>13, <1>14, <1>15 DEF ElementsNext, ElementsServe

\* A listing that is answered is whole, or full with one more to come.
LEMMA WholeWhenListed ==
    ASSUME AppTypes, WalkTypes, RequestsOK, ListingOK
    PROVE  ListingIsWhole
  <1> SUFFICES ASSUME Listing, elementReply = "listed" PROVE
        LET all == {n \in Reached : Matches(n)} IN
        /\ ToSet(out) \subseteq all
        /\ truncated <=> Cardinality(all) > Len(out)
        /\ truncated => {Len(out)} = elementRequest.max
    BY DEF ListingIsWhole, Listing
  <1> DEFINE all == {n \in Reached : Matches(n)}
  <1>1. WalkOK /\ OutOK /\ stack = <<>> /\ Stacked = {}
    BY DEF ListingOK, WalkOK, Stacked
  <1>2. Lands \subseteq Nodes /\ \A S \in SUBSET Nodes : Closed(S) => Lands \subseteq S
    BY <1>1, LandsAreClosed DEF WalkOK
  <1>3. Reached = {n \in Lands : Seen(n)}
    BY DEF Reached, Lands
  <1>4. all = {n \in Lands : Wanted(n)}
    BY <1>3 DEF Wanted
  <1>5. ToSet(out) \subseteq all /\ all \subseteq Nodes
    BY <1>1, <1>2, <1>4 DEF WalkOK, OutOK
  <1>6. /\ IsFiniteSet(ToSet(out)) /\ Cardinality(ToSet(out)) = Len(out) /\ Len(out) \in Nat
        /\ IsFiniteSet(all) /\ Cardinality(all) \in Nat
    <2>1. out \in Seq(Nodes) /\ IsInjective(out)
      BY <1>1 DEF WalkTypes, OutOK
    <2>2. IsFiniteSet(all)
      BY <1>5, FS_Subset, ElementsAssumption
    <2> QED BY <2>1, <2>2, AsLongAsMany, FS_CardinalityType, ElementsAssumption
  <1> HIDE DEF all
  <1>7. CASE ~truncated
    <2>1. Closed(visited)
      BY <1>1, <1>7 DEF WalkOK, Closed
    <2>2. all \subseteq ToSet(out)
      <3>1. Lands \subseteq visited
        BY <1>2, <2>1 DEF WalkTypes
      <3> QED BY <3>1, <1>1, <1>4, <1>7 DEF OutOK
    <2>3. all = ToSet(out)
      BY <2>2, <1>5
    <2>4. Cardinality(all) = Len(out)
      BY <2>3, <1>6
    <2> QED BY <1>5, <1>6, <1>7, <2>4 DEF all
  <1>8. CASE truncated
    <2>1. PICK n \in all : n \notin ToSet(out)
      BY <1>1, <1>4, <1>8 DEF OutOK
    <2>2. ToSet(out) \union {n} \in SUBSET all
      BY <1>5, <2>1
    <2>3. Cardinality(ToSet(out) \union {n}) = Len(out) + 1
      BY <1>6, <2>1, FS_AddElement
    <2>4. Cardinality(all) >= Len(out) + 1
      <3>1. Cardinality(ToSet(out) \union {n}) <= Cardinality(all)
        BY <1>6, <2>2, FS_Subset
      <3> QED BY <3>1, <2>3
    <2>5. {Len(out)} = elementRequest.max
      <3>1. \E most \in elementRequest.max : Len(out) = most
        BY <1>1, <1>8 DEF OutOK
      <3>2. elementRequest.max \in Limit(Maxima)
        BY RequestIs DEF RequestsOK, Listing, NoRequest
      <3> QED BY <3>1, <3>2 DEF Limit
    <2>6. Cardinality(all) > Len(out)
      BY <2>4, <1>6
    <2> QED BY <1>5, <1>8, <2>5, <2>6 DEF all
  <1> QED BY <1>7, <1>8

-----------------------------------------------------------------------------
(* Elements: the theorems.                                                  *)

LEMMA TreeInitInv ==
    ASSUME ElementsInit
    PROVE  TreeInv
  <1>1. AppTypes
    BY ElementsAssumption DEF ElementsInit, AppTypes
  <1>2. WalkTypes
    <2>1. <<>> \in Seq(Places) /\ <<>> \in Seq(Nodes)
      OBVIOUS
    <2>2. truncated \in BOOLEAN /\ looked \in BOOLEAN
      BY DEF ElementsInit
    <2> QED BY <2>1, <2>2 DEF ElementsInit, WalkTypes
  <1>3. RequestsOK
    BY ElementsAssumption DEF ElementsInit, RequestsOK, Acting
  <1>4. IdsOK
    BY <1>3, ElementsAssumption DEF ElementsInit, IdsOK, RequestsOK, Acting, IsInjective
  <1>5. SecretsOK /\ TogglesOK /\ ListingOK
    BY DEF ElementsInit, SecretsOK, TogglesOK, ListingOK, Listing, NoRequest
  <1> QED BY <1>1, <1>2, <1>3, <1>4, <1>5 DEF TreeInv

LEMMA TreeStepInv ==
    ASSUME TreeInv, [ElementsNext]_elementsVars
    PROVE  TreeInv'
  <1>1. AppTypes' /\ WalkTypes' /\ RequestsOK' /\ IdsOK'
    BY AppStep, WalkStep, RequestsStep, IdsStep DEF TreeInv
  <1>2. SecretsOK' /\ TogglesOK' /\ ListingOK'
    BY SecretsStep, TogglesStep, ListingStep DEF TreeInv
  <1> QED BY <1>1, <1>2 DEF TreeInv

LEMMA TreeIsSafe ==
    ASSUME TreeInv
    PROVE  ElementsSafe
  <1> USE DEF TreeInv
  <1>1. ElementsTypeOK
    BY DEF AppTypes, WalkTypes, RequestsOK, IdsOK, ElementsTypeOK, Acting
  <1>2. ActsOnIssued
    BY ActingIsOnTarget DEF ActsOnIssued, Acting
  <1>3. SecretsUntold /\ IdsAreNodes
    BY DEF SecretsOK, SecretsUntold, IdsOK, IdsAreNodes
  <1>4. ListingIsWhole
    BY WholeWhenListed
  <1>5. ExpandsAsAsked
    BY DEF TogglesOK, Toggles, ExpandsAsAsked
  <1> QED BY <1>1, <1>2, <1>3, <1>4, <1>5 DEF ElementsSafe

\* TreeInv is an inductive invariant of the accessibility requests.
THEOREM TreeInvariant == ElementsSpec => []TreeInv
  <1>1. ElementsInit => TreeInv
    BY TreeInitInv
  <1>2. TreeInv /\ [ElementsNext]_elementsVars => TreeInv'
    BY TreeStepInv
  <1> QED BY <1>1, <1>2, PTL DEF ElementsSpec

\* Whatever the application does with its tree meanwhile: an id means one node for ever, no
\* password is told, a listing of a tree that stands still is whole or says that it is not, and
\* expand and collapse leave the node as asked.
THEOREM ElementsStaySafe == ElementsSpec => []ElementsSafe
  <1>1. TreeInv => ElementsSafe
    BY TreeIsSafe
  <1> QED BY <1>1, TreeInvariant, PTL


=============================================================================
