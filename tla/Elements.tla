------------------------------ MODULE Elements ------------------------------
(***************************************************************************)
(* Elements of the accessibility tree, as computer_driver.py lists them    *)
(* and acts on them.  A listing (elements, focused, elements at a point)   *)
(* walks the tree of another process node by node; element_action looks at *)
(* one node, acts, and looks again.  The application changes its tree      *)
(* between any two of these steps: nodes go, hide, open, and turn into     *)
(* password fields.                                                        *)
(*                                                                         *)
(* Names, values, bounds and roles are left out, but for what decides: a   *)
(* node has text or not, is secure or not, can be expanded or not.         *)
(***************************************************************************)
EXTENDS Naturals, Sequences, FiniteSets, SequencesExt

CONSTANTS
    Nodes,
    Kids,           \* children of a node, as the application tells them: a node may be told twice
    AppWindows,     \* the windows of the application, in its order
    Title,          \* the title of a window
    Fields,         \* nodes that may hold a password
    Expandable,     \* nodes with the states and the toggling action of a tree row
    Queried,        \* nodes that a query and role match
    NoNode,
    Maxima, Depths, \* the limits a listing may ask for
    Listings, ElementActions, Changes   \* bounds: requests, changes of the application

\* What the constants must be.
ASSUME ElementsAssumption ==
    /\ Kids \in [Nodes -> Seq(Nodes)]
    /\ AppWindows \in Seq(Nodes) /\ Len(AppWindows) > 0
    /\ {Fields, Expandable, Queried} \subseteq SUBSET Nodes
    /\ NoNode \notin Nodes
    /\ IsFiniteSet(Nodes)
    /\ Maxima \union Depths \union {Listings, ElementActions, Changes} \subseteq Nat

VARIABLES
    alive, showing, secure, open,   \* sets of nodes
    active,         \* the window with the state ACTIVE
    epoch, store,   \* the newest listing and its nodes
    elementRequest, elementPc,
    root, stack, visited,           \* of a walk
    out, truncated,
    looked,         \* whether element_action saw a secure field
    elementReply,
    issued,         \* history: all ids that were given, and the nodes they meant
    elementSteady,  \* history: the application has not changed since the request
    secret,         \* history: nodes that have been secure ever since the request
    told,           \* history: nodes whose text is in the reply
    elementAsks, changes

app == <<alive, showing, secure, open, active>>
walk == <<root, stack, visited, out, truncated>>
ids == <<epoch, store, issued>>
watch == <<elementSteady, secret>>
elementsVars == <<app, ids, elementRequest, elementPc, walk, looked, elementReply, watch, told, elementAsks, changes>>

NoRequest == [kind |-> "none"]

ElementsInit ==
    /\ alive = Nodes /\ showing = Nodes /\ secure \in SUBSET Fields /\ open = {}
    /\ active = AppWindows[1]
    /\ epoch = 0 /\ store = <<>> /\ issued = {}
    /\ elementRequest = NoRequest /\ elementPc = "idle"
    /\ root = NoNode /\ stack = <<>> /\ visited = {} /\ out = <<>> /\ truncated = FALSE
    /\ looked = FALSE /\ elementReply = "none"
    /\ elementSteady = TRUE /\ secret = {} /\ told = {}
    /\ elementAsks = [listings |-> 0, actions |-> 0] /\ changes = 0

-----------------------------------------------------------------------------
(* Requests.                                                                *)

\* parse_elements_params: a limit may be left out.
Limit(S) == {{}} \union {{x} : x \in S}
ElementRequests ==
    [kind : {"elements"}, window : ToSet(AppWindows) \union {NoNode}, max : Limit(Maxima), depth : Limit(Depths), all : BOOLEAN]
        \union [kind : {"point", "focused"}, window : {NoNode}, max : {{}}, depth : {{}}, all : {TRUE}]
        \union [kind : {"element_action"}, id : issued,
                action : {"read", "select_text", "locate", "press", "expand", "collapse"}]

Matches(n) == elementRequest.all \/ n \in Queried
Over(x, limit) == \E most \in limit : x >= most

\* pick_window: the first with the title, else the active one, else one that shows, else the first.
PickWindow(w) ==
    LET same == {i \in DOMAIN AppWindows : AppWindows[i] \in alive /\ Title[AppWindows[i]] = Title[w]}
        shown == {i \in DOMAIN AppWindows : AppWindows[i] \in alive \intersect showing}
    IN AppWindows[Min(IF same # {} THEN same ELSE IF shown # {} THEN shown ELSE {1})]

\* resolve_scope: a window that is given, else the active one.
Scope(r) == IF r.window # NoNode THEN (IF r.window \in alive THEN PickWindow(r.window) ELSE NoNode)
            ELSE IF active \in alive THEN active ELSE NoNode

AnswerElement(how) == elementReply' = how /\ elementPc' = "idle"

Begin(r) ==
    /\ elementPc = "idle"
    /\ elementRequest' = r
    /\ elementSteady' = TRUE /\ secret' = secure /\ told' = {}
    /\ looked' = FALSE

ForgetWalk == root' = NoNode /\ stack' = <<>> /\ visited' = {} /\ out' = <<>> /\ truncated' = FALSE

\* Mutant of AskListing: a listing goes on with the numbers of the one before.
AskListingOn(r) ==
    /\ r.kind # "element_action" /\ elementAsks.listings < Listings /\ Begin(r)
    /\ elementAsks' = [elementAsks EXCEPT !.listings = @ + 1] /\ Scope(r) # NoNode
    /\ root' = Scope(r) /\ stack' = <<[node |-> Scope(r), depth |-> 0]>>
    /\ visited' = {} /\ out' = <<>> /\ truncated' = FALSE
    /\ epoch' = epoch + 1 /\ UNCHANGED store
    /\ elementPc' = (IF r.kind = "point" THEN "descend" ELSE "visit") /\ elementReply' = "none"
    /\ UNCHANGED <<app, issued, changes>>

\* elements, focused: a listing that finds its window begins a new epoch.
AskListing(r) ==
    /\ r.kind # "element_action" /\ elementAsks.listings < Listings /\ Begin(r)
    /\ elementAsks' = [elementAsks EXCEPT !.listings = @ + 1]
    /\ IF Scope(r) = NoNode
       THEN AnswerElement("not_found") /\ UNCHANGED <<ids, walk>>
       ELSE /\ root' = Scope(r) /\ stack' = <<[node |-> Scope(r), depth |-> 0]>>
            /\ visited' = {} /\ out' = <<>> /\ truncated' = FALSE
            /\ IF r.kind = "focused" THEN UNCHANGED <<epoch, store>> ELSE epoch' = epoch + 1 /\ store' = <<>>
            /\ elementPc' = (IF r.kind = "point" THEN "descend" ELSE "visit") /\ elementReply' = "none"
            /\ UNCHANGED issued
    /\ UNCHANGED <<app, changes>>

-----------------------------------------------------------------------------
(* traverse and focused: depth first, whatever the tree is.                 *)

\* remember: the id of an element is its place in the newest listing.
Remember(n) ==
    /\ store' = Append(store, n)
    /\ issued' = issued \union {[epoch |-> epoch, number |-> Len(store'), node |-> n]}

\* describe: the value is read when the node is not secure.
Told(n) == told' = told \union ({n} \ secure)

Top == Head(stack)
\* has DEFUNCT, or is hidden: the node and what is under it are passed over.
Skipped(n) == n \in visited \/ n \notin alive \/ (n # root /\ n \notin showing)

Push(n, depth) ==
    /\ stack' = [i \in 1..Len(Kids[n]) |-> [node |-> Kids[n][i], depth |-> depth + 1]] \o Tail(stack)
    /\ visited' = visited \union {n}

Pass ==
    /\ elementPc = "visit" /\ stack # <<>> /\ Skipped(Top.node)
    /\ stack' = Tail(stack) /\ visited' = visited \union {Top.node}
    /\ UNCHANGED <<app, ids, elementRequest, elementPc, root, out, truncated, looked, elementReply, watch, told,
                   elementAsks, changes>>

\* Mutant of Visit: the last element that fits counts as a truncation.
VisitStrictly ==
    /\ elementPc = "visit" /\ elementRequest.kind = "elements" /\ stack # <<>> /\ ~Skipped(Top.node)
    /\ LET n == Top.node IN
       /\ truncated' = (truncated \/ (Matches(n) /\ Over(Len(out) + 1, elementRequest.max)))
       /\ out' = IF Matches(n) THEN Append(out, n) ELSE out
       /\ Told(n) /\ IF Matches(n) THEN Remember(n) ELSE UNCHANGED <<store, issued>>
       /\ IF truncated' THEN stack' = <<>> /\ visited' = visited \union {n} ELSE Push(n, Top.depth)
    /\ UNCHANGED <<app, epoch, elementRequest, elementPc, root, looked, elementReply, watch, elementAsks, changes>>

\* One node of traverse: the listing is full, or the node is described and opened up.
Visit ==
    /\ elementPc = "visit" /\ elementRequest.kind = "elements" /\ stack # <<>> /\ ~Skipped(Top.node)
    /\ LET n == Top.node
           full == Matches(n) /\ Over(Len(out), elementRequest.max)
           cut == ~full /\ Kids[n] # <<>> /\ Over(Top.depth, elementRequest.depth)
       IN /\ truncated' = (truncated \/ full \/ cut)
          /\ Told(n)
          /\ IF Matches(n) /\ ~full
             THEN out' = Append(out, n) /\ Remember(n)
             ELSE UNCHANGED <<out, store, issued>>
          /\ IF full THEN stack' = <<>> /\ visited' = visited \union {n}
             ELSE IF cut THEN stack' = Tail(stack) /\ visited' = visited \union {n}
             ELSE Push(n, Top.depth)
    /\ UNCHANGED <<app, epoch, elementRequest, elementPc, root, looked, elementReply, watch, elementAsks, changes>>

\* One node of focused: the first that has the focus ends the search.
Seek ==
    /\ elementPc = "visit" /\ elementRequest.kind = "focused" /\ stack # <<>> /\ ~Skipped(Top.node)
    /\ \/ Push(Top.node, Top.depth) /\ UNCHANGED <<out, told>>
       \/ /\ stack' = <<>> /\ out' = <<Top.node>> /\ Told(Top.node)
          /\ visited' = visited \union {Top.node}
    /\ UNCHANGED <<app, ids, elementRequest, elementPc, root, truncated, looked, elementReply, watch, elementAsks, changes>>

Listed ==
    /\ elementPc \in {"visit", "climb"} /\ stack = <<>> /\ AnswerElement("listed")
    /\ UNCHANGED <<app, ids, elementRequest, walk, looked, watch, told, elementAsks, changes>>

-----------------------------------------------------------------------------
(* chain_at_point: down to the deepest node under the point, then up to the *)
(* root.  A parent is whoever tells the node as its child.                  *)

Below == stack[1].node
Parents(n) == {p \in Nodes : n \in ToSet(Kids[p])}

\* Mutant of Descend: nodes on the way are not told apart.
DescendAgain ==
    /\ elementPc = "descend"
    /\ \/ \E child \in ToSet(Kids[Below]) :
             /\ stack' = <<[node |-> child, depth |-> 0]>> /\ visited' = visited \union {Below}
             /\ UNCHANGED elementPc
       \/ elementPc' = "climb" /\ visited' = {}
          /\ stack' \in IF Below = root THEN {stack, <<>>} ELSE {stack}
    /\ UNCHANGED <<app, ids, elementRequest, root, out, truncated, looked, elementReply, watch, told, elementAsks, changes>>

Descend ==
    /\ elementPc = "descend"
    /\ \/ \E child \in ToSet(Kids[Below]) \ visited :
             /\ stack' = <<[node |-> child, depth |-> 0]>> /\ visited' = visited \union {Below}
             /\ UNCHANGED elementPc
       \/ elementPc' = "climb" /\ visited' = {}
          /\ stack' \in IF Below = root THEN {stack, <<>>} ELSE {stack}
    /\ UNCHANGED <<app, ids, elementRequest, root, out, truncated, looked, elementReply, watch, told, elementAsks, changes>>

Climb ==
    /\ elementPc = "climb" /\ stack # <<>>
    /\ IF Below \in alive THEN out' = Append(out, Below) /\ Remember(Below) /\ Told(Below)
       ELSE UNCHANGED <<out, store, issued, told>>
    /\ visited' = visited \union {Below}
    /\ stack' \in IF Below = root \/ Parents(Below) = {} THEN {<<>>}
                  ELSE {IF p \in visited' THEN <<>> ELSE <<[node |-> p, depth |-> 0]>> : p \in Parents(Below)}
    /\ UNCHANGED <<app, epoch, elementRequest, elementPc, root, truncated, looked, elementReply, watch, elementAsks, changes>>

-----------------------------------------------------------------------------
(* element_action.                                                          *)

Target == elementRequest.id.node
Found(id) == IF id.epoch = epoch /\ id.number \in DOMAIN store THEN store[id.number] ELSE NoNode

\* The node of the request, as the driver's table has it now.
Acc == IF elementRequest.id.number \in DOMAIN store THEN store[elementRequest.id.number] ELSE NoNode

\* Mutant of AskAction: the epoch of the id is not looked at.
AskActionAnyEpoch(r) ==
    /\ r.kind = "element_action" /\ elementAsks.actions < ElementActions /\ Begin(r)
    /\ elementAsks' = [elementAsks EXCEPT !.actions = @ + 1]
    /\ IF r.id.number \in DOMAIN store THEN elementPc' = "look" /\ elementReply' = "none" ELSE AnswerElement("stale")
    /\ ForgetWalk /\ UNCHANGED <<app, ids, changes>>

AskAction(r) ==
    /\ r.kind = "element_action" /\ elementAsks.actions < ElementActions /\ Begin(r)
    /\ elementAsks' = [elementAsks EXCEPT !.actions = @ + 1]
    /\ IF Found(r.id) = NoNode THEN AnswerElement("stale") ELSE elementPc' = "look" /\ elementReply' = "none"
    /\ ForgetWalk /\ UNCHANGED <<app, ids, changes>>

\* describe, and whether the action is one of the element's.
Look ==
    /\ elementPc = "look"
    /\ IF Acc \notin alive THEN AnswerElement("stale") /\ UNCHANGED <<looked, told>>
       ELSE /\ Told(Acc) /\ looked' = (Acc \in secure)
            /\ IF elementRequest.action \in {"read", "select_text"} THEN elementPc' = elementRequest.action /\ UNCHANGED elementReply
               ELSE IF elementRequest.action = "locate" THEN AnswerElement("element")
               ELSE IF elementRequest.action \in {"expand", "collapse"} /\ Acc \notin Expandable THEN AnswerElement("unsupported")
               ELSE elementPc' = "states" /\ UNCHANGED elementReply
    /\ UNCHANGED <<app, ids, elementRequest, walk, watch, elementAsks, changes>>

\* Mutant of Read: the secure field is cut out of the reply, not of the reading.
ReadAnyway ==
    /\ elementPc \in {"read", "select_text"}
    /\ told' = told \union {Acc} /\ AnswerElement("text")
    /\ UNCHANGED <<app, ids, elementRequest, walk, looked, watch, elementAsks, changes>>

\* read_text, select_text: what the look called secure is not read.
Read ==
    /\ elementPc \in {"read", "select_text"}
    /\ IF looked
       THEN UNCHANGED told /\ AnswerElement(IF elementPc = "read" THEN "element" ELSE "secure_field")
       ELSE told' = told \union {Acc} /\ AnswerElement("text")
    /\ UNCHANGED <<app, ids, elementRequest, walk, looked, watch, elementAsks, changes>>

\* Mutant of States: the toggle is taken for the state.
StatesUnread ==
    /\ elementPc = "states" /\ elementPc' = "act" /\ UNCHANGED elementReply
    /\ UNCHANGED <<app, ids, elementRequest, walk, looked, watch, told, elementAsks, changes>>

\* perform reads the states again: a node in the requested state is left as it is.
States ==
    /\ elementPc = "states"
    /\ elementPc' = IF elementRequest.action \in {"expand", "collapse"} /\ ((Acc \in open) = (elementRequest.action = "expand"))
             THEN "look again" ELSE "act"
    /\ UNCHANGED <<app, ids, elementRequest, walk, looked, elementReply, watch, told, elementAsks, changes>>

\* do_action: a tree row toggles, a button may end its own window; or the application declines.
Act ==
    /\ elementPc = "act"
    /\ \/ /\ Acc \in alive /\ elementPc' = "look again" /\ UNCHANGED elementReply
          /\ IF elementRequest.action \in {"expand", "collapse"}
             THEN open' = (IF Acc \in open THEN open \ {Acc} ELSE open \union {Acc}) /\ UNCHANGED alive
             ELSE UNCHANGED open /\ alive' \in {alive, alive \ {Acc}}
       \/ AnswerElement("failed") /\ UNCHANGED <<alive, open>>
    /\ UNCHANGED <<showing, secure, active, ids, elementRequest, walk, looked, watch, told, elementAsks, changes>>

LookAgain ==
    /\ elementPc = "look again" /\ AnswerElement("element")
    /\ IF Acc \in alive THEN Told(Acc) ELSE UNCHANGED told
    /\ UNCHANGED <<app, ids, elementRequest, walk, looked, watch, elementAsks, changes>>

-----------------------------------------------------------------------------
(* The application and its user.                                            *)

Flip(S, n) == IF n \in S THEN S \ {n} ELSE S \union {n}

Change ==
    /\ changes < Changes /\ changes' = changes + 1 /\ elementSteady' = FALSE
    /\ \E n \in Nodes :
       \/ n \in alive /\ alive' = alive \ {n} /\ UNCHANGED <<showing, secure, open, active>>
       \/ showing' = Flip(showing, n) /\ UNCHANGED <<alive, secure, open, active>>
       \/ n \in Expandable /\ open' = Flip(open, n) /\ UNCHANGED <<alive, showing, secure, active>>
       \/ n \in Fields /\ secure' = Flip(secure, n) /\ UNCHANGED <<alive, showing, open, active>>
       \/ n \in ToSet(AppWindows) /\ active' = n /\ active # n /\ UNCHANGED <<alive, showing, secure, open>>
    /\ secret' = secret \intersect secure'
    /\ UNCHANGED <<ids, elementRequest, elementPc, walk, looked, elementReply, told, elementAsks>>

ElementsServe == Pass \/ Visit \/ Seek \/ Listed \/ Descend \/ Climb \/ Look \/ Read \/ States \/ Act \/ LookAgain
ElementsNext == (\E r \in ElementRequests : AskListing(r) \/ AskAction(r)) \/ ElementsServe \/ Change
ElementsSpec == ElementsInit /\ [][ElementsNext]_elementsVars
ElementsFairSpec == ElementsSpec /\ WF_elementsVars(ElementsServe)

-----------------------------------------------------------------------------
ElementsTypeOK ==
    /\ {alive, showing, secure, open} \subseteq SUBSET Nodes
    /\ active \in Nodes
    /\ epoch \in 0..Listings /\ store \in Seq(Nodes)
    /\ issued \subseteq [epoch : 1..Listings, number : 1..Cardinality(Nodes), node : Nodes]
    /\ elementRequest = NoRequest \/ elementRequest \in ElementRequests
    /\ elementPc \in {"idle", "visit", "descend", "climb", "look", "read", "select_text", "states", "act", "look again"}
    /\ root \in Nodes \union {NoNode} /\ visited \subseteq Nodes /\ out \in Seq(Nodes)
    /\ {elementSteady, truncated, looked} \subseteq BOOLEAN /\ {told, secret} \subseteq SUBSET Nodes

\* An id means one node for ever: what element_action describes, reads or acts on is
\* the node that the id was given for, in the newest listing.
ActsOnIssued == elementPc \in {"look", "read", "select_text", "states", "act", "look again"} => Acc = Target

\* The text of a field that was a password field all through the request is in no
\* reply: not in a listing, not in a look before or after an action, not in a read.
SecretsUntold == told \intersect secret = {}

\* Two elements of a listing are two nodes.
IdsAreNodes == IsInjective(store)

\* Nodes that a listing reaches from its root: the least set closed under the
\* children of nodes that are there and show.
Seen(n) == n \in alive /\ (n = root \/ n \in showing)
Closed(S) == root \in S /\ \A n \in S : Seen(n) => ToSet(Kids[n]) \subseteq S
Reached == {n \in Nodes : Seen(n) /\ \A S \in SUBSET Nodes : Closed(S) => n \in S}

\* A listing of a tree that stood still, without a depth, has every node that shows
\* and matches, or as many as were asked for; and it says so when there are more.
ListingIsWhole ==
    elementReply = "listed" /\ elementRequest.kind = "elements" /\ elementRequest.depth = {} /\ elementSteady =>
        LET all == {n \in Reached : Matches(n)} IN
        /\ ToSet(out) \subseteq all
        /\ truncated <=> Cardinality(all) > Len(out)
        /\ truncated => {Len(out)} = elementRequest.max

\* expand and collapse leave the node as asked, though the application only toggles,
\* unless it changes the node itself.
ExpandsAsAsked ==
    /\ elementReply = "element" /\ elementSteady
    /\ elementRequest.kind = "element_action" /\ elementRequest.action \in {"expand", "collapse"}
    => (Target \in open <=> elementRequest.action = "expand")

\* Though the application changes its tree between any two steps: an element id means one node for
\* ever, no password is told, a listing is whole or says that it is not, and expand and collapse do
\* as they say.
ElementsSafe ==
    ElementsTypeOK /\ ActsOnIssued /\ SecretsUntold /\ IdsAreNodes /\ ListingIsWhole /\ ExpandsAsAsked

\* Every request is answered, also when the application's tree has a cycle.
Answers == (elementPc # "idle") ~> (elementPc = "idle")

=============================================================================
