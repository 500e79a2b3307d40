---------------------------- MODULE ToolsProofs -----------------------------
(***************************************************************************)
(* Theorems about the tools that change what outlives a request: edits,    *)
(* git, GitHub and the transfer of files, for any requests, files,         *)
(* branches and limits.                                                    *)
(*                                                                         *)
(* Edits.  What a batch owes is stated per call (Sound): it has read every *)
(* path it names before it changes one, so that whatever it may have       *)
(* changed is in its snapshot or was changed by somebody else, and the     *)
(* rollback shrinks the set of files that may still differ (Dirty).        *)
(*                                                                         *)
(* GitWorkflow.  Each git command keeps a possible repository possible and *)
(* does to it only what its request allows (Allowed); a call adds where it *)
(* is in its plan and that its request was granted.                        *)
(*                                                                         *)
(* GitHub.  A call carries the checks it has made (Promised) through every *)
(* plan (PlanGoesOn), and each plan writes the audit after its act.        *)
(*                                                                         *)
(* Transfers.  A temporary file is there only while its request works on   *)
(* it.  The bound on shares is not inductive: a request that has made      *)
(* room, and one that is about to, will each add a file later.  RoomOK     *)
(* counts them, whichever makes room next: what they doom is gone by then. *)
(***************************************************************************)
EXTENDS Tools, FiniteSetTheorems, TLAPS

-----------------------------------------------------------------------------
(* Edits: where a call stands, and what it owes to the files.               *)

EditFields == {"pc", "job", "i", "op", "new", "file", "snap", "todo", "results", "rolled", "foreign", "before"}
EditPcs == {"idle", "snap", "op", "again", "open", "fill", "do", "undo", "head", "check", "apply", "done", "raised"}
AtWork == {"snap", "op", "again", "open", "fill", "do"}
TextIn(d, f) == IF f \in DOMAIN d THEN <<d[f]>> ELSE <<>>
FailedIn(r) == {i \in DOMAIN r : r[i] = "failed"}
Mentioned(j) == UNION {Paths(j.ops[i]) : i \in DOMAIN j.ops}
\* A call that is rolled back when an operation of it fails.
Undoable(k) == k.job.atomic /\ ~k.job.dry /\ k.job.kind # "patch"

\* A call is of one kind, and nothing is written in a preview.
Placed(k) ==
    /\ DOMAIN k = EditFields /\ k.pc \in EditPcs /\ k.rolled \in BOOLEAN
    /\ k.results \in Seq({"same", "changed", "failed"})
    /\ k.pc = "idle" => k.i = 1 /\ k.results = <<>> /\ k.snap = <<>> /\ ~k.rolled
    /\ k.pc # "idle" => k.job \in EditsWanted
    /\ k.pc \in {"head", "check", "apply"} => k.job.kind = "patch" /\ ~k.rolled
    /\ k.pc \in AtWork \union {"undo"} => k.job.kind # "patch"
    /\ k.pc \in {"open", "fill", "do", "undo", "apply"} => ~k.job.dry

\* The results are those of the operations before this one; a rollback follows one failure.
Counted(k) ==
    /\ k.pc \in AtWork /\ ~k.rolled =>
        /\ k.i \in 1..Len(k.job.ops) /\ Len(k.results) = k.i - 1
        /\ k.job.atomic => FailedIn(k.results) = {}
    /\ k.pc = "undo" => k.rolled
    /\ k.rolled => /\ k.pc \in {"undo", "open", "fill", "done", "raised"} /\ Undoable(k)
                   /\ FailedIn(k.results) = {Len(k.results)} /\ k.todo \subseteq DOMAIN k.snap
    /\ k.pc = "done" /\ k.rolled => k.todo = {}
    /\ k.pc = "done" /\ ~k.rolled /\ k.job.kind # "patch" =>
        IF k.job.atomic /\ FailedIn(k.results) # {} THEN FailedIn(k.results) = {Len(k.results)} /\ k.job.dry
        ELSE Len(k.results) = Len(k.job.ops)

\* A call works on the paths that its request names, and has read them all before it changes one.
Aimed(k) ==
    /\ k.pc \in AtWork /\ ~k.rolled => DOMAIN k.op = DOMAIN Idle /\ Paths(k.op) \subseteq Mentioned(k.job)
    /\ k.pc = "snap" => Mentioned(k.job) \subseteq DOMAIN k.snap \union k.todo
    /\ k.pc \in AtWork \ {"snap"} /\ ~k.rolled /\ Undoable(k) => Mentioned(k.job) \subseteq DOMAIN k.snap
    /\ \A f \in DOMAIN k.snap : k.snap[f] # <<>> => f \in Files
    /\ k.pc = "open" => k.file \in Files
    /\ k.pc \in {"open", "fill"} /\ ~k.rolled => k.file \in Mentioned(k.job) \union k.foreign \union {""}
    /\ k.pc = "do" /\ k.op.op = "move" => k.op.to \in Files
    /\ k.pc \in {"check", "apply"} => \A n \in DOMAIN k.job.ops : k.job.ops[n].path \in Files
    /\ k.pc = "again" => k.op.op \in TextOps
    /\ k.pc \in {"again", "open", "fill"} /\ ~k.rolled /\ k.op.op \in TextOps /\ k.op.expect # <<>>
        => Edited(k.op, k.op.expect[1]) = {k.new}

\* The files that may differ from what they were before the call.
Dirty(k) ==
    IF k.pc = "snap" THEN {} ELSE IF k.rolled THEN k.todo \union (IF k.pc \in {"open", "fill"} THEN {k.file} ELSE {})
    ELSE DOMAIN k.snap

\* What an undoable call owes to the files `d`, as far as nobody else changed them: it has read
\* what they were, only the dirty ones differ, and the one it writes back will be as before.
Owed(k, d) ==
    Undoable(k) /\ k.pc \notin {"idle", "raised"} =>
        /\ \A f \in (DOMAIN k.snap \intersect Files) \ k.foreign : k.snap[f] = TextIn(k.before, f)
        /\ \A f \in Files \ (k.foreign \union Dirty(k)) : TextIn(d, f) = TextIn(k.before, f)
        /\ k.rolled /\ k.pc \in {"open", "fill"} /\ k.file \in Files \ k.foreign => <<k.new>> = TextIn(k.before, k.file)
        /\ k.rolled /\ k.pc = "fill" /\ k.file \in Files \ k.foreign => k.file \in DOMAIN d

Sound(k, d) == Placed(k) /\ Counted(k) /\ Aimed(k) /\ Owed(k, d)

EditInv == DOMAIN disk \subseteq Files /\ \A c \in Editors : Sound(editCalls[c], disk)

\* An edit makes one text, or is refused.
LEMMA OneText ==
  ASSUME NEW o, NEW t, NEW n \in Edited(o, t)  PROVE  Edited(o, t) = {n}
<1>1. \A from, c, after : \/ InsertAtLine(t, from, c, after) = {}
                          \/ \E x : InsertAtLine(t, from, c, after) = {x}
  BY DEF InsertAtLine
<1>2. \A c : Lines(t, o, c) = {} \/ \E x : Lines(t, o, c) = {x}
  BY DEF Lines
<1>3. Replaced(t, o) = {} \/ \E x : Replaced(t, o) = {x}
  BY DEF Replaced
<1>4. Inserted(t, o) = {} \/ \E x : Inserted(t, o) = {x}
  BY DEF Inserted
<1>5. Deleted(t, o) = {} \/ \E x : Deleted(t, o) = {x}
  BY <1>2 DEF Deleted
<1>6. InsertAtHeading(t, o) = {} \/ \E x : InsertAtHeading(t, o) = {x}
  BY <1>1 DEF InsertAtHeading
<1>7. Edited(o, t) = {} \/ \E x : Edited(o, t) = {x}
  BY <1>1, <1>2, <1>3, <1>4, <1>5, <1>6 DEF Edited, Appended
<1>8. QED  BY <1>7

\* What another call's change of the file system makes of a call.
Seen(k, files, moved) ==
    [k EXCEPT !.foreign = @ \union files, !.file = IF k.pc = "fill" /\ @ \in DOMAIN moved THEN moved[@] ELSE @]

\* Only `files` differ, and an open file that moved went from one of them to one of them, or is cut off.
OnlyIn(files, d, e) == \A f \in Files \ files : TextIn(e, f) = TextIn(d, f)
Tells(files, moved) == \A x \in DOMAIN moved : (x \in Files => x \in files) /\ moved[x] \in files \union {""}

\* A call stays sound while others change files, as long as it is told which.
LEMMA OthersStaySound ==
  ASSUME NEW files, NEW moved, Tells(files, moved)
  PROVE  \A k, d, e : Sound(k, d) /\ OnlyIn(files, d, e) => Sound(Seen(k, files, moved), e)
<1> SUFFICES ASSUME NEW k, NEW d, NEW e, Sound(k, d), OnlyIn(files, d, e)  PROVE  Sound(Seen(k, files, moved), e)
  OBVIOUS
<1> SUFFICES ASSUME NEW s, s = Seen(k, files, moved)  PROVE  Sound(s, e)
  OBVIOUS
<1>1. DOMAIN k = EditFields
  BY DEF Sound, Placed
<1>2. /\ DOMAIN s = EditFields /\ s.pc = k.pc /\ s.job = k.job /\ s.i = k.i /\ s.op = k.op /\ s.new = k.new
      /\ s.snap = k.snap /\ s.todo = k.todo /\ s.results = k.results /\ s.rolled = k.rolled /\ s.before = k.before
      /\ s.foreign = k.foreign \union files
      /\ s.file = IF k.pc = "fill" /\ k.file \in DOMAIN moved THEN moved[k.file] ELSE k.file
  BY <1>1 DEF Seen, EditFields
<1>3. s.file = k.file \/ (k.pc = "fill" /\ s.file \in files \union {""} /\ (k.file \in Files => k.file \in files))
  BY <1>2 DEF Tells
<1>4. Placed(s)
  BY <1>2 DEF Sound, Placed
<1>5. Counted(s)
  BY <1>2 DEF Sound, Counted, Undoable
<1>6. Aimed(s)
  <2>1. s.pc = "open" => s.file \in Files
    BY <1>2, <1>3 DEF Sound, Aimed
  <2>2. s.pc \in {"open", "fill"} /\ ~s.rolled => s.file \in Mentioned(s.job) \union s.foreign \union {""}
    <3>1. k.pc \in {"open", "fill"} /\ ~k.rolled => k.file \in Mentioned(k.job) \union k.foreign \union {""}
      BY DEF Sound, Aimed
    <3>2. QED  BY <1>2, <1>3, <3>1
  <2>3. QED  BY <1>2, <2>1, <2>2 DEF Sound, Aimed, Undoable
<1>7. Owed(s, e)
  <2>1. SUFFICES ASSUME Undoable(s), s.pc \notin {"idle", "raised"}
                 PROVE  /\ \A f \in (DOMAIN s.snap \intersect Files) \ s.foreign : s.snap[f] = TextIn(s.before, f)
                        /\ \A f \in Files \ (s.foreign \union Dirty(s)) : TextIn(e, f) = TextIn(s.before, f)
                        /\ s.rolled /\ s.pc \in {"open", "fill"} /\ s.file \in Files \ s.foreign
                             => <<s.new>> = TextIn(s.before, s.file)
                        /\ s.rolled /\ s.pc = "fill" /\ s.file \in Files \ s.foreign => s.file \in DOMAIN e
    BY DEF Owed
  <2>2. /\ \A f \in (DOMAIN k.snap \intersect Files) \ k.foreign : k.snap[f] = TextIn(k.before, f)
        /\ \A f \in Files \ (k.foreign \union Dirty(k)) : TextIn(d, f) = TextIn(k.before, f)
        /\ k.rolled /\ k.pc \in {"open", "fill"} /\ k.file \in Files \ k.foreign => <<k.new>> = TextIn(k.before, k.file)
        /\ k.rolled /\ k.pc = "fill" /\ k.file \in Files \ k.foreign => k.file \in DOMAIN d
    BY <1>2, <2>1 DEF Sound, Owed, Undoable
  <2>3. \A f \in Files \ (s.foreign \union Dirty(s)) : f \notin k.foreign \union Dirty(k) /\ f \notin files
    BY <1>2, <1>3 DEF Dirty
  <2>4. \A f \in Files \ (s.foreign \union Dirty(s)) : TextIn(e, f) = TextIn(s.before, f)
    BY <1>2, <2>2, <2>3 DEF OnlyIn
  <2>5. s.file \in Files \ s.foreign => s.file = k.file /\ s.file \notin files
    BY <1>2, <1>3, EditsAssumption
  <2>6. s.file \in Files \ s.foreign /\ s.file \in DOMAIN d => s.file \in DOMAIN e
    <3>1. SUFFICES ASSUME s.file \in Files \ s.foreign, s.file \in DOMAIN d  PROVE  s.file \in DOMAIN e
      OBVIOUS
    <3>2. TextIn(e, s.file) = <<d[s.file]>>
      BY <2>5, <3>1 DEF TextIn, OnlyIn
    <3>3. QED  BY <3>2 DEF TextIn
  <2>7. QED  BY <1>2, <2>2, <2>4, <2>5, <2>6
<1>8. QED  BY <1>4, <1>5, <1>6, <1>7 DEF Sound

-----------------------------------------------------------------------------
(* Edits: how an operation ends.                                            *)

EditAnswers == {"same", "changed", "failed"}

LEMMA AnswerAdded ==
  ASSUME NEW r \in Seq(EditAnswers), NEW x \in EditAnswers
  PROVE  /\ Append(r, x) \in Seq(EditAnswers) /\ Len(Append(r, x)) = Len(r) + 1 /\ Len(r) \in Nat
         /\ FailedIn(Append(r, x)) = IF x = "failed" THEN FailedIn(r) \union {Len(r) + 1} ELSE FailedIn(r)
<1>1. /\ Append(r, x) \in Seq(EditAnswers) /\ Len(Append(r, x)) = Len(r) + 1 /\ Len(r) \in Nat
      /\ Append(r, x)[Len(r) + 1] = x /\ \A i \in 1..Len(r) : Append(r, x)[i] = r[i]
  OBVIOUS
<1>2. DOMAIN r = 1..Len(r) /\ DOMAIN Append(r, x) = 1..(Len(r) + 1)
  BY <1>1
<1>3. 1..(Len(r) + 1) = 1..Len(r) \union {Len(r) + 1}
  BY <1>1
<1>4. QED  BY <1>1, <1>2, <1>3 DEF FailedIn

LEMMA AskedOperations ==
  ASSUME NEW j \in EditsWanted
  PROVE  /\ Len(j.ops) \in Nat /\ DOMAIN j.ops = 1..Len(j.ops) /\ j.atomic \in BOOLEAN /\ j.dry \in BOOLEAN
         /\ \A i \in 1..Len(j.ops) : DOMAIN j.ops[i] = DOMAIN Idle /\ Paths(j.ops[i]) \subseteq Mentioned(j)
<1>1. j.ops \in Seq({j.ops[i] : i \in DOMAIN j.ops})
  BY EditsAssumption
<1>2. Len(j.ops) \in Nat /\ DOMAIN j.ops = 1..Len(j.ops)
  BY <1>1
<1>3. QED  BY <1>2, EditsAssumption DEF Mentioned

\* The operation answered, the call goes on with the next one or is done.
LEMMA NextIsSound ==
  ASSUME NEW k, NEW e, Sound(k, e), k.pc \in AtWork \ {"snap"}, ~k.rolled,
         NEW x \in EditAnswers, x = "failed" => ~k.job.atomic
  PROVE  Sound(Next1([k EXCEPT !.results = Append(@, x)]), e)
<1> DEFINE m == [k EXCEPT !.results = Append(@, x)]
<1>1. DOMAIN k = EditFields /\ k.results \in Seq(EditAnswers) /\ k.job \in EditsWanted
  BY DEF Sound, Placed, EditAnswers, AtWork
<1>2. /\ DOMAIN m = EditFields /\ m.pc = k.pc /\ m.job = k.job /\ m.i = k.i /\ m.op = k.op /\ m.new = k.new
      /\ m.file = k.file /\ m.snap = k.snap /\ m.todo = k.todo /\ m.results = Append(k.results, x)
      /\ m.rolled = k.rolled /\ m.foreign = k.foreign /\ m.before = k.before
  BY <1>1 DEF EditFields
<1> HIDE DEF m
<1>3. /\ k.i \in 1..Len(k.job.ops) /\ Len(k.results) = k.i - 1 /\ (k.job.atomic => FailedIn(k.results) = {})
  BY DEF Sound, Counted
<1>4. /\ Append(k.results, x) \in Seq(EditAnswers) /\ Len(Append(k.results, x)) = k.i
      /\ (k.job.atomic => FailedIn(Append(k.results, x)) = {})
  BY <1>1, <1>3, AnswerAdded, AskedOperations
<1> SUFFICES ASSUME NEW s, s = Next1(m)  PROVE  Sound(s, e)
  BY DEF m
<1>5. CASE k.i = Len(k.job.ops)
  <2>1. s = [m EXCEPT !.pc = "done"]
    BY <1>2, <1>5 DEF Next1
  <2>2. /\ DOMAIN s = EditFields /\ s.pc = "done" /\ s.job = k.job /\ s.i = k.i /\ s.op = k.op /\ s.new = k.new
        /\ s.file = k.file /\ s.snap = k.snap /\ s.todo = k.todo /\ s.results = Append(k.results, x)
        /\ s.rolled = k.rolled /\ s.foreign = k.foreign /\ s.before = k.before
    BY <1>2, <2>1 DEF EditFields
  <2>3. Placed(s)
    BY <1>1, <1>4, <2>2 DEF Sound, Placed, EditPcs, EditAnswers, AtWork
  <2>4. Counted(s)
    BY <1>4, <1>5, <2>2 DEF Sound, Counted, Undoable, AtWork
  <2>5. Aimed(s)
    BY <2>2 DEF Sound, Aimed, Undoable, AtWork
  <2>6. Owed(s, e)
    BY <2>2 DEF Sound, Owed, Undoable, Dirty, AtWork
  <2>7. QED  BY <2>3, <2>4, <2>5, <2>6 DEF Sound
<1>6. CASE k.i # Len(k.job.ops)
  <2>0. s = [m EXCEPT !.pc = "op", !.i = m.i + 1, !.op = m.job.ops[m.i + 1]]
    BY <1>2, <1>6 DEF Next1
  <2>1. s = [m EXCEPT !.pc = "op", !.i = k.i + 1, !.op = k.job.ops[k.i + 1]]
    BY <1>2, <2>0
  <2>2. /\ DOMAIN s = EditFields /\ s.pc = "op" /\ s.job = k.job /\ s.i = k.i + 1 /\ s.op = k.job.ops[k.i + 1] /\ s.new = k.new
        /\ s.file = k.file /\ s.snap = k.snap /\ s.todo = k.todo /\ s.results = Append(k.results, x)
        /\ s.rolled = k.rolled /\ s.foreign = k.foreign /\ s.before = k.before
    BY <1>2, <2>1 DEF EditFields
  <2>3. k.i + 1 \in 1..Len(k.job.ops)
    BY <1>1, <1>3, <1>6, AskedOperations
  <2>4. Placed(s)
    BY <1>1, <1>4, <2>2 DEF Sound, Placed, EditPcs, EditAnswers, AtWork
  <2>5. Counted(s)
    BY <1>3, <1>4, <2>2, <2>3 DEF Sound, Counted, Undoable, AtWork
  <2>6. DOMAIN s.op = DOMAIN Idle /\ Paths(s.op) \subseteq Mentioned(k.job)
    BY <1>1, <2>2, <2>3, AskedOperations
  <2>7. Aimed(s)
    BY <2>2, <2>6 DEF Sound, Aimed, Undoable, AtWork
  <2>8. Owed(s, e)
    BY <2>2 DEF Sound, Owed, Undoable, Dirty, AtWork
  <2>9. QED  BY <2>4, <2>5, <2>7, <2>8 DEF Sound
<1>7. QED  BY <1>5, <1>6

LEMMA OkIsSound ==
  ASSUME NEW k, NEW e, Sound(k, e), k.pc \in AtWork \ {"snap"}, ~k.rolled, NEW x \in {"same", "changed"}
  PROVE  Sound(Ok(k, x), e)
  BY NextIsSound DEF Ok, EditAnswers

\* The operation failed: the call goes on, ends, or takes back what it did.
LEMMA OpFailedIsSound ==
  ASSUME NEW k, NEW e, Sound(k, e), k.pc \in AtWork \ {"snap"}, ~k.rolled
  PROVE  Sound(OpFailed(k), e)
<1> DEFINE m == [k EXCEPT !.results = Append(@, "failed")]
<1>1. DOMAIN k = EditFields /\ k.results \in Seq(EditAnswers) /\ k.job \in EditsWanted /\ k.job.kind # "patch"
  BY DEF Sound, Placed, EditAnswers, AtWork
<1>2. /\ DOMAIN m = EditFields /\ m.pc = k.pc /\ m.job = k.job /\ m.i = k.i /\ m.op = k.op /\ m.new = k.new
      /\ m.file = k.file /\ m.snap = k.snap /\ m.todo = k.todo /\ m.results = Append(k.results, "failed")
      /\ m.rolled = k.rolled /\ m.foreign = k.foreign /\ m.before = k.before
  BY <1>1 DEF EditFields
<1>3. CASE ~k.job.atomic
  <2>1. OpFailed(k) = Next1([k EXCEPT !.results = Append(@, "failed")])
    BY <1>3 DEF OpFailed
  <2>2. QED  BY <1>3, <2>1, NextIsSound DEF EditAnswers
<1> HIDE DEF m
<1>4. /\ k.i \in 1..Len(k.job.ops) /\ Len(k.results) = k.i - 1 /\ (k.job.atomic => FailedIn(k.results) = {})
  BY DEF Sound, Counted
<1>5. ASSUME k.job.atomic
      PROVE  /\ Append(k.results, "failed") \in Seq(EditAnswers) /\ Len(Append(k.results, "failed")) = k.i
             /\ FailedIn(Append(k.results, "failed")) = {k.i}
  <2>1. "failed" \in EditAnswers /\ Len(k.results) + 1 = k.i
    BY <1>1, <1>4, AskedOperations DEF EditAnswers
  <2>2. /\ Append(k.results, "failed") \in Seq(EditAnswers) /\ Len(Append(k.results, "failed")) = Len(k.results) + 1
        /\ FailedIn(Append(k.results, "failed")) = FailedIn(k.results) \union {Len(k.results) + 1}
    BY <1>1, <2>1, AnswerAdded
  <2>3. QED  BY <1>4, <1>5, <2>1, <2>2
<1> SUFFICES ASSUME NEW s, s = OpFailed(k), k.job.atomic  PROVE  Sound(s, e)
  BY <1>3
<1>6. CASE k.job.dry
  <2>1. s = [m EXCEPT !.pc = "done"]
    BY <1>6 DEF OpFailed, m
  <2>2. /\ DOMAIN s = EditFields /\ s.pc = "done" /\ s.job = k.job /\ s.i = k.i /\ s.op = k.op /\ s.new = k.new
        /\ s.file = k.file /\ s.snap = k.snap /\ s.todo = k.todo /\ s.results = Append(k.results, "failed")
        /\ s.rolled = k.rolled /\ s.foreign = k.foreign /\ s.before = k.before
    BY <1>2, <2>1 DEF EditFields
  <2>3. Placed(s)
    BY <1>1, <1>5, <2>2 DEF Sound, Placed, EditPcs, EditAnswers, AtWork
  <2>4. Counted(s)
    BY <1>5, <1>6, <2>2 DEF Sound, Counted, Undoable, AtWork
  <2>5. Aimed(s)
    BY <2>2 DEF Sound, Aimed, Undoable, AtWork
  <2>6. Owed(s, e)
    BY <1>6, <2>2 DEF Owed, Undoable
  <2>7. QED  BY <2>3, <2>4, <2>5, <2>6 DEF Sound
<1>7. CASE ~k.job.dry
  <2>0. s = [m EXCEPT !.pc = "undo", !.rolled = TRUE, !.todo = DOMAIN k.snap]
    BY <1>7 DEF OpFailed, m
  <2>2. /\ DOMAIN s = EditFields /\ s.pc = "undo" /\ s.job = k.job /\ s.i = k.i /\ s.op = k.op /\ s.new = k.new
        /\ s.file = k.file /\ s.snap = k.snap /\ s.todo = DOMAIN k.snap /\ s.results = Append(k.results, "failed")
        /\ s.rolled = TRUE /\ s.foreign = k.foreign /\ s.before = k.before
    BY <1>2, <2>0 DEF EditFields
  <2>3. Placed(s)
    BY <1>1, <1>5, <1>7, <2>2 DEF Sound, Placed, EditPcs, EditAnswers, AtWork
  <2>4. Counted(s)
    BY <1>1, <1>5, <1>7, <2>2 DEF Sound, Counted, Undoable, AtWork
  <2>5. Aimed(s)
    BY <2>2 DEF Sound, Aimed, Undoable, AtWork
  <2>6. Owed(s, e)
    BY <2>2 DEF Sound, Owed, Undoable, Dirty, AtWork
  <2>7. QED  BY <2>3, <2>4, <2>5, <2>6 DEF Sound
<1>8. QED  BY <1>6, <1>7

\* A text was made for the file of the operation: a preview, no change, or a write to come.
LEMMA ResultIsSound ==
  ASSUME NEW k, Sound(k, disk), k.pc \in {"op", "again"}, NEW n, k.op.path \in Files,
         k.op.op \in TextOps /\ k.op.expect # <<>> => Edited(k.op, k.op.expect[1]) = {n}
  PROVE  Sound(Result(k, n), disk)
<1>1. DOMAIN k = EditFields /\ k.job \in EditsWanted /\ ~k.rolled
  BY DEF Sound, Placed, Counted
<1> SUFFICES ASSUME NEW s, s = Result(k, n)  PROVE  Sound(s, disk)
  OBVIOUS
<1>2. (\E x \in {"same", "changed"} : s = Ok(k, x)) \/ (~k.job.dry /\ s = [k EXCEPT !.pc = "open", !.file = k.op.path, !.new = n])
  BY DEF Result
<1>3. CASE \E x \in {"same", "changed"} : s = Ok(k, x)
  BY <1>1, <1>3, OkIsSound DEF AtWork
<1>4. CASE ~k.job.dry /\ s = [k EXCEPT !.pc = "open", !.file = k.op.path, !.new = n]
  <2>2. /\ DOMAIN s = EditFields /\ s.pc = "open" /\ s.job = k.job /\ s.i = k.i /\ s.op = k.op /\ s.new = n
        /\ s.file = k.op.path /\ s.snap = k.snap /\ s.todo = k.todo /\ s.results = k.results
        /\ s.rolled = k.rolled /\ s.foreign = k.foreign /\ s.before = k.before
    BY <1>1, <1>4 DEF EditFields
  <2>3. Placed(s)
    BY <1>1, <1>4, <2>2 DEF Sound, Placed, EditPcs, AtWork
  <2>4. Counted(s)
    BY <2>2 DEF Sound, Counted, Undoable, AtWork
  <2>5. k.op.path \in Mentioned(k.job)
    BY <1>1, EditsAssumption DEF Sound, Aimed, AtWork, Paths
  <2>6. Aimed(s)
    BY <1>1, <2>2, <2>5 DEF Sound, Aimed, Undoable, AtWork
  <2>7. Owed(s, disk)
    BY <1>1, <2>2 DEF Sound, Owed, Undoable, Dirty, AtWork
  <2>8. QED  BY <2>3, <2>4, <2>6, <2>7 DEF Sound
<1>5. QED  BY <1>2, <1>3, <1>4

-----------------------------------------------------------------------------
(* Edits: every step keeps every call sound.                                *)

LEMMA StepKeepsCalls ==
  ASSUME EditInv, NEW c \in Editors, NEW rec, NEW files, NEW moved, Step(c, rec, files, moved),
         Sound(rec, disk'), DOMAIN disk' \subseteq Files,
         Tells(files, moved), OnlyIn(files, disk, disk')
  PROVE  EditInv'
<1>1. \A k, d, e : Sound(k, d) /\ OnlyIn(files, d, e) => Sound(Seen(k, files, moved), e)
  BY OthersStaySound
<1>2. ASSUME NEW d \in Editors  PROVE  Sound(editCalls'[d], disk')
  <2>1. CASE d = c
    <3>1. editCalls'[d] = rec
      BY <2>1 DEF Step
    <3>2. QED  BY <3>1
  <2>2. CASE d # c
    <3>1. editCalls'[d] = Seen(editCalls[d], files, moved)
      BY <2>2 DEF Step, Seen
    <3>2. Sound(editCalls[d], disk)
      BY DEF EditInv
    <3>3. QED  BY <1>1, <3>1, <3>2
  <2>3. QED  BY <2>1, <2>2
<1>3. QED  BY <1>2 DEF EditInv

LEMMA GoesKeepsCalls ==
  ASSUME EditInv, NEW c \in Editors, NEW rec, Goes(c, rec), Sound(rec, disk), UNCHANGED disk
  PROVE  EditInv'
<1>1. Step(c, rec, {}, <<>>) /\ Sound(rec, disk') /\ DOMAIN disk' \subseteq Files
  BY DEF Goes, EditInv
<1>2. Tells({}, <<>>)
  <2>1. DOMAIN <<>> = {}
    OBVIOUS
  <2>2. QED  BY <2>1 DEF Tells
<1>3. OnlyIn({}, disk, disk')
  BY DEF OnlyIn
<1>4. QED  BY <1>1, <1>2, <1>3, StepKeepsCalls

\* A call that raises owes nothing any more.
LEMMA RaisedIsSound ==
  ASSUME NEW k, NEW d, Sound(k, d), k.pc # "idle"
  PROVE  Sound([k EXCEPT !.pc = "raised"], d)
<1>1. DOMAIN k = EditFields /\ k.job \in EditsWanted
  BY DEF Sound, Placed
<1> SUFFICES ASSUME NEW s, s = [k EXCEPT !.pc = "raised"]  PROVE  Sound(s, d)
  OBVIOUS
<1>2. /\ DOMAIN s = EditFields /\ s.pc = "raised" /\ s.job = k.job /\ s.i = k.i /\ s.op = k.op /\ s.new = k.new
      /\ s.file = k.file /\ s.snap = k.snap /\ s.todo = k.todo /\ s.results = k.results
      /\ s.rolled = k.rolled /\ s.foreign = k.foreign /\ s.before = k.before
  BY <1>1 DEF EditFields
<1>3. Placed(s)
  BY <1>1, <1>2 DEF Sound, Placed, EditPcs, AtWork
<1>4. Counted(s)
  BY <1>2 DEF Sound, Counted, Undoable, AtWork
<1>5. Aimed(s)
  BY <1>2 DEF Sound, Aimed, Undoable, AtWork
<1>6. Owed(s, d)
  BY <1>2 DEF Owed
<1>7. QED  BY <1>3, <1>4, <1>5, <1>6 DEF Sound

\* A call owes as much when it wrote only what it may.
LEMMA OwnFilesOwed ==
  ASSUME NEW k, NEW d, NEW e, Sound(k, d), k.pc \in AtWork \ {"snap"}, ~k.rolled, NEW files,
         files \subseteq Mentioned(k.job) \union k.foreign \union {""}, OnlyIn(files, d, e)
  PROVE  Sound(k, e)
<1>1. Undoable(k) => files \intersect Files \subseteq DOMAIN k.snap \union k.foreign
  BY EditsAssumption DEF Sound, Aimed
<1>2. Owed(k, e)
  <2>1. SUFFICES ASSUME Undoable(k)
                 PROVE  /\ \A f \in (DOMAIN k.snap \intersect Files) \ k.foreign : k.snap[f] = TextIn(k.before, f)
                        /\ \A f \in Files \ (k.foreign \union Dirty(k)) : TextIn(e, f) = TextIn(k.before, f)
    BY DEF Owed
  <2>2. /\ \A f \in (DOMAIN k.snap \intersect Files) \ k.foreign : k.snap[f] = TextIn(k.before, f)
        /\ \A f \in Files \ (k.foreign \union Dirty(k)) : TextIn(d, f) = TextIn(k.before, f)
    BY <2>1 DEF Sound, Owed, AtWork
  <2>3. Dirty(k) = DOMAIN k.snap
    BY DEF Dirty, AtWork
  <2>4. QED  BY <1>1, <2>1, <2>2, <2>3 DEF OnlyIn
<1>3. QED  BY <1>2 DEF Sound

\* What the changes of the file system leave alone.
LEMMA HoldingOne ==
  ASSUME NEW d, NEW f, NEW t
  PROVE  /\ DOMAIN Holding(d, f, t) = DOMAIN d \union {f} /\ TextIn(Holding(d, f, t), f) = <<t>> /\ Holding(d, f, t)[f] = t
         /\ \A x : x # f => TextIn(Holding(d, f, t), x) = TextIn(d, x)
         /\ \A x \in DOMAIN d \ {f} : Holding(d, f, t)[x] = d[x]
  BY DEF Holding, TextIn

LEMMA WithoutOne ==
  ASSUME NEW d, NEW f
  PROVE  /\ DOMAIN Without(d, f) = DOMAIN d \ {f} /\ TextIn(Without(d, f), f) = <<>>
         /\ \A x : x # f => TextIn(Without(d, f), x) = TextIn(d, x)
  BY DEF Without, Restrict, TextIn

LEMMA TextAtIs == ASSUME NEW f  PROVE  TextAt(f) = TextIn(disk, f)
  BY DEF TextAt, TextIn

-----------------------------------------------------------------------------
(* Edits: the beginning of a call and its operations.                       *)

LEMMA BeginKeepsCalls ==
  ASSUME EditInv, NEW c \in Editors, BeginEdit(c)  PROVE  EditInv'
<1> DEFINE k == editCalls[c]
<1>1. k.pc = "idle" /\ Sound(k, disk) /\ UNCHANGED disk
  BY DEF BeginEdit, EditInv
<1>2. /\ DOMAIN k = EditFields /\ k.i = 1 /\ k.results = <<>> /\ k.snap = <<>> /\ k.rolled = FALSE
      /\ DOMAIN k.snap = {} /\ FailedIn(k.results) = {} /\ Len(k.results) = 0
  BY <1>1 DEF Sound, Placed, FailedIn
<1>3. PICK j \in EditsWanted :
        Goes(c, LET b == [k EXCEPT !.job = j, !.before = disk, !.foreign = {}] IN
                IF \/ Len(j.ops) > MaxOps
                   \/ j.kind = "set" /\ (j.ops = <<>> \/ \E i \in DOMAIN j.ops : j.ops[i].op = "")
                THEN [b EXCEPT !.pc = "raised"]
                ELSE IF j.ops = <<>> THEN [b EXCEPT !.pc = "done"]
                ELSE [b EXCEPT !.op = j.ops[1], !.todo = UNION {Paths(j.ops[i]) : i \in DOMAIN j.ops},
                       !.pc = IF j.kind = "patch" THEN "head" ELSE IF j.atomic /\ ~j.dry THEN "snap" ELSE "op"])
  BY DEF BeginEdit
<1> DEFINE b == [k EXCEPT !.job = j, !.before = disk, !.foreign = {}]
<1>4. /\ DOMAIN b = EditFields /\ b.pc = "idle" /\ b.job = j /\ b.i = 1 /\ b.op = k.op /\ b.new = k.new /\ b.file = k.file
      /\ b.snap = k.snap /\ b.todo = k.todo /\ b.results = k.results /\ b.rolled = FALSE /\ b.foreign = {} /\ b.before = disk
  BY <1>1, <1>2 DEF EditFields
<1>5. PICK s : /\ Goes(c, s)
               /\ \/ s = [b EXCEPT !.pc = "raised"]
                  \/ j.ops = <<>> /\ s = [b EXCEPT !.pc = "done"]
                  \/ j.ops # <<>> /\ s = [b EXCEPT !.op = j.ops[1], !.todo = UNION {Paths(j.ops[i]) : i \in DOMAIN j.ops},
                       !.pc = IF j.kind = "patch" THEN "head" ELSE IF j.atomic /\ ~j.dry THEN "snap" ELSE "op"]
  BY <1>3
<1> HIDE DEF b, k
<1> SUFFICES Sound(s, disk)
  BY <1>1, <1>5, GoesKeepsCalls
<1>6. k.results \in Seq({"same", "changed", "failed"})
  BY <1>2
<1>7. CASE s = [b EXCEPT !.pc = "raised"]
  <2>1. /\ DOMAIN s = EditFields /\ s.pc = "raised" /\ s.job = j /\ s.snap = k.snap /\ s.results = k.results /\ s.rolled = FALSE
    BY <1>4, <1>7 DEF EditFields
  <2>2. QED  BY <1>2, <1>6, <2>1 DEF Sound, Placed, Counted, Aimed, Owed, EditPcs, AtWork
<1>8. CASE j.ops = <<>> /\ s = [b EXCEPT !.pc = "done"]
  <2>1. /\ DOMAIN s = EditFields /\ s.pc = "done" /\ s.job = j /\ s.snap = k.snap /\ s.results = k.results /\ s.rolled = FALSE
        /\ s.before = disk
    BY <1>4, <1>8 DEF EditFields
  <2>2. Len(j.ops) = 0
    BY <1>8
  <2>3. Placed(s) /\ Aimed(s)
    BY <1>2, <1>6, <2>1 DEF Placed, Aimed, EditPcs, AtWork
  <2>4. Counted(s)
    BY <1>2, <2>1, <2>2 DEF Counted, AtWork
  <2>5. Owed(s, disk)
    BY <1>2, <2>1 DEF Owed
  <2>6. QED  BY <2>3, <2>4, <2>5 DEF Sound
<1>9. CASE j.ops # <<>> /\ s = [b EXCEPT !.op = j.ops[1], !.todo = UNION {Paths(j.ops[i]) : i \in DOMAIN j.ops},
                       !.pc = IF j.kind = "patch" THEN "head" ELSE IF j.atomic /\ ~j.dry THEN "snap" ELSE "op"]
  <2>1. /\ DOMAIN s = EditFields /\ s.job = j /\ s.snap = k.snap /\ s.results = k.results /\ s.rolled = FALSE
        /\ s.before = disk /\ s.i = 1 /\ s.op = j.ops[1] /\ s.todo = Mentioned(j) /\ s.foreign = {}
        /\ s.pc = IF j.kind = "patch" THEN "head" ELSE IF j.atomic /\ ~j.dry THEN "snap" ELSE "op"
    BY <1>4, <1>9 DEF EditFields, Mentioned
  <2>2. 1 \in 1..Len(j.ops) /\ DOMAIN j.ops[1] = DOMAIN Idle /\ Paths(j.ops[1]) \subseteq Mentioned(j)
    <3>1. j.ops \in Seq({j.ops[i] : i \in DOMAIN j.ops})
      BY EditsAssumption
    <3>2. 1 \in 1..Len(j.ops)
      BY <1>9, <3>1
    <3>3. QED  BY <3>2, AskedOperations
  <2>3. Placed(s)
    BY <1>2, <1>6, <2>1 DEF Placed, EditPcs, AtWork
  <2>4. Counted(s)
    BY <1>2, <2>1, <2>2 DEF Counted, AtWork
  <2>5. Aimed(s)
    BY <1>2, <2>1, <2>2 DEF Aimed, AtWork, Undoable
  <2>6. Owed(s, disk)
    BY <1>2, <2>1 DEF Owed, Undoable, Dirty
  <2>7. QED  BY <2>3, <2>4, <2>5, <2>6 DEF Sound
<1>10. QED  BY <1>5, <1>7, <1>8, <1>9

LEMMA SnapKeepsCalls ==
  ASSUME EditInv, NEW c \in Editors, Snap(c)  PROVE  EditInv'
<1> DEFINE k == editCalls[c]
<1> DEFINE f == CHOOSE f \in k.todo : TRUE
<1>1. k.pc = "snap" /\ Sound(k, disk) /\ UNCHANGED disk
  BY DEF Snap, EditInv
<1>2. DOMAIN k = EditFields
  BY <1>1 DEF Sound, Placed
<1>3. PICK s : /\ Goes(c, s)
               /\ \/ k.todo = {} /\ s = [k EXCEPT !.pc = "op"]
                  \/ s = [k EXCEPT !.pc = "raised"]
                  \/ k.todo # {} /\ s = [k EXCEPT !.snap = Holding(@, f, TextAt(f)), !.todo = @ \ {f}]
  BY DEF Snap
<1>4. k.todo # {} => f \in k.todo
  OBVIOUS
<1> HIDE DEF f
<1>5. TextAt(f) = TextIn(disk, f) /\ (TextIn(disk, f) # <<>> => f \in Files)
  BY TextAtIs DEF EditInv, TextIn
<1> HIDE DEF k
<1> SUFFICES Sound(s, disk)
  BY <1>1, <1>3, GoesKeepsCalls
<1>6. CASE s = [k EXCEPT !.pc = "raised"]
  BY <1>1, <1>6, RaisedIsSound
<1>7. CASE k.todo = {} /\ s = [k EXCEPT !.pc = "op"]
  <2>1. /\ DOMAIN s = EditFields /\ s.pc = "op" /\ s.job = k.job /\ s.i = k.i /\ s.op = k.op /\ s.new = k.new
        /\ s.file = k.file /\ s.snap = k.snap /\ s.todo = k.todo /\ s.results = k.results
        /\ s.rolled = k.rolled /\ s.foreign = k.foreign /\ s.before = k.before
    BY <1>2, <1>7 DEF EditFields
  <2>2. Placed(s) /\ Counted(s)
    BY <1>1, <2>1 DEF Sound, Placed, Counted, EditPcs, AtWork, Undoable
  <2>3. Aimed(s)
    BY <1>1, <1>7, <2>1 DEF Sound, Aimed, AtWork, Undoable
  <2>4. Owed(s, disk)
    BY <1>1, <2>1 DEF Sound, Owed, Undoable, Dirty
  <2>5. QED  BY <2>2, <2>3, <2>4 DEF Sound
<1>8. CASE k.todo # {} /\ s = [k EXCEPT !.snap = Holding(@, f, TextAt(f)), !.todo = @ \ {f}]
  <2>1. /\ DOMAIN s = EditFields /\ s.pc = k.pc /\ s.job = k.job /\ s.i = k.i /\ s.op = k.op /\ s.new = k.new
        /\ s.file = k.file /\ s.snap = Holding(k.snap, f, TextAt(f)) /\ s.todo = k.todo \ {f} /\ s.results = k.results
        /\ s.rolled = k.rolled /\ s.foreign = k.foreign /\ s.before = k.before
    BY <1>2, <1>8 DEF EditFields
  <2>2. /\ DOMAIN s.snap = DOMAIN k.snap \union {f} /\ s.snap[f] = TextIn(disk, f)
        /\ \A x \in DOMAIN k.snap \ {f} : s.snap[x] = k.snap[x]
    BY <1>5, <2>1 DEF Holding
  <2>3. Placed(s) /\ Counted(s)
    BY <1>1, <2>1 DEF Sound, Placed, Counted, EditPcs, AtWork, Undoable
  <2>4. Aimed(s)
    BY <1>1, <1>4, <1>5, <2>1, <2>2 DEF Sound, Aimed, AtWork, Undoable
  <2>5. Owed(s, disk)
    <3>1. SUFFICES ASSUME Undoable(k)
                   PROVE  /\ \A x \in (DOMAIN s.snap \intersect Files) \ s.foreign : s.snap[x] = TextIn(s.before, x)
                          /\ \A x \in Files \ (s.foreign \union Dirty(s)) : TextIn(disk, x) = TextIn(s.before, x)
      BY <1>1, <2>1 DEF Owed, Sound, Undoable
    <3>2. /\ \A x \in (DOMAIN k.snap \intersect Files) \ k.foreign : k.snap[x] = TextIn(k.before, x)
          /\ \A x \in Files \ k.foreign : TextIn(disk, x) = TextIn(k.before, x)
      BY <1>1, <3>1 DEF Sound, Owed, Dirty
    <3>3. QED  BY <2>1, <2>2, <3>2
  <2>6. QED  BY <2>3, <2>4, <2>5 DEF Sound
<1>9. QED  BY <1>3, <1>6, <1>7, <1>8

\* A mission becomes an insertion under the hash of what was read.
LEMMA MissionKeepsCalls ==
  ASSUME EditInv, NEW c \in Editors, Mission(c)  PROVE  EditInv'
<1> DEFINE k == editCalls[c]
<1>1. k.pc = "op" /\ Sound(k, disk) /\ UNCHANGED disk /\ ~k.rolled
  BY DEF Mission, EditInv, Sound, Counted
<1>2. DOMAIN k = EditFields /\ DOMAIN k.op = DOMAIN Idle /\ DOMAIN Idle = {"op", "path", "to", "text", "from", "upto", "find", "all", "after", "may", "expect"}
  BY <1>1 DEF Sound, Placed, Aimed, AtWork, Idle
<1>3. PICK s : /\ Goes(c, s)
               /\ \/ s = OpFailed(k)
                  \/ s = [k EXCEPT !.op = [k.op EXCEPT !.op = "insert_heading", !.expect = TextAt(k.op.path)]]
  BY DEF Mission
<1> DEFINE o == [k.op EXCEPT !.op = "insert_heading", !.expect = TextAt(k.op.path)]
<1>4. DOMAIN o = DOMAIN Idle /\ o.path = k.op.path /\ o.to = k.op.to
  BY <1>2
<1> HIDE DEF k, o
<1> SUFFICES Sound(s, disk)
  BY <1>1, <1>3, GoesKeepsCalls
<1>5. CASE s = OpFailed(k)
  BY <1>1, <1>5, OpFailedIsSound DEF AtWork
<1>6. CASE s = [k EXCEPT !.op = o]
  <2>1. /\ DOMAIN s = EditFields /\ s.pc = "op" /\ s.job = k.job /\ s.i = k.i /\ s.op = o /\ s.new = k.new
        /\ s.file = k.file /\ s.snap = k.snap /\ s.todo = k.todo /\ s.results = k.results
        /\ s.rolled = k.rolled /\ s.foreign = k.foreign /\ s.before = k.before
    BY <1>1, <1>2, <1>6 DEF EditFields
  <2>2. Placed(s) /\ Counted(s)
    BY <1>1, <2>1 DEF Sound, Placed, Counted, AtWork, Undoable
  <2>3. Paths(s.op) = Paths(k.op)
    BY <1>4, <2>1 DEF Paths
  <2>4. Aimed(s)
    BY <1>1, <1>4, <2>1, <2>3 DEF Sound, Aimed, AtWork, Undoable
  <2>5. Owed(s, disk)
    BY <1>1, <2>1 DEF Sound, Owed, Undoable, Dirty
  <2>6. QED  BY <2>2, <2>4, <2>5 DEF Sound
<1>7. QED  BY <1>3, <1>5, <1>6 DEF o

\* The text is made of the one that the hash names.
LEMMA LookKeepsCalls ==
  ASSUME EditInv, NEW c \in Editors, LookAtText(c)  PROVE  EditInv'
<1> DEFINE k == editCalls[c]
<1> DEFINE n == CHOOSE t \in Edited(k.op, TextAt(k.op.path)[1]) : TRUE
<1>1. k.pc = "op" /\ k.op.op \in TextOps /\ Sound(k, disk) /\ UNCHANGED disk /\ ~k.rolled
  BY DEF LookAtText, EditInv, Sound, Counted
<1>2. DOMAIN k = EditFields
  BY <1>1 DEF Sound, Placed
<1>3. PICK s : /\ Goes(c, s)
               /\ \/ s = OpFailed(k)
                  \/ /\ Checked(k.op.expect, TextAt(k.op.path)) /\ Edited(k.op, TextAt(k.op.path)[1]) # {}
                     /\ s = [k EXCEPT !.pc = "again", !.new = n]
  BY DEF LookAtText
<1> SUFFICES Sound(s, disk)
  BY <1>1, <1>3, GoesKeepsCalls
<1>4. CASE s = OpFailed(k)
  BY <1>1, <1>4, OpFailedIsSound DEF AtWork
<1>5. CASE /\ Checked(k.op.expect, TextAt(k.op.path)) /\ Edited(k.op, TextAt(k.op.path)[1]) # {}
           /\ s = [k EXCEPT !.pc = "again", !.new = n]
  <2>1. n \in Edited(k.op, TextAt(k.op.path)[1])
    BY <1>5
  <2>2. Edited(k.op, TextAt(k.op.path)[1]) = {n}
    BY <2>1, OneText
  <2>3. k.op.expect # <<>> => Edited(k.op, k.op.expect[1]) = {n}
    BY <1>5, <2>2 DEF Checked
  <2> HIDE DEF n, k
  <2>4. /\ DOMAIN s = EditFields /\ s.pc = "again" /\ s.job = k.job /\ s.i = k.i /\ s.op = k.op /\ s.new = n
        /\ s.file = k.file /\ s.snap = k.snap /\ s.todo = k.todo /\ s.results = k.results
        /\ s.rolled = k.rolled /\ s.foreign = k.foreign /\ s.before = k.before
    BY <1>2, <1>5 DEF EditFields
  <2>5. Placed(s) /\ Counted(s)
    BY <1>1, <2>4 DEF Sound, Placed, Counted, EditPcs, AtWork, Undoable
  <2>6. Aimed(s)
    BY <1>1, <2>3, <2>4 DEF Sound, Aimed, AtWork, Undoable
  <2>7. Owed(s, disk)
    BY <1>1, <2>4 DEF Sound, Owed, Undoable, Dirty
  <2>8. QED  BY <2>5, <2>6, <2>7 DEF Sound
<1>6. QED  BY <1>3, <1>4, <1>5

\* The text is checked again, and written as it was made.
LEMMA AgainKeepsCalls ==
  ASSUME EditInv, NEW c \in Editors, Again(c)  PROVE  EditInv'
<1> DEFINE k == editCalls[c]
<1> DEFINE n == IF k.op.op = "write" THEN k.op.text ELSE k.new
<1>1. (k.pc = "again" \/ (k.pc = "op" /\ k.op.op = "write")) /\ Sound(k, disk) /\ UNCHANGED disk
  BY DEF Again, EditInv
<1>2. ~k.rolled /\ (k.pc = "again" => k.op.op \in TextOps)
  BY <1>1 DEF Sound, Counted, Aimed
<1>3. PICK s : Goes(c, s) /\ (s = OpFailed(k) \/ (k.op.path \in Files /\ s = Result(k, n)))
  BY DEF Again, Writable
<1> SUFFICES Sound(s, disk)
  BY <1>1, <1>3, GoesKeepsCalls
<1>4. CASE s = OpFailed(k)
  BY <1>1, <1>2, <1>4, OpFailedIsSound DEF AtWork
<1>5. CASE k.op.path \in Files /\ s = Result(k, n)
  <2>1. k.op.op \in TextOps => k.pc = "again" /\ n = k.new
    BY <1>1 DEF TextOps
  <2>2. k.op.op \in TextOps /\ k.op.expect # <<>> => Edited(k.op, k.op.expect[1]) = {n}
    BY <1>1, <1>2, <2>1 DEF Sound, Aimed
  <2> HIDE DEF n, k
  <2>3. QED  BY <1>1, <1>5, <2>2, ResultIsSound
<1>6. QED  BY <1>3, <1>4, <1>5

LEMMA CreateKeepsCalls ==
  ASSUME EditInv, NEW c \in Editors, Create(c)  PROVE  EditInv'
<1> DEFINE k == editCalls[c]
<1>1. k.pc = "op" /\ k.op.op = "create_file" /\ Sound(k, disk) /\ UNCHANGED disk
  BY DEF Create, EditInv
<1>2. ~k.rolled /\ k.op.op \notin TextOps
  BY <1>1 DEF Sound, Counted, TextOps
<1>3. PICK s : Goes(c, s) /\ (s = OpFailed(k) \/ (k.op.path \in Files /\ s = Result(k, k.op.text)))
  BY DEF Create, Writable
<1> HIDE DEF k
<1> SUFFICES Sound(s, disk)
  BY <1>1, <1>3, GoesKeepsCalls
<1>4. CASE s = OpFailed(k)
  BY <1>1, <1>2, <1>4, OpFailedIsSound DEF AtWork
<1>5. CASE k.op.path \in Files /\ s = Result(k, k.op.text)
  BY <1>1, <1>2, <1>5, ResultIsSound
<1>6. QED  BY <1>3, <1>4, <1>5

LEMMA PlanKeepsCalls ==
  ASSUME EditInv, NEW c \in Editors, PlanChange(c)  PROVE  EditInv'
<1> DEFINE k == editCalls[c]
<1>1. k.pc = "op" /\ Sound(k, disk) /\ UNCHANGED disk /\ ~k.rolled /\ k.op.op \notin TextOps
  BY DEF PlanChange, EditInv, Sound, Counted
<1>2. DOMAIN k = EditFields
  BY <1>1 DEF Sound, Placed
<1>3. PICK s : /\ Goes(c, s)
               /\ \/ s = OpFailed(k)
                  \/ \E x \in {"same", "changed"} : s = Ok(k, x)
                  \/ ~k.job.dry /\ (k.op.op = "move" => k.op.to \in Files) /\ s = [k EXCEPT !.pc = "do"]
  <2>1. PICK s : /\ Goes(c, s)
                 /\ \/ s = OpFailed(k)
                    \/ \E x \in {"same", "changed"} : s = Ok(k, x)
                    \/ /\ ~k.job.dry /\ s = [k EXCEPT !.pc = "do"]
                       /\ CASE k.op.op = "delete_file" ->
                                 MayMove /\ Writable(k.op.path, FALSE) /\ Readable(k.op.path) /\ Checked(k.op.expect, TextAt(k.op.path))
                            [] k.op.op = "move" ->
                                 /\ MayMove /\ Writable(k.op.path, FALSE) /\ Readable(k.op.path) /\ Checked(k.op.expect, TextAt(k.op.path))
                                 /\ Writable(k.op.to, TRUE) /\ (TextAt(k.op.to) = <<>> \/ (k.op.may /\ Readable(k.op.to)))
                            [] k.op.op = "ensure_directory" -> k.op.path \in Folders
                            [] OTHER -> FALSE
    BY DEF PlanChange
  <2>2. QED  BY <2>1 DEF Writable
<1> HIDE DEF k
<1> SUFFICES Sound(s, disk)
  BY <1>1, <1>3, GoesKeepsCalls
<1>4. CASE s = OpFailed(k)
  BY <1>1, <1>4, OpFailedIsSound DEF AtWork
<1>5. CASE \E x \in {"same", "changed"} : s = Ok(k, x)
  BY <1>1, <1>5, OkIsSound DEF AtWork
<1>6. CASE ~k.job.dry /\ (k.op.op = "move" => k.op.to \in Files) /\ s = [k EXCEPT !.pc = "do"]
  <2>1. /\ DOMAIN s = EditFields /\ s.pc = "do" /\ s.job = k.job /\ s.i = k.i /\ s.op = k.op /\ s.new = k.new
        /\ s.file = k.file /\ s.snap = k.snap /\ s.todo = k.todo /\ s.results = k.results
        /\ s.rolled = k.rolled /\ s.foreign = k.foreign /\ s.before = k.before
    BY <1>2, <1>6 DEF EditFields
  <2>2. Placed(s) /\ Counted(s)
    BY <1>1, <1>6, <2>1 DEF Sound, Placed, Counted, EditPcs, AtWork, Undoable
  <2>3. Aimed(s)
    BY <1>1, <1>6, <2>1 DEF Sound, Aimed, AtWork, Undoable
  <2>4. Owed(s, disk)
    BY <1>1, <2>1 DEF Sound, Owed, Undoable, Dirty
  <2>5. QED  BY <2>2, <2>3, <2>4 DEF Sound
<1>7. QED  BY <1>3, <1>4, <1>5, <1>6

\* unlink, mkdir and move: only the paths of the operation change.
LEMMA DoKeepsCalls ==
  ASSUME EditInv, NEW c \in Editors, Do(c)  PROVE  EditInv'
<1> DEFINE k == editCalls[c]
<1> DEFINE o == k.op
<1>1. k.pc = "do" /\ Sound(k, disk) /\ ~k.rolled /\ DOMAIN disk \subseteq Files
  BY DEF Do, EditInv, Sound, Counted
<1>2. /\ \A x \in {"same", "changed"} : \A e : Sound(k, e) => Sound(Ok(k, x), e)
      /\ Sound(OpFailed(k), disk)
  BY <1>1, OkIsSound, OpFailedIsSound DEF AtWork
<1>3. CASE o.op = "ensure_directory"
  <2>1. UNCHANGED disk /\ Goes(c, Ok(k, "changed"))
    BY <1>3 DEF Do
  <2>2. Sound(Ok(k, "changed"), disk)
    BY <1>1, <1>2
  <2>3. QED  BY <2>1, <2>2, GoesKeepsCalls
<1>4. CASE o.op # "ensure_directory" /\ TextAt(o.path) = <<>>
  <2>1. UNCHANGED disk /\ Goes(c, OpFailed(k))
    BY <1>4 DEF Do
  <2>2. QED  BY <1>2, <2>1, GoesKeepsCalls
<1>5. CASE o.op # "ensure_directory" /\ TextAt(o.path) # <<>>
  <2>1. /\ Step(c, Ok(k, "changed"), Paths(o), Moved(o))
        /\ disk' = (IF o.op = "move" THEN Without(Holds(o.to, disk[o.path]), o.path) ELSE Without(disk, o.path))
    BY <1>5 DEF Do
  <2>2. o.path \in DOMAIN disk /\ o.path \in Files /\ o.path \in Paths(o)
    BY <1>1, <1>5, EditsAssumption DEF TextAt, Paths
  <2>3. Tells(Paths(o), Moved(o))
    <3>1. DOMAIN Moved(o) \subseteq Paths(o)
      BY <2>2 DEF Moved
    <3>2. \A x \in DOMAIN Moved(o) : Moved(o)[x] \in {o.to, ""}
      BY DEF Moved
    <3>3. QED  BY <3>1, <3>2 DEF Tells, Paths
  <2>4. ASSUME o.op = "move"  PROVE  DOMAIN disk' \subseteq Files /\ OnlyIn(Paths(o), disk, disk')
    <3>1. o.to \in Files /\ o.to \in Paths(o)
      BY <1>1, <2>4, EditsAssumption DEF Sound, Aimed, Paths
    <3>2. PICK m : m = Holding(disk, o.to, disk[o.path])
      OBVIOUS
    <3>3. disk' = Without(m, o.path)
      BY <2>1, <2>4, <3>2 DEF Holds
    <3>4. DOMAIN m = DOMAIN disk \union {o.to} /\ \A x : x # o.to => TextIn(m, x) = TextIn(disk, x)
      BY <3>2 DEF Holding, TextIn
    <3>5. DOMAIN Without(m, o.path) = DOMAIN m \ {o.path} /\ \A x : x # o.path => TextIn(Without(m, o.path), x) = TextIn(m, x)
      BY WithoutOne
    <3>6. QED  BY <1>1, <2>2, <3>1, <3>3, <3>4, <3>5 DEF OnlyIn
  <2>5. ASSUME o.op # "move"  PROVE  DOMAIN disk' \subseteq Files /\ OnlyIn(Paths(o), disk, disk')
    <3>1. disk' = Without(disk, o.path)
      BY <2>1, <2>5
    <3>2. /\ DOMAIN Without(disk, o.path) = DOMAIN disk \ {o.path}
          /\ \A x : x # o.path => TextIn(Without(disk, o.path), x) = TextIn(disk, x)
      BY WithoutOne
    <3>3. QED  BY <1>1, <2>2, <3>1, <3>2 DEF OnlyIn
  <2>6. DOMAIN disk' \subseteq Files /\ OnlyIn(Paths(o), disk, disk')
    BY <2>4, <2>5
  <2>7. Paths(o) \subseteq Mentioned(k.job)
    BY <1>1 DEF Sound, Aimed, AtWork
  <2>8. \A e : OnlyIn(Paths(o), disk, e) => Sound(k, e)
    <3>1. SUFFICES ASSUME NEW e, OnlyIn(Paths(o), disk, e)  PROVE  Sound(k, e)
      OBVIOUS
    <3> HIDE DEF o, k
    <3>2. QED  BY <1>1, <2>7, <3>1, OwnFilesOwed DEF AtWork
  <2>9. Sound(Ok(k, "changed"), disk')
    BY <1>2, <2>6, <2>8
  <2>10. QED  BY <2>1, <2>3, <2>6, <2>9, StepKeepsCalls
<1>6. QED  BY <1>3, <1>4, <1>5

-----------------------------------------------------------------------------
(* Edits: writes, the rollback, and patches.                                *)

\* The file is cut off before it is written.
LEMMA OpenKeepsCalls ==
  ASSUME EditInv, NEW c \in Editors, Open(c)  PROVE  EditInv'
<1> DEFINE k == editCalls[c]
<1>1. k.pc = "open" /\ Sound(k, disk) /\ DOMAIN disk \subseteq Files
  BY DEF Open, EditInv
<1>2. DOMAIN k = EditFields /\ k.file \in Files
  BY <1>1 DEF Sound, Placed, Aimed
<1>3. CASE UNCHANGED disk /\ Goes(c, IF k.rolled THEN [k EXCEPT !.pc = "raised"] ELSE OpFailed(k))
  <2>1. PICK s : Goes(c, s) /\ (s = [k EXCEPT !.pc = "raised"] \/ (~k.rolled /\ s = OpFailed(k)))
    BY <1>3
  <2>2. Sound(s, disk)
    BY <1>1, <2>1, RaisedIsSound, OpFailedIsSound DEF AtWork
  <2>3. QED  BY <1>3, <2>1, <2>2, GoesKeepsCalls
<1>4. CASE Step(c, [k EXCEPT !.pc = "fill"], {k.file}, <<>>) /\ disk' = Holds(k.file, <<>>)
  <2>1. PICK s : s = [k EXCEPT !.pc = "fill"]
    OBVIOUS
  <2>2. PICK m : m = Holding(disk, k.file, <<>>)
    OBVIOUS
  <2>3. DOMAIN m = DOMAIN disk \union {k.file} /\ \A x : x # k.file => TextIn(m, x) = TextIn(disk, x)
    BY <2>2 DEF Holding, TextIn
  <2>4. disk' = m /\ Step(c, s, {k.file}, <<>>)
    BY <1>4, <2>1, <2>2 DEF Holds
  <2>5. Tells({k.file}, <<>>)
    <3>1. DOMAIN <<>> = {}
      OBVIOUS
    <3>2. QED  BY <3>1 DEF Tells
  <2>6. OnlyIn({k.file}, disk, m)
    BY <2>3 DEF OnlyIn
  <2> HIDE DEF k
  <2>7. /\ DOMAIN s = EditFields /\ s.pc = "fill" /\ s.job = k.job /\ s.i = k.i /\ s.op = k.op /\ s.new = k.new
        /\ s.file = k.file /\ s.snap = k.snap /\ s.todo = k.todo /\ s.results = k.results
        /\ s.rolled = k.rolled /\ s.foreign = k.foreign /\ s.before = k.before
    BY <1>2, <2>1 DEF EditFields
  <2>8. Placed(s) /\ Counted(s)
    BY <1>1, <2>7 DEF Sound, Placed, Counted, EditPcs, AtWork, Undoable
  <2>9. Aimed(s)
    BY <1>1, <2>7 DEF Sound, Aimed, AtWork, Undoable
  <2>10. Owed(s, m)
    <3>1. SUFFICES ASSUME Undoable(k)
                   PROVE  /\ \A f \in (DOMAIN k.snap \intersect Files) \ k.foreign : k.snap[f] = TextIn(k.before, f)
                          /\ \A f \in Files \ (k.foreign \union Dirty(s)) : TextIn(m, f) = TextIn(k.before, f)
                          /\ k.rolled /\ k.file \in Files \ k.foreign => <<k.new>> = TextIn(k.before, k.file)
      BY <2>3, <2>7 DEF Owed, Undoable
    <3>2. /\ \A f \in (DOMAIN k.snap \intersect Files) \ k.foreign : k.snap[f] = TextIn(k.before, f)
          /\ \A f \in Files \ (k.foreign \union Dirty(k)) : TextIn(disk, f) = TextIn(k.before, f)
          /\ k.rolled /\ k.file \in Files \ k.foreign => <<k.new>> = TextIn(k.before, k.file)
      BY <1>1, <3>1 DEF Sound, Owed
    <3>3. Dirty(s) = Dirty(k)
      BY <1>1, <2>7 DEF Dirty
    <3>4. k.file \in k.foreign \union Dirty(k)
      <4>1. CASE k.rolled
        BY <1>1, <4>1 DEF Dirty
      <4>2. CASE ~k.rolled
        BY <1>1, <1>2, <3>1, <4>2, EditsAssumption DEF Sound, Aimed, AtWork, Dirty
      <4>3. QED  BY <4>1, <4>2
    <3>5. QED  BY <2>3, <3>2, <3>3, <3>4
  <2>11. Sound(s, m)
    BY <2>8, <2>9, <2>10 DEF Sound
  <2>12. DOMAIN m \subseteq Files
    BY <1>1, <1>2, <2>3
  <2>13. QED  BY <2>4, <2>5, <2>6, <2>11, <2>12, StepKeepsCalls
<1>5. QED  BY <1>3, <1>4 DEF Open

\* A rollback that wrote a file goes on with the next; an operation is answered.
LEMMA FillKeepsCalls ==
  ASSUME EditInv, NEW c \in Editors, Fill(c)  PROVE  EditInv'
<1> DEFINE k == editCalls[c]
<1>1. k.pc = "fill" /\ Sound(k, disk) /\ DOMAIN disk \subseteq Files
  BY DEF Fill, EditInv
<1>2. DOMAIN k = EditFields
  BY <1>1 DEF Sound, Placed
<1>3. CASE UNCHANGED disk /\ Goes(c, IF k.rolled THEN [k EXCEPT !.pc = "raised"] ELSE OpFailed(k))
  <2>1. PICK s : Goes(c, s) /\ (s = [k EXCEPT !.pc = "raised"] \/ (~k.rolled /\ s = OpFailed(k)))
    BY <1>3
  <2>2. Sound(s, disk)
    BY <1>1, <2>1, RaisedIsSound, OpFailedIsSound DEF AtWork
  <2>3. QED  BY <1>3, <2>1, <2>2, GoesKeepsCalls
<1>4. CASE /\ disk' = (IF k.file \in DOMAIN disk THEN Holds(k.file, k.new) ELSE disk)
           /\ Step(c, IF k.rolled THEN [k EXCEPT !.pc = "undo"] ELSE Ok(k, "changed"), {k.file} \ {""}, <<>>)
  <2>1. PICK m : m = IF k.file \in DOMAIN disk THEN Holding(disk, k.file, k.new) ELSE disk
    OBVIOUS
  <2>2. /\ DOMAIN m = DOMAIN disk /\ \A x : x # k.file => TextIn(m, x) = TextIn(disk, x)
        /\ k.file \in DOMAIN disk => TextIn(m, k.file) = <<k.new>>
    BY <2>1 DEF Holding, TextIn
  <2>3. disk' = m /\ DOMAIN m \subseteq Files
    BY <1>1, <1>4, <2>1, <2>2 DEF Holds
  <2>4. Tells({k.file} \ {""}, <<>>)
    <3>1. DOMAIN <<>> = {}
      OBVIOUS
    <3>2. QED  BY <3>1 DEF Tells
  <2>5. OnlyIn({k.file} \ {""}, disk, m)
    BY <2>2, EditsAssumption DEF OnlyIn
  <2>6. CASE ~k.rolled
    <3>1. Step(c, Ok(k, "changed"), {k.file} \ {""}, <<>>)
      BY <1>4, <2>6
    <3>2. {k.file} \ {""} \subseteq Mentioned(k.job) \union k.foreign \union {""}
      BY <1>1, <2>6 DEF Sound, Aimed
    <3> HIDE DEF k
    <3>3. Sound(k, m)
      BY <1>1, <2>5, <2>6, <3>2, OwnFilesOwed DEF AtWork
    <3>4. Sound(Ok(k, "changed"), m)
      BY <1>1, <2>6, <3>3, OkIsSound DEF AtWork
    <3>5. QED  BY <2>3, <2>4, <2>5, <3>1, <3>4, StepKeepsCalls
  <2>7. CASE k.rolled
    <3>1. PICK s : s = [k EXCEPT !.pc = "undo"]
      OBVIOUS
    <3>2. Step(c, s, {k.file} \ {""}, <<>>)
      BY <1>4, <2>7, <3>1
    <3> HIDE DEF k
    <3>3. /\ DOMAIN s = EditFields /\ s.pc = "undo" /\ s.job = k.job /\ s.i = k.i /\ s.op = k.op /\ s.new = k.new
          /\ s.file = k.file /\ s.snap = k.snap /\ s.todo = k.todo /\ s.results = k.results
          /\ s.rolled = k.rolled /\ s.foreign = k.foreign /\ s.before = k.before
      BY <1>2, <3>1 DEF EditFields
    <3>4. Placed(s) /\ Counted(s)
      BY <1>1, <2>7, <3>3 DEF Sound, Placed, Counted, EditPcs, AtWork, Undoable
    <3>5. Aimed(s)
      BY <1>1, <2>7, <3>3 DEF Sound, Aimed, AtWork, Undoable
    <3>6. Owed(s, m)
      <4>1. SUFFICES ASSUME Undoable(k)
                     PROVE  /\ \A f \in (DOMAIN k.snap \intersect Files) \ k.foreign : k.snap[f] = TextIn(k.before, f)
                            /\ \A f \in Files \ (k.foreign \union Dirty(s)) : TextIn(m, f) = TextIn(k.before, f)
        BY <3>3 DEF Owed, Undoable
      <4>2. /\ \A f \in (DOMAIN k.snap \intersect Files) \ k.foreign : k.snap[f] = TextIn(k.before, f)
            /\ \A f \in Files \ (k.foreign \union Dirty(k)) : TextIn(disk, f) = TextIn(k.before, f)
            /\ k.file \in Files \ k.foreign => <<k.new>> = TextIn(k.before, k.file) /\ k.file \in DOMAIN disk
        BY <1>1, <2>7, <4>1 DEF Sound, Owed
      <4>3. Dirty(k) = Dirty(s) \union {k.file}
        BY <1>1, <2>7, <3>3 DEF Dirty
      <4>4. QED  BY <2>2, <4>2, <4>3
    <3>7. Sound(s, m)
      BY <3>4, <3>5, <3>6 DEF Sound
    <3>8. QED  BY <2>3, <2>4, <2>5, <3>2, <3>7, StepKeepsCalls
  <2>8. QED  BY <2>6, <2>7
<1>5. QED  BY <1>3, <1>4 DEF Fill

\* The rollback takes the paths of the snapshot one by one.
LEMMA UndoKeepsCalls ==
  ASSUME EditInv, NEW c \in Editors, UndoOne(c)  PROVE  EditInv'
<1> DEFINE k == editCalls[c]
<1> DEFINE f == CHOOSE f \in k.todo : TRUE
<1>1. k.pc = "undo" /\ Sound(k, disk) /\ DOMAIN disk \subseteq Files
  BY DEF UndoOne, EditInv
<1>2. DOMAIN k = EditFields /\ k.rolled /\ Undoable(k) /\ k.todo \subseteq DOMAIN k.snap /\ FailedIn(k.results) = {Len(k.results)}
  BY <1>1 DEF Sound, Placed, Counted
<1>3. /\ \A x \in (DOMAIN k.snap \intersect Files) \ k.foreign : k.snap[x] = TextIn(k.before, x)
      /\ \A x \in Files \ (k.foreign \union k.todo) : TextIn(disk, x) = TextIn(k.before, x)
  BY <1>1, <1>2 DEF Sound, Owed, Dirty
<1>4. CASE k.todo = {}
  <2>1. UNCHANGED disk /\ Goes(c, [k EXCEPT !.pc = "done"])
    BY <1>4 DEF UndoOne
  <2>2. PICK s : s = [k EXCEPT !.pc = "done"]
    OBVIOUS
  <2> HIDE DEF k
  <2>3. /\ DOMAIN s = EditFields /\ s.pc = "done" /\ s.job = k.job /\ s.i = k.i /\ s.op = k.op /\ s.new = k.new
        /\ s.file = k.file /\ s.snap = k.snap /\ s.todo = k.todo /\ s.results = k.results
        /\ s.rolled = k.rolled /\ s.foreign = k.foreign /\ s.before = k.before
    BY <1>2, <2>2 DEF EditFields
  <2>4. Placed(s) /\ Counted(s)
    BY <1>1, <1>2, <1>4, <2>3 DEF Sound, Placed, Counted, EditPcs, AtWork, Undoable
  <2>5. Aimed(s)
    BY <1>1, <2>3 DEF Sound, Aimed, AtWork, Undoable
  <2>6. Owed(s, disk)
    BY <1>2, <1>3, <2>3 DEF Owed, Dirty, Undoable
  <2>7. Sound(s, disk)
    BY <2>4, <2>5, <2>6 DEF Sound
  <2>8. QED  BY <2>1, <2>2, <2>7, GoesKeepsCalls
<1>5. CASE k.todo # {} /\ k.snap[f] # <<>>
  <2>1. UNCHANGED disk /\ Goes(c, [k EXCEPT !.pc = "open", !.file = f, !.new = k.snap[f][1], !.todo = @ \ {f}])
    BY <1>5 DEF UndoOne
  <2>2. PICK s : s = [k EXCEPT !.pc = "open", !.file = f, !.new = k.snap[f][1], !.todo = @ \ {f}]
    OBVIOUS
  <2>3. f \in k.todo
    BY <1>5
  <2>4. f \in DOMAIN k.snap /\ f \in Files
    BY <1>1, <1>2, <1>5, <2>3 DEF Sound, Aimed
  <2> HIDE DEF k, f
  <2>5. /\ DOMAIN s = EditFields /\ s.pc = "open" /\ s.job = k.job /\ s.i = k.i /\ s.op = k.op /\ s.new = k.snap[f][1]
        /\ s.file = f /\ s.snap = k.snap /\ s.todo = k.todo \ {f} /\ s.results = k.results
        /\ s.rolled = k.rolled /\ s.foreign = k.foreign /\ s.before = k.before
    BY <1>2, <2>2 DEF EditFields
  <2>6. Placed(s) /\ Counted(s)
    BY <1>1, <1>2, <2>5 DEF Sound, Placed, Counted, EditPcs, AtWork, Undoable
  <2>7. Aimed(s)
    BY <1>1, <1>2, <2>4, <2>5 DEF Sound, Aimed, AtWork, Undoable
  <2>8. f \in Files \ k.foreign => <<k.snap[f][1]>> = TextIn(k.before, f)
    BY <1>3, <1>5, <2>4 DEF TextIn
  <2>9. Dirty(s) = k.todo
    BY <1>2, <2>3, <2>5 DEF Dirty
  <2>10. Owed(s, disk)
    BY <1>3, <2>5, <2>8, <2>9 DEF Owed
  <2>11. Sound(s, disk)
    BY <2>6, <2>7, <2>10 DEF Sound
  <2>12. QED  BY <2>1, <2>2, <2>11, GoesKeepsCalls
<1>6. CASE k.todo # {} /\ k.snap[f] = <<>>
  <2>1. /\ Step(c, [k EXCEPT !.todo = @ \ {f}], {f} \intersect Files, [x \in {f} |-> ""])
        /\ disk' = Without(disk, f)
    BY <1>6 DEF UndoOne
  <2>2. PICK s : s = [k EXCEPT !.todo = @ \ {f}]
    OBVIOUS
  <2>3. f \in k.todo /\ f \in DOMAIN k.snap
    BY <1>2, <1>6
  <2> HIDE DEF k, f
  <2>4. PICK m : m = Without(disk, f)
    OBVIOUS
  <2>5. DOMAIN m = DOMAIN disk \ {f} /\ TextIn(m, f) = <<>> /\ \A x : x # f => TextIn(m, x) = TextIn(disk, x)
    BY <2>4, WithoutOne
  <2>6. /\ DOMAIN s = EditFields /\ s.pc = "undo" /\ s.job = k.job /\ s.i = k.i /\ s.op = k.op /\ s.new = k.new
        /\ s.file = k.file /\ s.snap = k.snap /\ s.todo = k.todo \ {f} /\ s.results = k.results
        /\ s.rolled = k.rolled /\ s.foreign = k.foreign /\ s.before = k.before
    BY <1>1, <1>2, <2>2 DEF EditFields
  <2>7. Placed(s) /\ Counted(s)
    BY <1>1, <1>2, <2>6 DEF Sound, Placed, Counted, EditPcs, AtWork, Undoable
  <2>8. Aimed(s)
    BY <1>1, <1>2, <2>6 DEF Sound, Aimed, AtWork, Undoable
  <2>9. Dirty(s) = k.todo \ {f}
    BY <1>2, <2>6 DEF Dirty
  <2>10. Owed(s, m)
    BY <1>3, <1>6, <2>3, <2>5, <2>6, <2>9 DEF Owed
  <2>11. Sound(s, m)
    BY <2>7, <2>8, <2>10 DEF Sound
  <2>12. Tells({f} \intersect Files, [x \in {f} |-> ""]) /\ OnlyIn({f} \intersect Files, disk, m) /\ DOMAIN m \subseteq Files
    BY <1>1, <2>5 DEF Tells, OnlyIn
  <2>13. QED  BY <2>1, <2>2, <2>4, <2>11, <2>12, StepKeepsCalls
<1>7. QED  BY <1>4, <1>5, <1>6

\* git apply writes every file of the patch, or none.
LEMMA PatchKeepsCalls ==
  ASSUME EditInv, NEW c \in Editors, Patch(c)  PROVE  EditInv'
<1> DEFINE k == editCalls[c]
<1> DEFINE ops == Range(k.job.ops)
<1> DEFINE new == [f \in {o.path : o \in ops} |-> (CHOOSE o \in ops : o.path = f).text]
<1>1. k.pc \in {"head", "check", "apply"} /\ Sound(k, disk) /\ DOMAIN disk \subseteq Files
  BY DEF Patch, EditInv
<1>2. DOMAIN k = EditFields /\ k.job \in EditsWanted /\ k.job.kind = "patch" /\ k.rolled = FALSE /\ ~Undoable(k)
  BY <1>1 DEF Sound, Placed, Undoable
<1>3. /\ k.pc = "apply" => ~k.job.dry
      /\ k.pc \in {"check", "apply"} => \A n \in DOMAIN k.job.ops : k.job.ops[n].path \in Files
      /\ \A x \in DOMAIN k.snap : k.snap[x] # <<>> => x \in Files
  BY <1>1 DEF Sound, Placed, Aimed
<1>4. <<"changed">> \in Seq({"same", "changed", "failed"}) /\ k.results \in Seq({"same", "changed", "failed"})
  BY <1>1 DEF Sound, Placed
<1>5. PICK s :
        \/ /\ k.pc = "apply" /\ disk' = Joined(new, disk) /\ Step(c, s, DOMAIN new, [f \in DOMAIN new |-> ""])
           /\ s = [k EXCEPT !.pc = "done", !.results = <<"changed">>]
        \/ /\ UNCHANGED disk /\ Goes(c, s)
           /\ \/ k.pc = "head" /\ (\A o \in ops : Writable(o.path, TRUE)) /\ s = [k EXCEPT !.pc = "check"]
              \/ k.pc = "check" /\ s = [k EXCEPT !.pc = "done", !.results = <<"changed">>]
              \/ k.pc = "check" /\ ~k.job.dry /\ s = [k EXCEPT !.pc = "apply"]
              \/ s = [k EXCEPT !.pc = "raised"]
  BY DEF Patch
<1>6. ASSUME NEW p \in {"check", "apply", "done"},
             s = [k EXCEPT !.pc = p] \/ (p = "done" /\ s = [k EXCEPT !.pc = p, !.results = <<"changed">>]),
             p = "apply" => ~k.job.dry,
             p # "done" => \A n \in DOMAIN k.job.ops : k.job.ops[n].path \in Files
      PROVE  \A e : Sound(s, e)
  <2> HIDE DEF k
  <2>1. /\ DOMAIN s = EditFields /\ s.pc = p /\ s.job = k.job /\ s.snap = k.snap /\ s.rolled = k.rolled
        /\ s.results \in Seq({"same", "changed", "failed"})
    BY <1>2, <1>4, <1>6 DEF EditFields
  <2>2. Placed(s)
    BY <1>2, <1>6, <2>1 DEF Placed, EditPcs, AtWork
  <2>3. Counted(s)
    BY <1>2, <2>1 DEF Counted, AtWork
  <2>4. Aimed(s)
    BY <1>2, <1>3, <1>6, <2>1 DEF Aimed, AtWork
  <2>5. \A e : Owed(s, e)
    BY <1>2, <2>1 DEF Owed, Undoable
  <2>6. QED  BY <2>2, <2>3, <2>4, <2>5 DEF Sound
<1>7. CASE /\ k.pc = "apply" /\ disk' = Joined(new, disk) /\ Step(c, s, DOMAIN new, [f \in DOMAIN new |-> ""])
           /\ s = [k EXCEPT !.pc = "done", !.results = <<"changed">>]
  <2>1. \A e : Sound(s, e)
    BY <1>6, <1>7
  <2>2. DOMAIN new \subseteq Files
    BY <1>3, <1>7 DEF Range
  <2>3. PICK m : m = Joined(new, disk)
    OBVIOUS
  <2> HIDE DEF new
  <2>4. DOMAIN m = DOMAIN new \union DOMAIN disk /\ OnlyIn(DOMAIN new, disk, m)
    BY <2>3 DEF Joined, OnlyIn, TextIn
  <2>5. Tells(DOMAIN new, [f \in DOMAIN new |-> ""])
    BY DEF Tells
  <2>6. Sound(s, disk') /\ DOMAIN disk' \subseteq Files /\ OnlyIn(DOMAIN new, disk, disk')
    BY <1>1, <1>7, <2>1, <2>2, <2>3, <2>4
  <2>7. QED  BY <1>7, <2>5, <2>6, StepKeepsCalls
<1>8. CASE /\ UNCHANGED disk /\ Goes(c, s)
           /\ \/ k.pc = "head" /\ (\A o \in ops : Writable(o.path, TRUE)) /\ s = [k EXCEPT !.pc = "check"]
              \/ k.pc = "check" /\ s = [k EXCEPT !.pc = "done", !.results = <<"changed">>]
              \/ k.pc = "check" /\ ~k.job.dry /\ s = [k EXCEPT !.pc = "apply"]
              \/ s = [k EXCEPT !.pc = "raised"]
  <2>1. CASE k.pc = "head" /\ (\A o \in ops : Writable(o.path, TRUE)) /\ s = [k EXCEPT !.pc = "check"]
    <3>1. \A n \in DOMAIN k.job.ops : k.job.ops[n].path \in Files
      BY <2>1 DEF Range, Writable
    <3>2. Sound(s, disk)
      BY <1>6, <2>1, <3>1
    <3>3. QED  BY <1>8, <3>2, GoesKeepsCalls
  <2>2. CASE k.pc = "check" /\ s = [k EXCEPT !.pc = "done", !.results = <<"changed">>]
    <3>1. Sound(s, disk)
      BY <1>6, <2>2
    <3>2. QED  BY <1>8, <3>1, GoesKeepsCalls
  <2>3. CASE k.pc = "check" /\ ~k.job.dry /\ s = [k EXCEPT !.pc = "apply"]
    <3>1. Sound(s, disk)
      BY <1>3, <1>6, <2>3
    <3>2. QED  BY <1>8, <3>1, GoesKeepsCalls
  <2>4. CASE s = [k EXCEPT !.pc = "raised"]
    <3>1. Sound(s, disk)
      BY <1>1, <2>4, RaisedIsSound
    <3>2. QED  BY <1>8, <3>1, GoesKeepsCalls
  <2>5. QED  BY <1>8, <2>1, <2>2, <2>3, <2>4
<1>9. QED  BY <1>5, <1>7, <1>8

LEMMA EditInitHolds ==
  ASSUME EditInit  PROVE  EditInv
<1>1. DOMAIN disk \subseteq Files
  BY EditsAssumption DEF EditInit
<1>2. ASSUME NEW c \in Editors  PROVE  Sound(editCalls[c], disk)
  <2> DEFINE k == editCalls[c]
  <2>1. /\ DOMAIN k = EditFields /\ k.pc = "idle" /\ k.i = 1 /\ k.results = <<>> /\ k.snap = <<>> /\ k.rolled = FALSE
    BY DEF EditInit, EditFields
  <2>2. <<>> \in Seq({"same", "changed", "failed"}) /\ DOMAIN <<>> = {}
    OBVIOUS
  <2> HIDE DEF k
  <2>3. Placed(k)
    BY <2>1, <2>2 DEF Placed, EditPcs, AtWork
  <2>4. Counted(k) /\ Aimed(k) /\ Owed(k, disk)
    BY <2>1, <2>2 DEF Counted, Aimed, Owed, AtWork
  <2>5. Sound(k, disk)
    BY <2>3, <2>4 DEF Sound
  <2>6. QED  BY <2>5 DEF k
<1>3. QED  BY <1>1, <1>2 DEF EditInv

LEMMA EditStepKeepsInv ==
  ASSUME EditInv, [EditNext]_editVars  PROVE  EditInv'
<1>1. ASSUME NEW c \in Editors, CallStep(c)  PROVE  EditInv'
  BY <1>1, BeginKeepsCalls, SnapKeepsCalls, MissionKeepsCalls, LookKeepsCalls, AgainKeepsCalls,
     CreateKeepsCalls,
     PlanKeepsCalls, DoKeepsCalls, OpenKeepsCalls, FillKeepsCalls, UndoKeepsCalls, PatchKeepsCalls DEF CallStep
<1>2. CASE UNCHANGED <<disk, editCalls>>
  BY <1>2 DEF EditInv
<1>3. QED  BY <1>1, <1>2 DEF EditNext, Commit, editVars

-----------------------------------------------------------------------------
(* Edits: the theorems.                                                     *)

\* The calls of edit_tools.py are where their code can be, count their results, know the text of
\* every path before they change one, and owe no file that nobody else changed.
THEOREM EditInvariant == EditSpec => []EditInv
<1>1. EditInit => EditInv
  BY EditInitHolds
<1>2. EditInv /\ [EditNext]_editVars => EditInv'
  BY EditStepKeepsInv
<1>3. QED  BY <1>1, <1>2, PTL DEF EditSpec

\* A batch that reports its rollback has put back every file that nobody else changed (batch_edit_files,
\* _restore_snapshot), an edit under a hash writes what it makes of the text the hash names
\* (_apply_text_change), and every operation is reported once, up to the one that ends an atomic batch.
THEOREM EditsAreSafe == EditSpec => []EditsSafe
<1>1. EditInv => UndoneIsAsBefore
  <2>1. SUFFICES ASSUME EditInv, NEW c \in Editors, editCalls[c].pc = "done", editCalls[c].rolled,
                        NEW f \in Files \ editCalls[c].foreign
                 PROVE  TextAt(f) = TextIn(editCalls[c].before, f)
    BY DEF UndoneIsAsBefore, TextIn
  <2>2. Sound(editCalls[c], disk)
    BY <2>1 DEF EditInv
  <2>3. Undoable(editCalls[c]) /\ Dirty(editCalls[c]) = {}
    BY <2>1, <2>2 DEF Sound, Counted, Dirty
  <2>4. TextIn(disk, f) = TextIn(editCalls[c].before, f)
    BY <2>1, <2>2, <2>3 DEF Sound, Owed
  <2>5. QED  BY <2>4, TextAtIs
<1>2. EditInv => MadeOfTheNamedText
  BY DEF EditInv, Sound, Aimed, MadeOfTheNamedText
<1>3. EditInv => ReportsAll
  <2>1. SUFFICES ASSUME EditInv, NEW c \in Editors, editCalls[c].pc = "done", editCalls[c].job.kind # "patch"
                 PROVE  LET bad == FailedIn(editCalls[c].results) IN
                        IF editCalls[c].job.atomic /\ bad # {}
                        THEN bad = {Len(editCalls[c].results)} /\ editCalls[c].rolled = ~editCalls[c].job.dry
                        ELSE Len(editCalls[c].results) = Len(editCalls[c].job.ops) /\ ~editCalls[c].rolled
    BY DEF ReportsAll, FailedIn
  <2> DEFINE k == editCalls[c]
  <2>2. Counted(k) /\ k.rolled \in BOOLEAN /\ k.job \in EditsWanted
    BY <2>1 DEF EditInv, Sound, Placed
  <2>3. k.job.dry \in BOOLEAN
    BY <2>2, EditsAssumption
  <2>4. CASE k.rolled
    BY <2>1, <2>2, <2>3, <2>4 DEF Counted, Undoable
  <2>5. CASE ~k.rolled
    BY <2>1, <2>2, <2>3, <2>5 DEF Counted
  <2>6. QED  BY <2>4, <2>5
<1>4. QED  BY <1>1, <1>2, <1>3, EditInvariant, PTL DEF EditsSafe

\* No step of a call with dry_run touches a file or a folder.
THEOREM PreviewsAreHarmless == EditSpec => PreviewsChangeNothing
<1> DEFINE Harmless == \A c \in Editors : editCalls[c].job.dry /\ editCalls[c].pc # "idle" /\ editCalls'[c].pc # editCalls[c].pc
                         => UNCHANGED <<disk, folders>>
<1>1. EditInv /\ [EditNext]_editVars => [Harmless]_editVars
  <2>1. SUFFICES ASSUME EditInv, EditNext, NEW c \in Editors, editCalls[c].job.dry, editCalls[c].pc # "idle",
                        editCalls'[c].pc # editCalls[c].pc
                 PROVE  UNCHANGED <<disk, folders>>
    BY DEF Harmless
  <2>2. PICK b \in Editors : CallStep(b)
    BY <2>1 DEF EditNext, Commit
  <2>3. \A d \in Editors \ {b} : \A rec, files, moved : Step(b, rec, files, moved) /\ DOMAIN editCalls[d] = EditFields
          => editCalls'[d].pc = editCalls[d].pc
    BY DEF Step, EditFields
  <2>4. \E rec, files, moved : Step(b, rec, files, moved)
    BY <2>2 DEF CallStep, BeginEdit, Snap, Mission, LookAtText, Again, Create, PlanChange, Do, Open, Fill,
       UndoOne, Patch, Goes
  <2>5. DOMAIN editCalls[c] = EditFields
    BY <2>1 DEF EditInv, Sound, Placed
  <2>6. b = c
    BY <2>1, <2>3, <2>4, <2>5
  <2>7. editCalls[c].pc \notin {"open", "fill", "do", "undo", "apply"}
    BY <2>1 DEF EditInv, Sound, Placed
  <2>8. QED  BY <2>2, <2>6, <2>7 DEF CallStep, BeginEdit, Snap, Mission, LookAtText, Again, Create, PlanChange,
                Do, Open, Fill, UndoOne, Patch
<1>2. QED  BY <1>1, EditInvariant, PTL DEF EditSpec, PreviewsChangeNothing

-----------------------------------------------------------------------------
(* git: what its commands make of a repository.                             *)

Histories == UNION {[D -> SUBSET (0..Commits)] : D \in SUBSET Branches}
AllEdits == OwnerEdits \union {Reverted}
Repos ==
    [edits : SUBSET AllEdits, staged : SUBSET AllEdits, stashes : Seq(SUBSET AllEdits), fixes : SUBSET AllEdits,
     merging : SUBSET {"merge", "rebase", "revert"}, unmerged : BOOLEAN, cur : Branches, branches : Histories,
     trees : SUBSET Branches, made : 0..Commits, remote : Histories, tracked : Histories]

\* The repositories git could have.
Possible(r) ==
    /\ r \in Repos /\ r.cur \in DOMAIN r.branches /\ r.trees \subseteq DOMAIN r.branches \ {r.cur}
    /\ Main \in DOMAIN r.remote

Kept(r) == r.edits \union r.staged \union UNION Range(r.stashes)

\* What most commands leave alone: the remote, the branches there are and every edit.
Leaves(r, s) == Possible(s) /\ s.remote = r.remote /\ DOMAIN r.branches \subseteq DOMAIN s.branches /\ Kept(r) \subseteq Kept(s)

LEMMA HistoriesAre ==
  ASSUME NEW f \in Histories
  PROVE  DOMAIN f \subseteq Branches /\ f \in [DOMAIN f -> SUBSET (0..Commits)]
  BY DEF Histories

LEMMA AreHistories ==
  ASSUME NEW D \in SUBSET Branches, NEW f \in [D -> SUBSET (0..Commits)]
  PROVE  f \in Histories
  BY DEF Histories

LEMMA SettingKeeps ==
  ASSUME NEW f \in Histories, NEW b \in Branches, NEW h \in SUBSET (0..Commits)
  PROVE  /\ Setting(f, b, h) \in Histories /\ DOMAIN Setting(f, b, h) = DOMAIN f \union {b}
         /\ Setting(f, b, h)[b] = h /\ \A x \in DOMAIN f \ {b} : Setting(f, b, h)[x] = f[x]
<1>1. DOMAIN f \union {b} \subseteq Branches
  BY HistoriesAre
<1>2. Setting(f, b, h) \in [DOMAIN f \union {b} -> SUBSET (0..Commits)]
  BY HistoriesAre DEF Setting
<1>3. Setting(f, b, h) \in Histories
  BY <1>1, <1>2, AreHistories
<1>4. QED  BY <1>3 DEF Setting

\* A stash in front of the others, and the others without it.
LEMMA StashOnTop ==
  ASSUME NEW S, NEW s \in Seq(S), NEW x \in S
  PROVE  <<x>> \o s \in Seq(S) /\ Range(<<x>> \o s) = {x} \union Range(s)
<1>1. /\ <<x>> \o s \in Seq(S) /\ Len(<<x>> \o s) = Len(s) + 1 /\ (<<x>> \o s)[1] = x
      /\ \A i \in 1..Len(s) : (<<x>> \o s)[i + 1] = s[i]
  OBVIOUS
<1>2. DOMAIN (<<x>> \o s) = 1..(Len(s) + 1) /\ DOMAIN s = 1..Len(s)
  BY <1>1
<1>3. ASSUME NEW y \in Range(<<x>> \o s)  PROVE  y \in {x} \union Range(s)
  <2>1. PICK i \in 1..(Len(s) + 1) : y = (<<x>> \o s)[i]
    BY <1>2 DEF Range
  <2>2. CASE i = 1
    BY <1>1, <2>1, <2>2
  <2>3. CASE i # 1
    <3>1. i - 1 \in 1..Len(s) /\ i - 1 + 1 = i
      BY <2>3
    <3>2. y = s[i - 1]
      BY <1>1, <2>1, <3>1
    <3>3. QED  BY <1>2, <3>1, <3>2 DEF Range
  <2>4. QED  BY <2>2, <2>3
<1>4. x \in Range(<<x>> \o s)
  <2>1. 1 \in 1..(Len(s) + 1)
    OBVIOUS
  <2>2. QED  BY <1>1, <1>2, <2>1 DEF Range
<1>5. ASSUME NEW y \in Range(s)  PROVE  y \in Range(<<x>> \o s)
  <2>1. PICK i \in 1..Len(s) : y = s[i]
    BY <1>2 DEF Range
  <2>2. i + 1 \in 1..(Len(s) + 1) /\ y = (<<x>> \o s)[i + 1]
    BY <1>1, <2>1
  <2>3. QED  BY <1>2, <2>2 DEF Range
<1>6. QED  BY <1>1, <1>3, <1>4, <1>5

LEMMA StashOffTop ==
  ASSUME NEW S, NEW s \in Seq(S), s # <<>>
  PROVE  /\ Head(s) \in S /\ Tail(s) \in Seq(S) /\ Range(s) \subseteq {Head(s)} \union Range(Tail(s))
         /\ Head(s) \in Range(s) /\ Range(Tail(s)) \subseteq Range(s)
<1>1. /\ Head(s) \in S /\ Tail(s) \in Seq(S) /\ Len(Tail(s)) = Len(s) - 1 /\ Head(s) = s[1] /\ Len(s) \in Nat \ {0}
      /\ \A i \in 1..Len(Tail(s)) : Tail(s)[i] = s[i + 1]
  OBVIOUS
<1>2. DOMAIN s = 1..Len(s) /\ DOMAIN Tail(s) = 1..Len(Tail(s))
  BY <1>1
<1>3. ASSUME NEW y \in Range(s)  PROVE  y \in {Head(s)} \union Range(Tail(s))
  <2>1. PICK i \in 1..Len(s) : y = s[i]
    BY <1>2 DEF Range
  <2>2. CASE i = 1
    BY <1>1, <2>1, <2>2
  <2>3. CASE i # 1
    <3>1. i - 1 \in 1..Len(Tail(s)) /\ i - 1 + 1 = i
      BY <1>1, <2>3
    <3>2. y = Tail(s)[i - 1]
      BY <1>1, <2>1, <3>1
    <3>3. QED  BY <1>2, <3>1, <3>2 DEF Range
  <2>4. QED  BY <2>2, <2>3
<1>4. ASSUME NEW y \in Range(Tail(s))  PROVE  y \in Range(s)
  <2>1. PICK i \in 1..Len(Tail(s)) : y = Tail(s)[i]
    BY <1>2 DEF Range
  <2>2. i + 1 \in 1..Len(s) /\ y = s[i + 1]
    BY <1>1, <2>1
  <2>3. QED  BY <1>2, <2>2 DEF Range
<1>5. Head(s) \in Range(s)
  <2>1. 1 \in 1..Len(s)
    BY <1>1
  <2>2. QED  BY <1>1, <1>2, <2>1 DEF Range
<1>6. QED  BY <1>1, <1>3, <1>4, <1>5

\* A branch moved or made.
LEMMA WithLeaves ==
  ASSUME NEW r, Possible(r), NEW b \in Branches, NEW h \in SUBSET (0..Commits)
  PROVE  /\ Leaves(r, With(r, b, h)) /\ With(r, b, h).branches = Setting(r.branches, b, h)
         /\ DOMAIN With(r, b, h).branches = DOMAIN r.branches \union {b}
         /\ LET s == With(r, b, h) IN
              /\ s.edits = r.edits /\ s.staged = r.staged /\ s.stashes = r.stashes /\ s.fixes = r.fixes
              /\ s.merging = r.merging /\ s.unmerged = r.unmerged /\ s.cur = r.cur /\ s.trees = r.trees
              /\ s.made = r.made /\ s.remote = r.remote /\ s.tracked = r.tracked
<1> DEFINE s == With(r, b, h)
<1>1. r \in Repos /\ r.branches \in Histories
  BY DEF Possible, Repos
<1>2. Setting(r.branches, b, h) \in Histories /\ DOMAIN Setting(r.branches, b, h) = DOMAIN r.branches \union {b}
  BY <1>1, SettingKeeps
<1>3. s.branches = Setting(r.branches, b, h)
  BY <1>1 DEF With, Repos
<1>4. s \in Repos
  BY <1>1, <1>2 DEF With, Repos
<1>5. /\ s.edits = r.edits /\ s.staged = r.staged /\ s.stashes = r.stashes /\ s.fixes = r.fixes /\ s.merging = r.merging
      /\ s.unmerged = r.unmerged /\ s.cur = r.cur /\ s.trees = r.trees /\ s.made = r.made /\ s.remote = r.remote
      /\ s.tracked = r.tracked
  BY <1>1 DEF With, Repos
<1>6. Leaves(r, s)
  BY <1>2, <1>3, <1>4, <1>5 DEF Leaves, Possible, Kept
<1>7. QED  BY <1>2, <1>3, <1>5, <1>6

LEMMA OutcomeIs ==
  ASSUME NEW x, NEW o
  PROVE  /\ o \in Did(x) => o.r = x
         /\ o \in Not(x) => o.r = x
         /\ \A how : o \in Stops(x, how) => o.r = x
<1>1. o \in Did(x) => o.r = x
  <2>1. \A how : o \in {[ok |-> TRUE, how |-> how, r |-> x]} => o.r = x
    OBVIOUS
  <2>2. PICK how : Did(x) = {[ok |-> TRUE, how |-> how, r |-> x]}
    BY Zenon DEF Did
  <2>3. QED  BY <2>1, <2>2
<1>2. o \in Not(x) => o.r = x
  <2>1. \A how : o \in {[ok |-> FALSE, how |-> how, r |-> x]} => o.r = x
    OBVIOUS
  <2>2. PICK how : Not(x) = {[ok |-> FALSE, how |-> how, r |-> x]}
    BY Zenon DEF Not
  <2>3. QED  BY <2>1, <2>2
<1>3. \A how : o \in Stops(x, how) => o.r = x
  BY DEF Stops
<1>4. QED  BY <1>1, <1>2, <1>3

LEMMA HereIs ==
  ASSUME NEW r, Possible(r)
  PROVE  /\ r \in Repos /\ r.cur \in Branches /\ r.cur \in DOMAIN r.branches /\ Here(r) \in SUBSET (0..Commits)
         /\ \A b \in DOMAIN r.branches : b \in Branches /\ r.branches[b] \in SUBSET (0..Commits)
         /\ \A b \in DOMAIN r.remote : b \in Branches /\ r.remote[b] \in SUBSET (0..Commits)
<1>1. r \in Repos /\ r.branches \in Histories /\ r.remote \in Histories /\ r.cur \in DOMAIN r.branches
  BY DEF Possible, Repos
<1>2. QED  BY <1>1, HistoriesAre DEF Here, Repos

LEMMA StaysTheSame ==
  ASSUME NEW r, Possible(r)  PROVE  Leaves(r, r)
  BY DEF Leaves

LEMMA CommittedLeaves ==
  ASSUME NEW r, Possible(r), r.made < Commits
  PROVE  /\ Leaves(r, Committed(r)) /\ Committed(r).made = r.made + 1
         /\ LET s == Committed(r) IN
              /\ s.edits = r.edits /\ s.staged = r.staged /\ s.stashes = r.stashes /\ s.fixes = r.fixes
              /\ s.merging = r.merging /\ s.unmerged = r.unmerged /\ s.cur = r.cur /\ s.trees = r.trees
              /\ s.remote = r.remote /\ s.tracked = r.tracked /\ DOMAIN s.branches = DOMAIN r.branches
<1> DEFINE h == Here(r) \union {r.made + 1}
<1> DEFINE w == With(r, r.cur, h)
<1>1. Commits \in Nat /\ r.made \in 0..Commits /\ r.made + 1 \in 0..Commits
  <2>1. Commits \in Nat /\ r.made \in 0..Commits
    BY GitAssumption DEF Possible, Repos
  <2>2. QED  BY <2>1
<1>2. h \in SUBSET (0..Commits) /\ r.cur \in Branches /\ r.cur \in DOMAIN r.branches
  BY <1>1, HereIs
<1> HIDE DEF h
<1>3. Leaves(r, w) /\ DOMAIN w.branches = DOMAIN r.branches
      /\ w.edits = r.edits /\ w.staged = r.staged /\ w.stashes = r.stashes /\ w.fixes = r.fixes
      /\ w.merging = r.merging /\ w.unmerged = r.unmerged /\ w.cur = r.cur /\ w.trees = r.trees
      /\ w.remote = r.remote /\ w.tracked = r.tracked /\ w.made = r.made
  BY <1>2, WithLeaves
<1>4. w \in Repos
  BY <1>3 DEF Leaves, Possible
<1> DEFINE s == [w EXCEPT !.made = w.made + 1]
<1>5. Committed(r) = s
  BY DEF Committed, h
<1>6. /\ s \in Repos /\ s.made = r.made + 1 /\ s.branches = w.branches
      /\ s.edits = w.edits /\ s.staged = w.staged /\ s.stashes = w.stashes /\ s.fixes = w.fixes
      /\ s.merging = w.merging /\ s.unmerged = w.unmerged /\ s.cur = w.cur /\ s.trees = w.trees
      /\ s.remote = w.remote /\ s.tracked = w.tracked
  BY <1>1, <1>3, <1>4 DEF Repos
<1> HIDE DEF w, s
<1>7. Leaves(r, s)
  BY <1>3, <1>6 DEF Leaves, Possible, Kept
<1>8. QED  BY <1>3, <1>5, <1>6, <1>7

\* The paths of a command may be the last that conflict; nothing else follows from that.
LEMMA SettlingLeaves ==
  ASSUME NEW r, NEW x, Leaves(r, x), NEW o \in Settling(x)
  PROVE  Leaves(r, o.r)
<1> DEFINE s == [x EXCEPT !.unmerged = FALSE]
<1>1. x \in Repos
  BY DEF Leaves, Possible
<1>2. /\ s \in Repos /\ s.cur = x.cur /\ s.branches = x.branches /\ s.trees = x.trees /\ s.remote = x.remote
      /\ s.edits = x.edits /\ s.staged = x.staged /\ s.stashes = x.stashes
  BY <1>1 DEF Repos
<1>3. o.r = x \/ o.r = s
  BY OutcomeIs DEF Settling
<1> HIDE DEF s
<1>4. Leaves(r, s)
  BY <1>2 DEF Leaves, Possible, Kept
<1>5. QED  BY <1>3, <1>4

LEMMA SwitchLeaves ==
  ASSUME NEW r, Possible(r), NEW b, NEW create \in BOOLEAN, create => b \in Branches, NEW o \in GitSwitch(r, b, create)
  PROVE  Leaves(r, o.r)
<1>1. CASE r.merging # {} \/ (r.unmerged /\ ~create) \/ (b \in DOMAIN r.branches) = create \/ b \in r.trees
  BY <1>1, StaysTheSame, OutcomeIs DEF GitSwitch
<1>2. CASE ~(r.merging # {} \/ (r.unmerged /\ ~create) \/ (b \in DOMAIN r.branches) = create \/ b \in r.trees)
  <2>1. b \notin r.trees /\ (~create => b \in DOMAIN r.branches) /\ b \in Branches
    BY <1>2, HereIs
  <2> DEFINE w == IF create THEN With(r, b, Here(r)) ELSE r
  <2>2. /\ Leaves(r, w) /\ b \in DOMAIN w.branches /\ w.trees = r.trees /\ w.merging = r.merging /\ w.unmerged = r.unmerged
        /\ w.edits = r.edits /\ w.staged = r.staged /\ w.stashes = r.stashes /\ w.remote = r.remote
    BY <2>1, HereIs, WithLeaves, StaysTheSame
  <2>3. w \in Repos
    BY <2>2 DEF Leaves, Possible
  <2> HIDE DEF w
  <2> DEFINE s == [w EXCEPT !.cur = b]
  <2>4. /\ s \in Repos /\ s.cur = b /\ s.branches = w.branches /\ s.trees = w.trees /\ s.remote = w.remote
        /\ s.merging = w.merging /\ s.unmerged = w.unmerged /\ s.edits = w.edits /\ s.staged = w.staged /\ s.stashes = w.stashes
    BY <2>1, <2>3 DEF Repos
  <2>5. o.r = s \/ o.r = r
    BY <1>2, OutcomeIs DEF GitSwitch, w
  <2> HIDE DEF s
  <2>6. Leaves(r, s)
    BY <2>1, <2>2, <2>4 DEF Leaves, Possible, Kept
  <2>7. QED  BY <2>5, <2>6, StaysTheSame
<1>3. QED  BY <1>1, <1>2

LEMMA BranchLeaves ==
  ASSUME NEW r, Possible(r), NEW b \in Branches, NEW o \in GitBranch(r, b)
  PROVE  Leaves(r, o.r)
  BY HereIs, WithLeaves, StaysTheSame, OutcomeIs DEF GitBranch

\* Only a branch that is not checked out is deleted, and nothing else.
LEMMA BranchDeleteLeaves ==
  ASSUME NEW r, Possible(r), NEW b, NEW o \in GitBranchDelete(r, b)
  PROVE  Possible(o.r) /\ o.r.remote = r.remote /\ DOMAIN r.branches \subseteq DOMAIN o.r.branches \union {b} /\ Kept(o.r) = Kept(r)
<1> DEFINE f == Restrict(r.branches, DOMAIN r.branches \ {b})
<1> DEFINE s == [r EXCEPT !.branches = f]
<1>1. r \in Repos /\ r.branches \in Histories
  BY DEF Possible, Repos
<1>2. f \in Histories /\ DOMAIN f = DOMAIN r.branches \ {b}
  <2>1. DOMAIN f = DOMAIN r.branches \ {b} /\ DOMAIN f \subseteq Branches
    BY <1>1, HistoriesAre DEF Restrict
  <2>2. f \in [DOMAIN r.branches \ {b} -> SUBSET (0..Commits)]
    BY <1>1, HistoriesAre DEF Restrict
  <2>3. QED  BY <2>1, <2>2, AreHistories
<1>3. CASE b \notin DOMAIN r.branches \/ b = r.cur \/ b \in r.trees
  BY <1>3, OutcomeIs DEF GitBranchDelete
<1>4. CASE ~(b \notin DOMAIN r.branches \/ b = r.cur \/ b \in r.trees)
  <2>1. o.r = s
    BY <1>4, OutcomeIs DEF GitBranchDelete
  <2> HIDE DEF f
  <2>2. /\ s \in Repos /\ s.cur = r.cur /\ s.branches = f /\ s.trees = r.trees /\ s.remote = r.remote
        /\ s.merging = r.merging /\ s.unmerged = r.unmerged /\ s.edits = r.edits /\ s.staged = r.staged /\ s.stashes = r.stashes
    BY <1>1, <1>2 DEF Repos
  <2> HIDE DEF s
  <2>3. QED  BY <1>2, <1>4, <2>1, <2>2 DEF Possible, Kept
<1>5. QED  BY <1>3, <1>4

LEMMA StashLeaves ==
  ASSUME NEW r, Possible(r), NEW o \in GitStash(r)
  PROVE  Leaves(r, o.r)
<1> DEFINE t == <<Changes(r)>> \o r.stashes
<1> DEFINE s == [r EXCEPT !.stashes = t, !.edits = {}, !.staged = {}, !.fixes = {}, !.merging = @ \intersect {"rebase"}]
<1>1. r \in Repos /\ r.stashes \in Seq(SUBSET AllEdits) /\ Changes(r) \in SUBSET AllEdits
  BY DEF Possible, Repos, Changes
<1>2. t \in Seq(SUBSET AllEdits) /\ Range(t) = {Changes(r)} \union Range(r.stashes)
  BY <1>1, StashOnTop
<1> HIDE DEF t
<1>3. /\ s \in Repos /\ s.cur = r.cur /\ s.branches = r.branches /\ s.trees = r.trees /\ s.remote = r.remote
      /\ s.edits = {} /\ s.staged = {} /\ s.stashes = t
  BY <1>1, <1>2 DEF Repos
<1>4. o.r = r \/ o.r = s
  BY OutcomeIs DEF GitStash, t
<1> HIDE DEF s
<1>5. Leaves(r, s)
  <2>1. Kept(r) \subseteq Kept(s)
    BY <1>2, <1>3 DEF Kept, Changes
  <2>2. QED  BY <1>3, <2>1 DEF Leaves, Possible
<1>6. QED  BY <1>4, <1>5, StaysTheSame

LEMMA UnstashLeaves ==
  ASSUME NEW r, Possible(r), NEW keep \in BOOLEAN, NEW o \in GitUnstash(r, keep)
  PROVE  Leaves(r, o.r)
<1> DEFINE e == r.edits \union Head(r.stashes)
<1> DEFINE back == [r EXCEPT !.edits = e]
<1> DEFINE popped == [back EXCEPT !.stashes = Tail(r.stashes)]
<1> DEFINE stopped(F) == [back EXCEPT !.unmerged = TRUE, !.fixes = @ \union Head(r.stashes) \union F]
<1>1. r \in Repos /\ r.stashes \in Seq(SUBSET AllEdits)
  BY DEF Possible, Repos
<1>2. CASE r.stashes = <<>> \/ r.unmerged
  BY <1>2, StaysTheSame, OutcomeIs DEF GitUnstash
<1>3. CASE ~(r.stashes = <<>> \/ r.unmerged)
  <2>1. /\ Head(r.stashes) \in SUBSET AllEdits /\ Tail(r.stashes) \in Seq(SUBSET AllEdits)
        /\ Range(r.stashes) \subseteq {Head(r.stashes)} \union Range(Tail(r.stashes))
    BY <1>1, <1>3, StashOffTop
  <2>2. e \in SUBSET AllEdits /\ r.edits \subseteq e /\ Head(r.stashes) \subseteq e
    BY <1>1, <2>1 DEF Repos
  <2> HIDE DEF e
  <2>3. /\ back \in Repos /\ back.cur = r.cur /\ back.branches = r.branches /\ back.trees = r.trees /\ back.remote = r.remote
        /\ back.merging = r.merging /\ back.unmerged = r.unmerged /\ back.edits = e /\ back.staged = r.staged /\ back.stashes = r.stashes
        /\ back.fixes = r.fixes
    BY <1>1, <2>2 DEF Repos
  <2>4. o.r \in {r, back, popped} \/ \E F \in SUBSET Changes(r) : o.r = stopped(F)
    <3>1. back.stashes = r.stashes
      BY <2>3
    <3>2. o \in Did(IF keep THEN back ELSE popped) \union (IF Changes(r) = {} THEN {} ELSE Not(r)) 
                \union UNION {Stops(stopped(F), "stash") : F \in SUBSET Changes(r)}
      BY <1>3, <3>1 DEF GitUnstash, e
    <3>3. CASE \E F \in SUBSET Changes(r) : o \in Stops(stopped(F), "stash")
      BY <3>3, OutcomeIs
    <3>4. CASE o \in Did(IF keep THEN back ELSE popped) \/ o \in Not(r)
      BY <3>4, OutcomeIs
    <3>5. QED  BY <3>2, <3>3, <3>4
  <2> HIDE DEF back
  <2>5. /\ popped \in Repos /\ popped.cur = r.cur /\ popped.branches = r.branches /\ popped.trees = r.trees /\ popped.remote = r.remote
        /\ popped.merging = r.merging /\ popped.unmerged = r.unmerged /\ popped.edits = e /\ popped.staged = r.staged
        /\ popped.stashes = Tail(r.stashes)
    BY <2>1, <2>3 DEF Repos
  <2>6. ASSUME NEW F \in SUBSET Changes(r)
        PROVE  /\ stopped(F) \in Repos /\ stopped(F).cur = r.cur /\ stopped(F).branches = r.branches /\ stopped(F).trees = r.trees
               /\ stopped(F).remote = r.remote /\ stopped(F).edits = e /\ stopped(F).staged = r.staged
               /\ stopped(F).stashes = r.stashes
    <3>1. F \in SUBSET AllEdits
      BY <1>1 DEF Repos, Changes
    <3>2. QED  BY <2>1, <2>3, <3>1 DEF Repos
  <2> HIDE DEF popped, stopped
  <2>7. Leaves(r, back)
    BY <2>2, <2>3 DEF Leaves, Possible, Kept
  <2>8. Leaves(r, popped)
    <3>1. Kept(r) \subseteq Kept(popped)
      BY <2>1, <2>2, <2>5 DEF Kept
    <3>2. QED  BY <2>5, <3>1 DEF Leaves, Possible
  <2>9. \A F \in SUBSET Changes(r) : Leaves(r, stopped(F))
    BY <2>2, <2>6 DEF Leaves, Possible, Kept
  <2>10. QED  BY <2>4, <2>7, <2>8, <2>9, StaysTheSame
<1>4. QED  BY <1>2, <1>3

LEMMA MergeLeaves ==
  ASSUME NEW r, Possible(r), NEW theirs \in SUBSET (0..Commits), NEW how, NEW o \in GitMerge(r, theirs, how)
  PROVE  Leaves(r, o.r)
<1> DEFINE m == IF how = "rebase" THEN "rebase" ELSE "merge"
<1> DEFINE s == [r EXCEPT !.merging = @ \union {m}, !.unmerged = TRUE]
<1>1. r \in Repos /\ r.cur \in Branches /\ Here(r) \union theirs \in SUBSET (0..Commits)
  BY HereIs
<1>2. Leaves(r, With(r, r.cur, theirs)) /\ Leaves(r, With(r, r.cur, Here(r) \union theirs))
  BY <1>1, WithLeaves
<1>3. /\ s \in Repos /\ s.cur = r.cur /\ s.branches = r.branches /\ s.trees = r.trees /\ s.remote = r.remote
      /\ s.unmerged /\ s.edits = r.edits /\ s.staged = r.staged /\ s.stashes = r.stashes
  BY <1>1 DEF Repos
<1>4. o.r \in {r, With(r, r.cur, theirs), With(r, r.cur, Here(r) \union theirs), s}
  <2>1. \/ o \in Not(r) \/ o \in Stops(r, "conflict") \/ o \in Did(r) \/ o \in Did(With(r, r.cur, theirs))
        \/ o \in Did(With(r, r.cur, Here(r) \union theirs)) \/ o \in Stops(s, "conflict")
    BY DEF GitMerge, Refuse
  <2>2. QED  BY <2>1, OutcomeIs
<1> HIDE DEF s
<1>5. Leaves(r, s)
  BY <1>3 DEF Leaves, Possible, Kept
<1>6. QED  BY <1>2, <1>4, <1>5, StaysTheSame

\* What an abort takes with it was staged, or was changed where it conflicted; a rebase takes all.
\* It refuses only over a file that was staged and changed again.
LEMMA AbortLeaves ==
  ASSUME NEW r, Possible(r), NEW how, NEW o \in GitAbort(r, how)
  PROVE  /\ Possible(o.r) /\ o.r.remote = r.remote /\ o.r.branches = r.branches
         /\ how \notin r.merging => o.r = r
         /\ how # "rebase" => Kept(r) \subseteq Kept(o.r) \union r.staged \union r.fixes
         /\ how \notin o.r.merging \/ (how # "rebase" /\ o.r = r /\ r.staged # {} /\ r.edits \ r.fixes # {})
<1> DEFINE left == IF how = "rebase" THEN {} ELSE r.edits \ r.fixes
<1> DEFINE now == r.merging \intersect ({"rebase"} \ {how})
<1> DEFINE s == [r EXCEPT !.merging = now, !.unmerged = FALSE, !.edits = left, !.staged = {}, !.fixes = {}]
<1>1. r \in Repos /\ left \subseteq r.edits /\ now \subseteq r.merging /\ how \notin now
      /\ (how # "rebase" => left = r.edits \ r.fixes) /\ (how = "rebase" => left = {})
  BY DEF Possible
<1>2. CASE how \notin r.merging
  BY <1>2, OutcomeIs DEF GitAbort
<1>3. CASE how \in r.merging
  <2>1. o.r = s \/ (o.r = r /\ r.staged # {} /\ left # {})
    <3>1. o \in Did(s) \/ (o \in Not(r) /\ r.staged # {} /\ left # {})
      BY <1>3 DEF GitAbort
    <3>2. QED  BY <3>1, OutcomeIs
  <2> HIDE DEF left, now
  <2>2. /\ s \in Repos /\ s.cur = r.cur /\ s.branches = r.branches /\ s.trees = r.trees /\ s.remote = r.remote
        /\ s.merging = now /\ s.edits = left /\ s.staged = {} /\ s.stashes = r.stashes
    BY <1>1 DEF Repos
  <2> HIDE DEF s
  <2>3. Possible(s) /\ (how # "rebase" => Kept(r) \subseteq Kept(s) \union r.staged \union r.fixes)
    BY <1>1, <2>2 DEF Possible, Kept
  <2>4. QED  BY <1>1, <1>3, <2>1, <2>2, <2>3
<1>4. QED  BY <1>2, <1>3

LEMMA RevertLeaves ==
  ASSUME NEW r, Possible(r), NEW no_commit \in BOOLEAN, no_commit \/ r.made < Commits, NEW o \in GitRevert(r, no_commit)
  PROVE  Leaves(r, o.r)
<1> DEFINE staged == [r EXCEPT !.staged = @ \union {Reverted}, !.merging = @ \union {"revert"}]
<1> DEFINE w == Committed(r)
<1> DEFINE done == [w EXCEPT !.merging = @ \ {"revert"}]
<1> DEFINE s == [r EXCEPT !.merging = @ \union {"revert"}, !.unmerged = TRUE]
<1>1. r \in Repos
  BY DEF Possible
<1>2. /\ s \in Repos /\ s.cur = r.cur /\ s.branches = r.branches /\ s.trees = r.trees /\ s.remote = r.remote
      /\ s.edits = r.edits /\ s.staged = r.staged /\ s.stashes = r.stashes
  BY <1>1 DEF Repos
<1>3. /\ staged \in Repos /\ staged.cur = r.cur /\ staged.branches = r.branches /\ staged.trees = r.trees
      /\ staged.remote = r.remote /\ staged.edits = r.edits /\ staged.staged = r.staged \union {Reverted}
      /\ staged.stashes = r.stashes
  BY <1>1 DEF Repos, AllEdits
<1>4. o.r \in {r, staged, s} \/ (~no_commit /\ o.r = done)
  <2>1. o \in Not(r) \/ o \in Did(IF no_commit THEN staged ELSE done) \/ o \in Stops(s, "conflict")
    BY DEF GitRevert
  <2>2. QED  BY <2>1, OutcomeIs
<1>5. ~no_commit => Leaves(r, done)
  <2>1. SUFFICES ASSUME ~no_commit  PROVE  Leaves(r, done)
    OBVIOUS
  <2>2. Leaves(r, w)
    BY <2>1, CommittedLeaves
  <2>3. w \in Repos
    BY <2>2 DEF Leaves, Possible
  <2> HIDE DEF w
  <2>4. /\ done \in Repos /\ done.cur = w.cur /\ done.branches = w.branches /\ done.trees = w.trees /\ done.remote = w.remote
        /\ done.edits = w.edits /\ done.staged = w.staged /\ done.stashes = w.stashes
    BY <2>3 DEF Repos
  <2> HIDE DEF done
  <2>5. QED  BY <2>2, <2>4 DEF Leaves, Possible, Kept
<1> HIDE DEF s, staged, done
<1>6. Leaves(r, s)
  BY <1>2 DEF Leaves, Possible, Kept
<1>7. Leaves(r, staged)
  BY <1>3 DEF Leaves, Possible, Kept
<1>8. QED  BY <1>4, <1>5, <1>6, <1>7, StaysTheSame

LEMMA ResetLeaves ==
  ASSUME NEW r, Possible(r), NEW mode, NEW o \in GitReset(r, mode)
  PROVE  /\ Possible(o.r) /\ o.r.remote = r.remote /\ DOMAIN r.branches \subseteq DOMAIN o.r.branches
         /\ mode # "hard" => Kept(r) \subseteq Kept(o.r)
<1> DEFINE h == Here(r)
<1> DEFINE up == IF Cardinality(h) > 1 THEN h \ {CHOOSE x \in h : \A y \in h : y <= x} ELSE h
<1> DEFINE w == With(r, r.cur, up)
<1> DEFINE e == CASE mode = "hard" -> {} [] mode = "soft" -> w.edits [] OTHER -> Changes(r)
<1> DEFINE i == IF mode = "soft" THEN w.staged ELSE {}
<1> DEFINE s == [w EXCEPT !.merging = @ \intersect {"rebase"}, !.unmerged = FALSE, !.fixes = {}, !.edits = e, !.staged = i]
<1>1. h \in SUBSET (0..Commits) /\ r.cur \in Branches /\ r.cur \in DOMAIN r.branches
  BY HereIs
<1>2. up \in SUBSET (0..Commits)
  BY <1>1
<1>3. o.r = r \/ o.r = s
  <2>1. w.edits = r.edits /\ w.staged = r.staged
    BY <1>1, <1>2, WithLeaves
  <2>2. o \in Not(r) \/ o \in Did([w EXCEPT !.merging = @ \intersect {"rebase"}, !.unmerged = FALSE, !.fixes = {},
                !.edits = CASE mode = "hard" -> {} [] mode = "soft" -> @ [] OTHER -> Changes(r),
                !.staged = IF mode = "soft" THEN @ ELSE {}])
    BY DEF GitReset
  <2> HIDE DEF w
  <2>3. QED  BY <2>2, OutcomeIs
<1> HIDE DEF h, up
<1>4. /\ Leaves(r, w) /\ w.trees = r.trees /\ w.cur = r.cur /\ DOMAIN w.branches = DOMAIN r.branches
      /\ w.edits = r.edits /\ w.staged = r.staged /\ w.stashes = r.stashes /\ w.remote = r.remote
  <2>1. Leaves(r, w) /\ DOMAIN w.branches = DOMAIN r.branches \union {r.cur}
    BY <1>1, <1>2, WithLeaves
  <2>2. /\ w.trees = r.trees /\ w.cur = r.cur /\ w.edits = r.edits /\ w.staged = r.staged /\ w.stashes = r.stashes
        /\ w.remote = r.remote
    BY <1>1, <1>2, WithLeaves
  <2>3. QED  BY <1>1, <2>1, <2>2
<1>5. w \in Repos
  BY <1>4 DEF Leaves, Possible
<1>6. e \in SUBSET AllEdits /\ i \in SUBSET AllEdits /\ (mode # "hard" => Changes(r) \subseteq e \union i)
  BY <1>4, <1>5 DEF Repos, Changes
<1> HIDE DEF w, e, i
<1>7. /\ s \in Repos /\ s.cur = w.cur /\ s.branches = w.branches /\ s.trees = w.trees /\ s.remote = w.remote
      /\ s.stashes = w.stashes /\ s.edits = e /\ s.staged = i
  BY <1>5, <1>6 DEF Repos
<1> HIDE DEF s
<1>8. mode # "hard" => Kept(r) \subseteq Kept(s)
  BY <1>4, <1>6, <1>7 DEF Kept, Changes
<1>9. QED  BY <1>1, <1>3, <1>4, <1>7, <1>8 DEF Leaves, Possible

\* A push moves one branch of the remote, and takes commits from it only by force, when this clone
\* had seen them.
LEMMA PushLeaves ==
  ASSUME NEW r, Possible(r), NEW j, NEW o \in Push(r, j)
  PROVE  /\ Possible(o.r) /\ o.r.branches = r.branches /\ Kept(o.r) = Kept(r)
         /\ j.dry => o.r.remote = r.remote
         /\ \A x \in DOMAIN r.remote : \/ r.remote[x] \subseteq o.r.remote[x]
                                       \/ Opt(j, "force") /\ r.remote[x] \subseteq r.tracked[x]
<1> DEFINE b == j.br
<1> DEFINE force == Opt(j, "force")
<1> DEFINE new == r.branches[b]
<1> DEFINE was == IF b \in DOMAIN r.remote THEN r.remote[b] ELSE {}
<1> DEFINE seen == IF b \in DOMAIN r.tracked THEN r.tracked[b] ELSE {}
<1> DEFINE s == [r EXCEPT !.remote = Setting(r.remote, b, new), !.tracked = Setting(r.tracked, b, new)]
<1>1. r \in Repos /\ r.remote \in Histories /\ r.tracked \in Histories
  BY DEF Possible, Repos
<1>2. CASE b \notin DOMAIN r.branches \/ ~(was \subseteq new \/ (force /\ seen = was))
  BY <1>2, OutcomeIs DEF Push, GitPush
<1>3. CASE b \in DOMAIN r.branches /\ (was \subseteq new \/ (force /\ seen = was))
  <2>1. o.r = IF j.dry THEN r ELSE s
    BY <1>3, OutcomeIs DEF Push, GitPush
  <2>2. b \in Branches /\ new \in SUBSET (0..Commits)
    BY <1>3, HereIs
  <2>3. /\ Setting(r.remote, b, new) \in Histories /\ DOMAIN Setting(r.remote, b, new) = DOMAIN r.remote \union {b}
        /\ Setting(r.remote, b, new)[b] = new /\ \A x \in DOMAIN r.remote \ {b} : Setting(r.remote, b, new)[x] = r.remote[x]
        /\ Setting(r.tracked, b, new) \in Histories
    <3> HIDE DEF new, b
    <3>1. Setting(r.tracked, b, new) \in Histories
      BY <1>1, <2>2, SettingKeeps
    <3>2. Setting(r.remote, b, new) \in Histories /\ DOMAIN Setting(r.remote, b, new) = DOMAIN r.remote \union {b}
      BY <1>1, <2>2, SettingKeeps
    <3>3. Setting(r.remote, b, new)[b] = new /\ \A x \in DOMAIN r.remote \ {b} : Setting(r.remote, b, new)[x] = r.remote[x]
      BY <1>1, <2>2, SettingKeeps
    <3>4. QED  BY <3>1, <3>2, <3>3
  <2>4. /\ s \in Repos /\ s.cur = r.cur /\ s.branches = r.branches /\ s.trees = r.trees
        /\ s.remote = Setting(r.remote, b, new)
        /\ s.merging = r.merging /\ s.unmerged = r.unmerged /\ s.edits = r.edits /\ s.staged = r.staged /\ s.stashes = r.stashes
    BY <1>1, <2>3 DEF Repos
  <2>5. ASSUME NEW x \in DOMAIN r.remote
        PROVE  r.remote[x] \subseteq s.remote[x] \/ (force /\ r.remote[x] \subseteq r.tracked[x])
    <3>1. CASE x = b
      BY <1>3, <2>3, <2>4, <3>1
    <3>2. CASE x # b
      BY <2>3, <2>4, <3>2
    <3>3. QED  BY <3>1, <3>2
  <2> HIDE DEF s, new, was, seen, b, force
  <2>6. Possible(s) /\ Kept(s) = Kept(r)
    BY <2>3, <2>4 DEF Possible, Kept
  <2>7. QED  BY <2>1, <2>4, <2>5, <2>6 DEF force
<1>4. QED  BY <1>2, <1>3

LEMMA WorktreeLeaves ==
  ASSUME NEW r, Possible(r), NEW b, NEW create \in BOOLEAN, create => b \in Branches, NEW o \in GitWorktree(r, b, create)
  PROVE  Leaves(r, o.r)
<1>1. CASE (b \in DOMAIN r.branches) = create \/ b \in r.trees \union {r.cur}
  BY <1>1, StaysTheSame, OutcomeIs DEF GitWorktree
<1>2. CASE ~((b \in DOMAIN r.branches) = create \/ b \in r.trees \union {r.cur})
  <2>1. b \notin r.trees /\ b # r.cur /\ (~create => b \in DOMAIN r.branches) /\ b \in Branches
    BY <1>2, HereIs
  <2> DEFINE w == IF create THEN With(r, b, Here(r)) ELSE r
  <2>2. /\ Leaves(r, w) /\ b \in DOMAIN w.branches /\ w.trees = r.trees /\ w.merging = r.merging /\ w.unmerged = r.unmerged
        /\ w.edits = r.edits /\ w.staged = r.staged /\ w.stashes = r.stashes /\ w.remote = r.remote /\ w.cur = r.cur
    BY <2>1, HereIs, WithLeaves, StaysTheSame
  <2>3. w \in Repos
    BY <2>2 DEF Leaves, Possible
  <2> HIDE DEF w
  <2> DEFINE s == [w EXCEPT !.trees = w.trees \union {b}]
  <2>4. /\ s \in Repos /\ s.cur = w.cur /\ s.branches = w.branches /\ s.trees = w.trees \union {b} /\ s.remote = w.remote
        /\ s.merging = w.merging /\ s.unmerged = w.unmerged /\ s.edits = w.edits /\ s.staged = w.staged /\ s.stashes = w.stashes
    BY <2>1, <2>3 DEF Repos
  <2>5. o.r = s
    BY <1>2, OutcomeIs DEF GitWorktree, w
  <2> HIDE DEF s
  <2>6. Leaves(r, s)
    BY <2>1, <2>2, <2>4 DEF Leaves, Possible, Kept
  <2>7. QED  BY <2>5, <2>6
<1>3. QED  BY <1>1, <1>2

-----------------------------------------------------------------------------
(* What the command of a tool does to the repository.                       *)

\* What a granted request for `j` may do that a command leaves alone.
MayDiscard(j) == (j.confirmed \/ FullAccess) /\ (j.tool \in {"restore", "stash"} \/ Opt(j, "hard"))
MayEnd(j) == j.tool \in {"merge", "pull", "revert"}
MayMoveRemote(j) == j.tool = "push" /\ ~j.dry /\ (j.confirmed \/ FullAccess)

Allowed(r, s, j) ==
    /\ Possible(s) /\ DOMAIN r.branches \subseteq DOMAIN s.branches
    /\ \/ Kept(r) \subseteq Kept(s) \/ MayDiscard(j)
       \/ MayEnd(j) /\ r.merging # {} /\ Kept(r) \subseteq Kept(s) \union r.staged \union r.fixes
    /\ \/ s.remote = r.remote
       \/ /\ MayMoveRemote(j)
          /\ \A x \in DOMAIN r.remote : \/ r.remote[x] \subseteq s.remote[x]
                                        \/ AllowForce /\ Opt(j, "force") /\ r.remote[x] \subseteq r.tracked[x]

LEMMA LeavesIsAllowed ==
  ASSUME NEW r, NEW s, NEW j, Leaves(r, s)  PROVE  Allowed(r, s, j)
  BY DEF Leaves, Allowed

LEMMA AddIsAllowed ==
  ASSUME NEW r, Possible(r), NEW j, NEW o \in AddPaths(r, j)  PROVE  Allowed(r, o.r, j)
<1> DEFINE S == (j.edits \ Secrets) \intersect r.edits
<1> DEFINE s == [r EXCEPT !.staged = r.staged \union S, !.edits = r.edits \ S]
<1>1. r \in Repos /\ S \subseteq r.edits
  BY DEF Possible
<1>2. o \in Did(r) \/ o \in Settling(s)
  BY DEF AddPaths
<1> HIDE DEF S
<1>3. /\ s \in Repos /\ s.cur = r.cur /\ s.branches = r.branches /\ s.trees = r.trees /\ s.remote = r.remote
      /\ s.edits = r.edits \ S /\ s.staged = r.staged \union S /\ s.stashes = r.stashes
  BY <1>1 DEF Repos
<1> HIDE DEF s
<1>4. Leaves(r, s)
  BY <1>3 DEF Leaves, Possible, Kept
<1>5. Leaves(r, o.r)
  BY <1>2, <1>4, OutcomeIs, SettlingLeaves, StaysTheSame
<1>6. QED  BY <1>5, LeavesIsAllowed

LEMMA RestoreIsAllowed ==
  ASSUME NEW r, Possible(r), NEW j, j.tool = "restore", Granted(j), NEW o \in RestorePaths(r, j)  PROVE  Allowed(r, o.r, j)
<1> DEFINE s == [r EXCEPT !.edits = r.edits \union (j.edits \intersect r.staged), !.staged = r.staged \ j.edits, !.fixes = r.fixes \ j.edits]
<1> DEFINE t == [r EXCEPT !.edits = r.edits \ j.edits]
<1>1. r \in Repos
  BY DEF Possible
<1>2. /\ s \in Repos /\ s.cur = r.cur /\ s.branches = r.branches /\ s.trees = r.trees /\ s.remote = r.remote
      /\ s.edits = r.edits \union (j.edits \intersect r.staged) /\ s.staged = r.staged \ j.edits /\ s.stashes = r.stashes
  BY <1>1 DEF Repos
<1>3. /\ t \in Repos /\ t.cur = r.cur /\ t.branches = r.branches /\ t.trees = r.trees /\ t.remote = r.remote
  BY <1>1 DEF Repos
<1>4. IF Opt(j, "staged") THEN o \in Settling(s) ELSE o \in Not(r) \/ o \in Did(t)
  BY DEF RestorePaths
<1> HIDE DEF s, t
<1>5. Leaves(r, s)
  BY <1>2 DEF Leaves, Possible, Kept
<1>6. ~Opt(j, "staged") => MayDiscard(j)
  BY DEF Granted, Reasons, MayDiscard
<1>7. ~Opt(j, "staged") => Allowed(r, t, j) /\ Allowed(r, r, j)
  BY <1>3, <1>6 DEF Allowed, Possible
<1>8. CASE Opt(j, "staged")
  BY <1>4, <1>5, <1>8, SettlingLeaves, LeavesIsAllowed
<1>9. CASE ~Opt(j, "staged")
  BY <1>4, <1>7, <1>9, OutcomeIs
<1>10. QED  BY <1>8, <1>9

LEMMA StashIsAllowed ==
  ASSUME NEW r, Possible(r), NEW j, j.tool = "stash", Granted(j), NEW o \in StashAction(r, j)  PROVE  Allowed(r, o.r, j)
<1>1. CASE Opt(j, "pop") \/ Opt(j, "apply")
  <2>1. Opt(j, "apply") \in BOOLEAN /\ o \in GitUnstash(r, Opt(j, "apply"))
    BY <1>1 DEF StashAction, Opt
  <2>2. QED  BY <2>1, UnstashLeaves, LeavesIsAllowed
<1>2. CASE ~(Opt(j, "pop") \/ Opt(j, "apply")) /\ ~Opt(j, "drop")
  BY <1>2, StashLeaves, LeavesIsAllowed DEF StashAction
<1>3. CASE ~(Opt(j, "pop") \/ Opt(j, "apply")) /\ Opt(j, "drop")
  <2>1. r \in Repos /\ r.stashes \in Seq(SUBSET AllEdits)
    BY DEF Possible, Repos
  <2>2. CASE r.stashes = <<>>
    BY <1>3, <2>2, OutcomeIs, StaysTheSame, LeavesIsAllowed DEF StashAction
  <2>3. CASE r.stashes # <<>>
    <3> DEFINE s == [r EXCEPT !.stashes = Tail(r.stashes)]
    <3>1. o.r = s
      BY <1>3, <2>3, OutcomeIs DEF StashAction
    <3>2. Tail(r.stashes) \in Seq(SUBSET AllEdits)
      BY <2>1, <2>3, StashOffTop
    <3>3. /\ s \in Repos /\ s.cur = r.cur /\ s.branches = r.branches /\ s.trees = r.trees /\ s.remote = r.remote
          /\ s.merging = r.merging /\ s.unmerged = r.unmerged
      BY <2>1, <3>2 DEF Repos
    <3>4. MayDiscard(j)
      <4>1. "drop" \in Reasons(j)
        BY <1>3 DEF Reasons, Opt
      <4>2. QED  BY <4>1 DEF Granted, MayDiscard
    <3> HIDE DEF s
    <3>5. QED  BY <3>1, <3>3, <3>4 DEF Allowed, Possible
  <2>4. QED  BY <2>2, <2>3
<1>4. QED  BY <1>1, <1>2, <1>3

\* The remote as this clone saw it last is no part of what a repository promises.
LEMMA FetchedIs ==
  ASSUME NEW r, Possible(r)
  PROVE  LET s == [r EXCEPT !.tracked = r.remote] IN
         /\ Possible(s) /\ s.cur = r.cur /\ s.branches = r.branches /\ s.remote = r.remote /\ Kept(s) = Kept(r)
<1> DEFINE s == [r EXCEPT !.tracked = r.remote]
<1>1. r \in Repos
  BY DEF Possible
<1>2. /\ s \in Repos /\ s.cur = r.cur /\ s.branches = r.branches /\ s.trees = r.trees /\ s.remote = r.remote
      /\ s.merging = r.merging /\ s.unmerged = r.unmerged /\ s.edits = r.edits /\ s.staged = r.staged /\ s.stashes = r.stashes
  BY <1>1 DEF Repos
<1> HIDE DEF s
<1>3. Possible(s) /\ Kept(s) = Kept(r)
  BY <1>2 DEF Possible, Kept
<1>4. QED  BY <1>2, <1>3 DEF s

LEMMA FetchIsAllowed ==
  ASSUME NEW r, Possible(r), NEW j, NEW o \in Fetch(r)  PROVE  Allowed(r, o.r, j)
<1>1. o.r = [r EXCEPT !.tracked = r.remote]
  BY OutcomeIs DEF Fetch
<1>2. Leaves(r, o.r)
  BY <1>1, FetchedIs DEF Leaves
<1>3. QED  BY <1>2, LeavesIsAllowed

LEMMA PullIsAllowed ==
  ASSUME NEW r, Possible(r), NEW j, NEW o \in Pull(r, j)  PROVE  Allowed(r, o.r, j)
<1> DEFINE s == [r EXCEPT !.tracked = r.remote]
<1>1. Possible(s) /\ s.cur = r.cur /\ s.branches = r.branches /\ s.remote = r.remote /\ Kept(s) = Kept(r)
  BY FetchedIs
<1>2. \/ o \in Not(r) \/ o \in Stops(r, "conflict") \/ o \in Not(s)
      \/ r.cur \in DOMAIN r.remote /\ \E how : o \in GitMerge(s, r.remote[r.cur], how)
  BY DEF Pull, Refuse
<1> HIDE DEF s
<1>3. ASSUME r.cur \in DOMAIN r.remote, NEW how, o \in GitMerge(s, r.remote[r.cur], how)  PROVE  Leaves(s, o.r)
  <2>1. r.remote[r.cur] \in SUBSET (0..Commits)
    BY <1>3, HereIs
  <2>2. QED  BY <1>1, <1>3, <2>1, MergeLeaves
<1>4. Leaves(s, o.r) => Leaves(r, o.r)
  BY <1>1 DEF Leaves
<1>5. Leaves(r, o.r)
  BY <1>1, <1>2, <1>3, <1>4, OutcomeIs, StaysTheSame
<1>6. QED  BY <1>5, LeavesIsAllowed

LEMMA PushIsAllowed ==
  ASSUME NEW r, Possible(r), NEW j, j.tool = "push", Granted(j), ~Refused(j), NEW o \in Push(r, j)  PROVE  Allowed(r, o.r, j)
<1>2. /\ Possible(o.r) /\ o.r.branches = r.branches /\ Kept(o.r) = Kept(r)
      /\ j.dry => o.r.remote = r.remote
      /\ \A x \in DOMAIN r.remote : \/ r.remote[x] \subseteq o.r.remote[x]
                                    \/ Opt(j, "force") /\ r.remote[x] \subseteq r.tracked[x]
  BY PushLeaves
<1>3. Opt(j, "force") => AllowForce
  BY DEF Refused
<1>4. ~j.dry => MayMoveRemote(j)
  <2>1. ~j.dry => "real" \in Reasons(j)
    BY DEF Reasons
  <2>2. QED  BY <2>1 DEF Granted, MayMoveRemote
<1>5. QED  BY <1>2, <1>3, <1>4 DEF Allowed

LEMMA MergeIsAllowed ==
  ASSUME NEW r, Possible(r), NEW j, j.tool = "merge", NEW o \in Merge(r, j)  PROVE  Allowed(r, o.r, j)
<1>1. CASE Opt(j, "abort")
  <2>1. o \in GitAbort(r, "merge")
    BY <1>1 DEF Merge
  <2>2. /\ Possible(o.r) /\ o.r.remote = r.remote /\ o.r.branches = r.branches
        /\ "merge" \notin r.merging => o.r = r
        /\ Kept(r) \subseteq Kept(o.r) \union r.staged \union r.fixes
    BY <2>1, AbortLeaves
  <2>3. CASE "merge" \in r.merging
    BY <2>2, <2>3 DEF Allowed, MayEnd
  <2>4. CASE "merge" \notin r.merging
    BY <2>2, <2>4, StaysTheSame, LeavesIsAllowed
  <2>5. QED  BY <2>3, <2>4
<1>2. CASE ~Opt(j, "abort") /\ j.br \notin DOMAIN r.branches
  BY <1>2, OutcomeIs, StaysTheSame, LeavesIsAllowed DEF Merge
<1>3. CASE ~Opt(j, "abort") /\ j.br \in DOMAIN r.branches
  <2>1. PICK how : o \in GitMerge(r, r.branches[j.br], how)
    BY <1>3 DEF Merge
  <2>2. r.branches[j.br] \in SUBSET (0..Commits)
    BY <1>3, HereIs
  <2>3. QED  BY <2>1, <2>2, MergeLeaves, LeavesIsAllowed
<1>4. QED  BY <1>1, <1>2, <1>3

LEMMA ResetIsAllowed ==
  ASSUME NEW r, Possible(r), NEW j, j.tool = "reset", Granted(j), NEW o \in Reset(r, j)  PROVE  Allowed(r, o.r, j)
<1>1. PICK mode : o \in GitReset(r, mode) /\ (mode = "hard" => Opt(j, "hard"))
  BY DEF Reset
<1>2. /\ Possible(o.r) /\ o.r.remote = r.remote /\ DOMAIN r.branches \subseteq DOMAIN o.r.branches
      /\ mode # "hard" => Kept(r) \subseteq Kept(o.r)
  BY <1>1, ResetLeaves
<1>3. mode = "hard" => MayDiscard(j)
  BY <1>1 DEF Granted, Reasons, MayDiscard
<1>4. QED  BY <1>2, <1>3 DEF Allowed

LEMMA RemoveIsAllowed ==
  ASSUME NEW r, Possible(r), NEW j, NEW o \in RemoveWorktree(r, j)  PROVE  Allowed(r, o.r, j)
<1> DEFINE s == [r EXCEPT !.trees = r.trees \ {j.br}]
<1>1. r \in Repos
  BY DEF Possible
<1>2. /\ s \in Repos /\ s.cur = r.cur /\ s.branches = r.branches /\ s.trees = r.trees \ {j.br} /\ s.remote = r.remote
      /\ s.merging = r.merging /\ s.unmerged = r.unmerged /\ s.edits = r.edits /\ s.staged = r.staged /\ s.stashes = r.stashes
  BY <1>1 DEF Repos
<1>3. o.r = r \/ o.r = s
  BY OutcomeIs DEF RemoveWorktree
<1> HIDE DEF s
<1>4. Leaves(r, s)
  BY <1>2 DEF Leaves, Possible, Kept
<1>5. QED  BY <1>3, <1>4, StaysTheSame, LeavesIsAllowed

\* A command leaves a repository git could have, every branch, and what a granted request may not
\* touch.
LEMMA CommandIsAllowed ==
  ASSUME NEW r, Possible(r), NEW j \in GitWanted, Granted(j), ~Refused(j), j.tool = "revert" /\ ~Opt(j, "no_commit") => r.made < Commits,
         NEW o \in Command(r, j)
  PROVE  Allowed(r, o.r, j)
<1>0. j.tool \in GitTools /\ (j.tool \in {"switch", "create", "prepare", "worktree"} => j.br \in Branches)
  BY GitAssumption
<1>1. CASE j.tool = "switch"
  <2>1. o \in GitSwitch(r, j.br, Opt(j, "create")) /\ Opt(j, "create") \in BOOLEAN /\ j.br \in Branches
    BY <1>0, <1>1 DEF Command, Opt
  <2>2. QED  BY <2>1, SwitchLeaves, LeavesIsAllowed
<1>2. CASE j.tool = "create"
  <2>1. (o \in GitSwitch(r, j.br, TRUE) \/ o \in GitBranch(r, j.br) \/ o \in Not(r)) /\ j.br \in Branches
    BY <1>0, <1>2 DEF Command, CreateBranch
  <2>2. QED  BY <2>1, SwitchLeaves, BranchLeaves, OutcomeIs, StaysTheSame, LeavesIsAllowed
<1>3. CASE j.tool = "add"
  BY <1>3, AddIsAllowed DEF Command
<1>4. CASE j.tool = "restore"
  BY <1>4, RestoreIsAllowed DEF Command
<1>5. CASE j.tool = "stash"
  BY <1>5, StashIsAllowed DEF Command
<1>6. CASE j.tool = "fetch"
  BY <1>6, FetchIsAllowed DEF Command
<1>7. CASE j.tool = "pull"
  BY <1>7, PullIsAllowed DEF Command
<1>8. CASE j.tool = "push"
  BY <1>8, PushIsAllowed DEF Command
<1>9. CASE j.tool = "merge"
  BY <1>9, MergeIsAllowed DEF Command
<1>10. CASE j.tool = "revert"
  <2>1. o \in GitRevert(r, Opt(j, "no_commit")) /\ Opt(j, "no_commit") \in BOOLEAN
    BY <1>10 DEF Command, Opt
  <2>2. QED  BY <1>10, <2>1, RevertLeaves, LeavesIsAllowed
<1>11. CASE j.tool = "reset"
  BY <1>11, ResetIsAllowed DEF Command
<1>12. CASE j.tool = "remove"
  BY <1>12, RemoveIsAllowed DEF Command
<1>13. CASE j.tool \in {"prepare", "worktree"}
  <2>1. o \in GitWorktree(r, j.br, TRUE) /\ j.br \in Branches
    BY <1>0, <1>13 DEF Command, AddWorktree
  <2>2. QED  BY <2>1, WorktreeLeaves, LeavesIsAllowed
<1>14. QED
  BY <1>0, <1>1, <1>2, <1>3, <1>4, <1>5, <1>6, <1>7, <1>8, <1>9, <1>10, <1>11, <1>12, <1>13 DEF GitTools

-----------------------------------------------------------------------------
(* The calls that use git.                                                  *)

GitPlaces == {"idle", "status", "stash", "look", "go", "inspect", "abort", "unstash", "audit", "undo", "end"}
GitFields == {"pc", "job", "saw", "young", "how", "out"}

\* A call works for a request that was granted, at the steps its tool has; a worktree is prepared,
\* and undone, for a branch that was not there at the look; a push that was answered is written down.
GitCallOK(c) ==
    LET k == gitCalls[c] IN
    /\ DOMAIN k = GitFields /\ k.pc \in GitPlaces
    /\ k.pc \notin {"idle", "end"} => k.job \in GitWanted /\ Granted(k.job) /\ ~Refused(k.job)
    /\ k.pc = "look" => k.job.tool \in {"prepare", "worktree"}
    /\ k.pc \in {"status", "stash"} => k.job.tool = "switch"
    /\ k.pc = "go" /\ k.job.tool = "prepare" => k.young
    /\ k.pc = "inspect" => k.job.tool \in {"pull", "revert", "merge"}
    /\ k.pc = "abort" => k.job.tool \in {"pull", "revert"}
    /\ k.pc = "undo" => k.job.tool = "prepare" /\ k.young
    /\ k.pc = "end" /\ k.job.tool = "push" /\ ~k.job.dry /\ k.out \in {"ok", "rejected"} => c \in gitAudit

GitInv ==
    /\ Possible(repo) /\ gitAudit \subseteq GitUsers /\ timeouts \in 0..Timeouts /\ DOMAIN gitCalls = GitUsers
    /\ \A c \in GitUsers : GitCallOK(c)

\* What the action properties of the module ask of one step.
LostRightly ==
    \A e \in KeptEdits \ KeptEdits' :
          \/ e \in repo.staged \union repo.fixes /\ repo'.made # repo.made
          \/ \E c \in GitUsers : LET j == gitCalls[c].job IN
                /\ Steps(c)
                /\ \/ (j.confirmed \/ FullAccess) /\ (j.tool \in {"restore", "stash"} \/ Opt(j, "hard"))
                   \/ (j.confirmed \/ FullAccess) /\ j.tool = "pull" /\ Opt(j, "rebase") /\ "rebase" \in repo.merging
                   \/ j.tool \in {"merge", "pull", "revert"} /\ repo.merging # {} /\ e \in repo.staged \union repo.fixes
PullsRightly ==
    \A c \in GitUsers : gitCalls[c].pc = "abort" /\ gitCalls[c].how = "conflict" /\ Steps(c) /\ gitCalls[c].job.tool = "pull" =>
          IF Opt(gitCalls[c].job, "rebase") THEN "rebase" \notin repo'.merging
          ELSE "merge" \notin repo'.merging \/ (repo' = repo /\ repo.staged # {} /\ repo.edits \ repo.fixes # {})
RemoteRightly ==
    repo'.remote # repo.remote /\ repo'.made = repo.made =>
        \E c \in GitUsers : LET j == gitCalls[c].job IN
            /\ Steps(c) /\ j.tool = "push" /\ ~j.dry /\ (j.confirmed \/ FullAccess)
            /\ \A b \in DOMAIN repo.remote :
                  repo.remote[b] \subseteq repo'.remote[b] \/ (AllowForce /\ Opt(j, "force") /\ repo.remote[b] \subseteq repo.tracked[b])
BranchesRightly ==
    \A b \in DOMAIN repo.branches : b \notin DOMAIN repo'.branches =>
          \E c \in GitUsers : Steps(c) /\ gitCalls[c].job.tool = "prepare" /\ gitCalls[c].job.br = b /\ gitCalls[c].young

GitStepOK == GitInv' /\ LostRightly /\ PullsRightly /\ RemoteRightly /\ BranchesRightly

\* One call steps, and the others stand.
OnlyOne(c) ==
    /\ DOMAIN gitCalls' = GitUsers /\ \A d \in GitUsers \ {c} : gitCalls'[d] = gitCalls[d]
    /\ gitAudit \subseteq gitAudit' /\ gitAudit' \subseteq GitUsers /\ timeouts' \in 0..Timeouts

LEMMA KeptIs == KeptEdits = Kept(repo)
  BY DEF KeptEdits, Changes, Kept

\* A step of a call that leaves what is allowed for its request.
LEMMA AllowedStep ==
  ASSUME GitInv, NEW c \in GitUsers, OnlyOne(c), GitCallOK(c)', Steps(c), gitCalls[c].pc # "abort",
         Allowed(repo, repo', gitCalls[c].job)
  PROVE  GitStepOK
<1>1. GitInv'
  <2>1. ASSUME NEW d \in GitUsers \ {c}  PROVE  GitCallOK(d)'
    BY DEF GitInv, OnlyOne, GitCallOK
  <2>2. \A d \in GitUsers : GitCallOK(d)'
    BY <2>1
  <2>3. QED  BY <2>2 DEF GitInv, OnlyOne, Allowed
<1>2. LostRightly
  <2>1. KeptEdits = Kept(repo) /\ KeptEdits' = Kept(repo')
    BY DEF KeptEdits, Changes, Kept
  <2>2. QED  BY <2>1 DEF Allowed, LostRightly, MayDiscard, MayEnd
<1>3. PullsRightly
  BY DEF PullsRightly, OnlyOne, Steps
<1>4. RemoteRightly
  BY DEF RemoteRightly, Allowed, MayMoveRemote
<1>5. BranchesRightly
  BY DEF BranchesRightly, Allowed
<1>6. QED  BY <1>1, <1>2, <1>3, <1>4, <1>5 DEF GitStepOK

\* ... and one that leaves the repository as it is.
LEMMA QuietStep ==
  ASSUME GitInv, NEW c \in GitUsers, OnlyOne(c), GitCallOK(c)', Steps(c), gitCalls[c].pc # "abort", repo' = repo
  PROVE  GitStepOK
  BY StaysTheSame, LeavesIsAllowed, AllowedStep DEF GitInv

\* How a call moves: to a step, or to its end.
LEMMA ToIs ==
  ASSUME GitInv, NEW c \in GitUsers, NEW pc, To(c, pc), UNCHANGED gitAudit, timeouts' \in 0..Timeouts
  PROVE  /\ OnlyOne(c) /\ DOMAIN gitCalls'[c] = GitFields
         /\ gitCalls'[c].pc = pc /\ gitCalls'[c].job = gitCalls[c].job /\ gitCalls'[c].young = gitCalls[c].young
<1>1. DOMAIN gitCalls = GitUsers /\ DOMAIN gitCalls[c] = GitFields /\ gitAudit \subseteq GitUsers
  BY DEF GitInv, GitCallOK
<1>2. OnlyOne(c) /\ gitCalls'[c] = [gitCalls[c] EXCEPT !.pc = pc]
  BY <1>1 DEF To, OnlyOne
<1>3. QED  BY <1>1, <1>2 DEF GitFields

LEMMA EndIs ==
  ASSUME GitInv, NEW c \in GitUsers, NEW out, GitEnd(c, out), gitAudit \subseteq gitAudit', gitAudit' \subseteq GitUsers,
         timeouts' \in 0..Timeouts
  PROVE  /\ OnlyOne(c) /\ DOMAIN gitCalls'[c] = GitFields
         /\ gitCalls'[c].pc = "end" /\ gitCalls'[c].out = out /\ gitCalls'[c].job = gitCalls[c].job
<1>1. DOMAIN gitCalls = GitUsers /\ DOMAIN gitCalls[c] = GitFields
  BY DEF GitInv, GitCallOK
<1>2. OnlyOne(c) /\ gitCalls'[c] = [[gitCalls[c] EXCEPT !.pc = "end"] EXCEPT !.out = out]
  BY <1>1 DEF GitEnd, OnlyOne
<1>3. QED  BY <1>1, <1>2 DEF GitFields

\* A call that ends otherwise than by the answer to a push has nothing left to promise.
LEMMA EndIsOK ==
  ASSUME GitInv, NEW c \in GitUsers, NEW out, GitEnd(c, out), UNCHANGED gitAudit, timeouts' \in 0..Timeouts,
         out \notin {"ok", "rejected"} \/ gitCalls[c].job.tool # "push" \/ gitCalls[c].job.dry, gitCalls[c].pc # "end"
  PROVE  OnlyOne(c) /\ GitCallOK(c)' /\ Steps(c)
<1>1. /\ OnlyOne(c) /\ DOMAIN gitCalls'[c] = GitFields
      /\ gitCalls'[c].pc = "end" /\ gitCalls'[c].out = out /\ gitCalls'[c].job = gitCalls[c].job
  BY EndIs DEF GitInv
<1>2. QED  BY <1>1 DEF GitCallOK, GitPlaces, Steps

\* A call that goes on is granted what it was granted.
LEMMA ToIsOK ==
  ASSUME GitInv, NEW c \in GitUsers, NEW pc \in {"stash", "go", "inspect", "abort", "unstash", "undo"}, To(c, pc),
         UNCHANGED gitAudit, timeouts' \in 0..Timeouts, gitCalls[c].pc \notin {"idle", "end", pc},
         pc = "stash" => gitCalls[c].job.tool = "switch",
         pc = "go" => gitCalls[c].job.tool # "prepare",
         pc = "inspect" => gitCalls[c].job.tool = "pull",
         pc = "abort" => gitCalls[c].job.tool \in {"pull", "revert"},
         pc = "undo" => gitCalls[c].job.tool = "prepare" /\ gitCalls[c].young
  PROVE  OnlyOne(c) /\ GitCallOK(c)' /\ Steps(c)
<1>1. /\ OnlyOne(c) /\ DOMAIN gitCalls'[c] = GitFields
      /\ gitCalls'[c].pc = pc /\ gitCalls'[c].job = gitCalls[c].job /\ gitCalls'[c].young = gitCalls[c].young
  BY ToIs
<1>2. GitCallOK(c)
  BY DEF GitInv
<1>3. QED  BY <1>1, <1>2 DEF GitCallOK, GitPlaces, Steps

LEMMA BeginGitStep == ASSUME GitInv, NEW c \in GitUsers, BeginGit(c)  PROVE  GitStepOK
<1>1. PICK j \in GitWanted : gitCalls' = [gitCalls EXCEPT ![c].job = j,
            ![c].pc = IF Refused(j) \/ ~Granted(j) THEN "end" ELSE First(j),
            ![c].out = IF Refused(j) THEN "error" ELSE IF Granted(j) THEN "" ELSE "confirmation_required"]
  BY DEF BeginGit
<1>2. /\ DOMAIN gitCalls = GitUsers /\ DOMAIN gitCalls[c] = GitFields /\ gitCalls[c].pc = "idle" /\ gitAudit \subseteq GitUsers
      /\ timeouts \in 0..Timeouts /\ UNCHANGED <<repo, gitAudit, timeouts>>
  BY DEF GitInv, GitCallOK, BeginGit
<1> DEFINE pc == IF Refused(j) \/ ~Granted(j) THEN "end" ELSE First(j)
<1> DEFINE out == IF Refused(j) THEN "error" ELSE IF Granted(j) THEN "" ELSE "confirmation_required"
<1>3. OnlyOne(c) /\ gitCalls'[c] = [[[gitCalls[c] EXCEPT !.job = j] EXCEPT !.pc = pc] EXCEPT !.out = out]
  BY <1>1, <1>2 DEF OnlyOne
<1>4. pc \in {"end", "status", "look", "go"} /\ out \notin {"ok", "rejected"}
  BY DEF First
<1>5. /\ pc # "end" => Granted(j) /\ ~Refused(j)
      /\ pc = "look" => j.tool \in {"prepare", "worktree"}
      /\ pc = "status" => j.tool = "switch"
      /\ pc = "go" => j.tool # "prepare"
  BY DEF First
<1> HIDE DEF pc, out
<1>6. /\ DOMAIN gitCalls'[c] = GitFields /\ gitCalls'[c].pc = pc /\ gitCalls'[c].job = j /\ gitCalls'[c].out = out
  BY <1>2, <1>3 DEF GitFields
<1>7. GitCallOK(c)'
  BY <1>4, <1>5, <1>6 DEF GitCallOK, GitPlaces
<1>8. Steps(c)
  BY <1>2, <1>4, <1>6 DEF Steps
<1>9. QED  BY <1>2, <1>3, <1>7, <1>8, QuietStep

LEMMA StatusStep == ASSUME GitInv, NEW c \in GitUsers, Status(c)  PROVE  GitStepOK
<1>1. gitCalls[c].pc = "status" /\ UNCHANGED <<repo, gitAudit, timeouts>> /\ timeouts \in 0..Timeouts /\ gitCalls[c].job.tool = "switch"
  BY DEF Status, GitInv, GitCallOK
<1>2. GitEnd(c, "git_dirty") \/ To(c, "stash") \/ To(c, "go")
  BY DEF Status
<1>3. GitEnd(c, "git_dirty") => OnlyOne(c) /\ GitCallOK(c)' /\ Steps(c)
  BY <1>1, EndIsOK
<1>4. To(c, "stash") \/ To(c, "go") => OnlyOne(c) /\ GitCallOK(c)' /\ Steps(c)
  BY <1>1, ToIsOK
<1>5. QED  BY <1>1, <1>2, <1>3, <1>4, QuietStep

LEMMA StashStep == ASSUME GitInv, NEW c \in GitUsers, Stash(c)  PROVE  GitStepOK
<1>1. /\ gitCalls[c].pc = "stash" /\ UNCHANGED <<gitAudit, timeouts>> /\ timeouts \in 0..Timeouts /\ gitCalls[c].job.tool = "switch"
      /\ DOMAIN gitCalls = GitUsers /\ GitCallOK(c) /\ gitAudit \subseteq GitUsers
  BY DEF Stash, GitInv, GitCallOK
<1>2. PICK o \in GitStash(repo) : repo' = o.r
        /\ IF o.ok THEN gitCalls' = [gitCalls EXCEPT ![c].pc = "go", ![c].saw = TRUE] ELSE GitEnd(c, "error")
  BY DEF Stash
<1>3. Allowed(repo, repo', gitCalls[c].job)
  BY <1>2, StashLeaves, LeavesIsAllowed DEF GitInv
<1>4. CASE gitCalls' = [gitCalls EXCEPT ![c].pc = "go", ![c].saw = TRUE]
  <2>1. OnlyOne(c) /\ gitCalls'[c] = [[gitCalls[c] EXCEPT !.pc = "go"] EXCEPT !.saw = TRUE]
    BY <1>1, <1>4 DEF OnlyOne
  <2>2. DOMAIN gitCalls'[c] = GitFields /\ gitCalls'[c].pc = "go" /\ gitCalls'[c].job = gitCalls[c].job
    BY <1>1, <2>1 DEF GitCallOK, GitFields
  <2>3. GitCallOK(c)' /\ Steps(c)
    BY <1>1, <2>2 DEF GitCallOK, GitPlaces, Steps
  <2>4. QED  BY <1>1, <1>3, <2>1, <2>3, AllowedStep
<1>5. CASE GitEnd(c, "error")
  BY <1>1, <1>3, <1>5, EndIsOK, AllowedStep
<1>6. QED  BY <1>2, <1>4, <1>5

LEMMA LookStep == ASSUME GitInv, NEW c \in GitUsers, LookForBranch(c)  PROVE  GitStepOK
<1> DEFINE there == gitCalls[c].job.br \in DOMAIN repo.branches
<1>1. /\ gitCalls[c].pc = "look" /\ UNCHANGED <<repo, gitAudit, timeouts>> /\ timeouts \in 0..Timeouts
      /\ gitCalls[c].job.tool \in {"prepare", "worktree"} /\ DOMAIN gitCalls = GitUsers /\ GitCallOK(c) /\ gitAudit \subseteq GitUsers
  BY DEF LookForBranch, GitInv, GitCallOK
<1>2. \/ GitEnd(c, "error") \/ GitEnd(c, "ok")
      \/ (gitCalls[c].job.tool = "prepare" => ~there) /\ gitCalls' = [gitCalls EXCEPT ![c].pc = "go", ![c].young = ~there]
  BY DEF LookForBranch
<1>3. CASE GitEnd(c, "error") \/ GitEnd(c, "ok")
  BY <1>1, <1>3, EndIsOK, QuietStep
<1>4. CASE (gitCalls[c].job.tool = "prepare" => ~there) /\ gitCalls' = [gitCalls EXCEPT ![c].pc = "go", ![c].young = ~there]
  <2>1. OnlyOne(c) /\ gitCalls'[c] = [[gitCalls[c] EXCEPT !.pc = "go"] EXCEPT !.young = ~there]
    BY <1>1, <1>4 DEF OnlyOne
  <2>2. /\ DOMAIN gitCalls'[c] = GitFields /\ gitCalls'[c].pc = "go" /\ gitCalls'[c].job = gitCalls[c].job
        /\ gitCalls'[c].young = ~there
    BY <1>1, <2>1 DEF GitCallOK, GitFields
  <2>3. GitCallOK(c)' /\ Steps(c)
    BY <1>1, <1>4, <2>2 DEF GitCallOK, GitPlaces, Steps
  <2>4. QED  BY <1>1, <2>1, <2>3, QuietStep
<1>5. QED  BY <1>2, <1>3, <1>4

\* What a tool does after its command leaves the call where it may be.
LEMMA AfterIsOK ==
  ASSUME GitInv, NEW c \in GitUsers, NEW o, After(c, o), UNCHANGED <<gitAudit, timeouts>>, gitCalls[c].pc = "go"
  PROVE  OnlyOne(c) /\ GitCallOK(c)' /\ Steps(c)
<1> DEFINE t == gitCalls[c].job.tool
<1>1. /\ timeouts \in 0..Timeouts /\ DOMAIN gitCalls = GitUsers /\ GitCallOK(c) /\ gitAudit \subseteq GitUsers
      /\ t = "prepare" => gitCalls[c].young
  BY DEF GitInv, GitCallOK
<1>2. \/ t = "push" /\ gitCalls' = [gitCalls EXCEPT ![c].pc = "audit", ![c].saw = o.ok]
      \/ GitEnd(c, "ok") /\ (t # "push" \/ gitCalls[c].job.dry)
      \/ t \in {"pull", "revert", "merge"} /\ gitCalls' = [gitCalls EXCEPT ![c].pc = "inspect", ![c].how = o.how]
      \/ To(c, "unstash") \/ (t = "prepare" /\ To(c, "undo")) \/ GitEnd(c, "error")
  BY DEF After
<1>3. CASE gitCalls' = [gitCalls EXCEPT ![c].pc = "audit", ![c].saw = o.ok]
  <2>1. OnlyOne(c) /\ gitCalls'[c] = [[gitCalls[c] EXCEPT !.pc = "audit"] EXCEPT !.saw = o.ok]
    BY <1>1, <1>3 DEF OnlyOne
  <2>2. DOMAIN gitCalls'[c] = GitFields /\ gitCalls'[c].pc = "audit" /\ gitCalls'[c].job = gitCalls[c].job
    BY <1>1, <2>1 DEF GitCallOK, GitFields
  <2>3. QED  BY <1>1, <2>1, <2>2 DEF GitCallOK, GitPlaces, Steps
<1>4. CASE t \in {"pull", "revert", "merge"} /\ gitCalls' = [gitCalls EXCEPT ![c].pc = "inspect", ![c].how = o.how]
  <2>1. OnlyOne(c) /\ gitCalls'[c] = [[gitCalls[c] EXCEPT !.pc = "inspect"] EXCEPT !.how = o.how]
    BY <1>1, <1>4 DEF OnlyOne
  <2>2. DOMAIN gitCalls'[c] = GitFields /\ gitCalls'[c].pc = "inspect" /\ gitCalls'[c].job = gitCalls[c].job
    BY <1>1, <2>1 DEF GitCallOK, GitFields
  <2>3. QED  BY <1>1, <1>4, <2>1, <2>2 DEF GitCallOK, GitPlaces, Steps
<1>5. CASE To(c, "unstash") \/ (t = "prepare" /\ To(c, "undo"))
  BY <1>1, <1>5, ToIsOK
<1>6. CASE (GitEnd(c, "ok") /\ (t # "push" \/ gitCalls[c].job.dry)) \/ GitEnd(c, "error")
  BY <1>1, <1>6, EndIsOK
<1>7. QED  BY <1>2, <1>3, <1>4, <1>5, <1>6

LEMMA GoStep == ASSUME GitInv, NEW c \in GitUsers, Go(c)  PROVE  GitStepOK
<1> DEFINE j == gitCalls[c].job
<1>1. /\ gitCalls[c].pc = "go" /\ UNCHANGED gitAudit /\ timeouts \in 0..Timeouts /\ (j.tool = "revert" /\ ~Opt(j, "no_commit") => repo.made < Commits)
      /\ j \in GitWanted /\ Granted(j) /\ ~Refused(j) /\ Possible(repo) /\ Timeouts \in Nat
  BY GitAssumption DEF Go, GitInv, GitCallOK
<1>2. CASE \E o \in Command(repo, j) : repo' = o.r /\ After(c, o) /\ UNCHANGED timeouts
  <2>1. PICK o \in Command(repo, j) : repo' = o.r /\ After(c, o) /\ UNCHANGED timeouts
    BY <1>2
  <2>2. Allowed(repo, o.r, j)
    BY <1>1, CommandIsAllowed
  <2>3. OnlyOne(c) /\ GitCallOK(c)' /\ Steps(c)
    BY <1>1, <2>1, AfterIsOK
  <2>4. QED  BY <1>1, <2>1, <2>2, <2>3, AllowedStep
<1>3. CASE /\ timeouts < Timeouts /\ timeouts' = timeouts + 1
           /\ \E o \in Command(repo, j) \union Not(repo) : repo' = o.r
           /\ (j.tool = "pull" /\ To(c, "inspect")) \/ GitEnd(c, "timeout")
  <2>1. PICK o \in Command(repo, j) \union Not(repo) : repo' = o.r
    BY <1>3
  <2>2. Allowed(repo, repo', j)
    <3>1. CASE o \in Command(repo, j)
      BY <1>1, <2>1, <3>1, CommandIsAllowed
    <3>2. CASE o \in Not(repo)
      BY <1>1, <2>1, <3>2, OutcomeIs, StaysTheSame, LeavesIsAllowed
    <3>3. QED  BY <3>1, <3>2
  <2>3. timeouts' \in 0..Timeouts
    BY <1>1, <1>3
  <2>4. CASE j.tool = "pull" /\ To(c, "inspect")
    BY <1>1, <2>2, <2>3, <2>4, ToIsOK, AllowedStep
  <2>5. CASE GitEnd(c, "timeout")
    BY <1>1, <2>2, <2>3, <2>5, EndIsOK, AllowedStep
  <2>6. QED  BY <1>3, <2>4, <2>5
<1>4. QED  BY <1>2, <1>3 DEF Go

LEMMA InspectStep == ASSUME GitInv, NEW c \in GitUsers, Inspect(c)  PROVE  GitStepOK
<1>1. gitCalls[c].pc = "inspect" /\ UNCHANGED <<repo, gitAudit, timeouts>> /\ timeouts \in 0..Timeouts
      /\ gitCalls[c].job.tool \in {"pull", "revert", "merge"}
  BY DEF Inspect, GitInv, GitCallOK
<1>2. GitEnd(c, "error") \/ GitEnd(c, "conflict") \/ (gitCalls[c].job.tool # "merge" /\ To(c, "abort"))
  BY DEF Inspect
<1>3. CASE gitCalls[c].job.tool # "merge" /\ To(c, "abort")
  BY <1>1, <1>3, ToIsOK, QuietStep
<1>4. CASE GitEnd(c, "error") \/ GitEnd(c, "conflict")
  BY <1>1, <1>4, EndIsOK, QuietStep
<1>5. QED  BY <1>2, <1>3, <1>4

LEMMA AbortStep == ASSUME GitInv, NEW c \in GitUsers, Abort(c)  PROVE  GitStepOK
<1> DEFINE j == gitCalls[c].job
<1> DEFINE how == IF j.tool = "revert" THEN "revert" ELSE IF Opt(j, "rebase") THEN "rebase" ELSE "merge"
<1>1. gitCalls[c].pc = "abort" /\ UNCHANGED <<gitAudit, timeouts>> /\ timeouts \in 0..Timeouts /\ Possible(repo) /\ GitEnd(c, "conflict")
      /\ j.tool \in {"pull", "revert"} /\ Granted(j)
  BY DEF Abort, GitInv, GitCallOK
<1>2. PICK o \in GitAbort(repo, how) : repo' = o.r
  BY DEF Abort
<1>3. OnlyOne(c) /\ GitCallOK(c)' /\ Steps(c)
  BY <1>1, EndIsOK
<1>4. /\ Possible(repo') /\ repo'.remote = repo.remote /\ repo'.branches = repo.branches
      /\ how \notin repo.merging => repo' = repo
      /\ how # "rebase" => Kept(repo) \subseteq Kept(repo') \union repo.staged \union repo.fixes
      /\ how \notin repo'.merging \/ (how # "rebase" /\ repo' = repo /\ repo.staged # {} /\ repo.edits \ repo.fixes # {})
  BY <1>1, <1>2, AbortLeaves
<1>5. GitInv'
  <2>1. ASSUME NEW d \in GitUsers \ {c}  PROVE  GitCallOK(d)'
    BY <1>3 DEF GitInv, OnlyOne, GitCallOK
  <2>2. \A d \in GitUsers : GitCallOK(d)'
    BY <1>3, <2>1
  <2>3. QED  BY <1>3, <1>4, <2>2 DEF GitInv, OnlyOne
<1>6. LostRightly
  <2>1. KeptEdits = Kept(repo) /\ KeptEdits' = Kept(repo')
    BY DEF KeptEdits, Changes, Kept
  <2>2. CASE how \notin repo.merging
    BY <1>4, <2>1, <2>2 DEF LostRightly
  <2>3. CASE how \in repo.merging /\ how # "rebase"
    BY <1>1, <1>3, <1>4, <2>1, <2>3 DEF LostRightly
  <2>4. CASE how \in repo.merging /\ how = "rebase"
    <3>1. j.tool = "pull" /\ Opt(j, "rebase")
      BY <1>1, <2>4
    <3>2. j.confirmed \/ FullAccess
      BY <1>1, <3>1 DEF Granted, Reasons, Opt
    <3>3. QED  BY <1>3, <2>4, <3>1, <3>2 DEF LostRightly
  <2>5. QED  BY <2>2, <2>3, <2>4
<1>7. PullsRightly
  <2>1. ASSUME j.tool = "pull"
        PROVE  IF Opt(j, "rebase") THEN "rebase" \notin repo'.merging
               ELSE "merge" \notin repo'.merging \/ (repo' = repo /\ repo.staged # {} /\ repo.edits \ repo.fixes # {})
    BY <1>4, <2>1
  <2>2. QED  BY <1>3, <2>1 DEF PullsRightly, OnlyOne, Steps
<1>8. RemoteRightly /\ BranchesRightly
  BY <1>4 DEF RemoteRightly, BranchesRightly
<1>9. QED  BY <1>5, <1>6, <1>7, <1>8 DEF GitStepOK

LEMMA UnstashStep == ASSUME GitInv, NEW c \in GitUsers, Unstash(c)  PROVE  GitStepOK
<1>1. gitCalls[c].pc = "unstash" /\ UNCHANGED <<gitAudit, timeouts>> /\ timeouts \in 0..Timeouts /\ Possible(repo) /\ GitEnd(c, "error")
  BY DEF Unstash, GitInv
<1>2. Allowed(repo, repo', gitCalls[c].job)
  BY <1>1, UnstashLeaves, LeavesIsAllowed DEF Unstash
<1>3. QED  BY <1>1, <1>2, EndIsOK, AllowedStep

LEMMA AuditPushStep == ASSUME GitInv, NEW c \in GitUsers, AuditPush(c)  PROVE  GitStepOK
<1>1. /\ gitCalls[c].pc = "audit" /\ gitAudit' = gitAudit \union {c} /\ UNCHANGED <<repo, timeouts>> /\ timeouts \in 0..Timeouts
      /\ gitAudit \subseteq GitUsers
  BY DEF AuditPush, GitInv
<1>2. PICK out : GitEnd(c, out)
  BY DEF AuditPush
<1>3. /\ OnlyOne(c) /\ DOMAIN gitCalls'[c] = GitFields
      /\ gitCalls'[c].pc = "end" /\ gitCalls'[c].job = gitCalls[c].job
  BY <1>1, <1>2, EndIs
<1>4. GitCallOK(c)' /\ Steps(c)
  BY <1>1, <1>3 DEF GitCallOK, GitPlaces, Steps
<1>5. QED  BY <1>1, <1>3, <1>4, QuietStep

LEMMA UndoBranchStep == ASSUME GitInv, NEW c \in GitUsers, UndoBranch(c)  PROVE  GitStepOK
<1> DEFINE j == gitCalls[c].job
<1>1. /\ gitCalls[c].pc = "undo" /\ UNCHANGED <<gitAudit, timeouts>> /\ timeouts \in 0..Timeouts /\ Possible(repo) /\ GitEnd(c, "error")
      /\ j.tool = "prepare" /\ gitCalls[c].young
  BY DEF UndoBranch, GitInv, GitCallOK
<1>2. PICK o \in GitBranchDelete(repo, j.br) : repo' = o.r
  BY DEF UndoBranch
<1>3. OnlyOne(c) /\ GitCallOK(c)' /\ Steps(c)
  BY <1>1, EndIsOK
<1>4. /\ Possible(repo') /\ repo'.remote = repo.remote /\ DOMAIN repo.branches \subseteq DOMAIN repo'.branches \union {j.br}
      /\ Kept(repo') = Kept(repo)
  BY <1>1, <1>2, BranchDeleteLeaves
<1>5. GitInv'
  <2>1. ASSUME NEW d \in GitUsers \ {c}  PROVE  GitCallOK(d)'
    BY <1>3 DEF GitInv, OnlyOne, GitCallOK
  <2>2. \A d \in GitUsers : GitCallOK(d)'
    BY <1>3, <2>1
  <2>3. QED  BY <1>3, <1>4, <2>2 DEF GitInv, OnlyOne
<1>6. LostRightly
  <2>1. KeptEdits = Kept(repo) /\ KeptEdits' = Kept(repo')
    BY DEF KeptEdits, Changes, Kept
  <2>2. QED  BY <1>4, <2>1 DEF LostRightly
<1>7. PullsRightly
  BY <1>1, <1>3 DEF PullsRightly, OnlyOne, Steps
<1>8. RemoteRightly
  BY <1>4 DEF RemoteRightly
<1>9. BranchesRightly
  BY <1>1, <1>3, <1>4 DEF BranchesRightly
<1>10. QED  BY <1>5, <1>6, <1>7, <1>8, <1>9 DEF GitStepOK

LEMMA GitOwnerStep == ASSUME GitInv, GitOwner  PROVE  GitStepOK
<1>1. UNCHANGED <<gitCalls, gitAudit, timeouts>> /\ Possible(repo) /\ repo \in Repos /\ Commits \in Nat /\ repo.made \in 0..Commits
  BY GitAssumption DEF GitOwner, GitInv, Possible, Repos
<1>2. /\ Possible(repo') /\ DOMAIN repo.branches \subseteq DOMAIN repo'.branches
      /\ Kept(repo) \subseteq Kept(repo') \union (IF repo'.made # repo.made THEN repo.staged \union repo.fixes ELSE {})
      /\ repo'.remote = repo.remote \/ repo'.made # repo.made
  <2>1. ASSUME NEW e \in OwnerEdits, NEW F \in SUBSET {e}, repo' = [repo EXCEPT !.edits = @ \union {e}, !.fixes = @ \union F]
        PROVE  Leaves(repo, repo')
    <3> DEFINE s == [repo EXCEPT !.edits = @ \union {e}, !.fixes = @ \union F]
    <3>1. /\ s \in Repos /\ s.cur = repo.cur /\ s.branches = repo.branches /\ s.trees = repo.trees /\ s.remote = repo.remote
          /\ s.edits = repo.edits \union {e} /\ s.staged = repo.staged /\ s.stashes = repo.stashes
      BY <1>1 DEF Repos, AllEdits
    <3>2. repo' = s
      BY <2>1
    <3> HIDE DEF s
    <3>3. Leaves(repo, s)
      BY <1>1, <3>1 DEF Leaves, Possible, Kept
    <3>4. QED  BY <3>2, <3>3
  <2>2. ASSUME NEW e \in repo.edits, NEW o \in Settling([repo EXCEPT !.staged = @ \union {e}, !.edits = @ \ {e}]), repo' = o.r
        PROVE  Leaves(repo, repo')
    <3> DEFINE s == [repo EXCEPT !.staged = @ \union {e}, !.edits = @ \ {e}]
    <3>1. /\ s \in Repos /\ s.cur = repo.cur /\ s.branches = repo.branches /\ s.trees = repo.trees /\ s.remote = repo.remote
          /\ s.edits = repo.edits \ {e} /\ s.staged = repo.staged \union {e} /\ s.stashes = repo.stashes
      BY <1>1 DEF Repos
    <3>2. o \in Settling(s)
      BY <2>2
    <3> HIDE DEF s
    <3>3. Leaves(repo, s)
      BY <1>1, <3>1 DEF Leaves, Possible, Kept
    <3>4. QED  BY <2>2, <3>2, <3>3, SettlingLeaves
  <2>6. ASSUME repo.made < Commits,
               repo' = [Committed(repo) EXCEPT !.merging = {}, !.unmerged = FALSE, !.edits = @ \ repo.fixes, !.staged = {}, !.fixes = {}]
        PROVE  /\ Possible(repo') /\ DOMAIN repo.branches \subseteq DOMAIN repo'.branches /\ repo'.made # repo.made
               /\ Kept(repo) \subseteq Kept(repo') \union repo.staged \union repo.fixes
    <3> DEFINE w == Committed(repo)
    <3> DEFINE s == [w EXCEPT !.merging = {}, !.unmerged = FALSE, !.edits = @ \ repo.fixes, !.staged = {}, !.fixes = {}]
    <3>1. /\ Leaves(repo, w) /\ w.made = repo.made + 1 /\ w.edits = repo.edits /\ w.stashes = repo.stashes
          /\ w.cur = repo.cur /\ w.trees = repo.trees /\ w.remote = repo.remote /\ DOMAIN w.branches = DOMAIN repo.branches
      BY <1>1, <2>6, CommittedLeaves
    <3>2. repo' = s
      BY <2>6
    <3>3. w \in Repos
      BY <3>1 DEF Leaves, Possible
    <3> HIDE DEF w
    <3>4. /\ s \in Repos /\ s.cur = w.cur /\ s.branches = w.branches /\ s.trees = w.trees /\ s.remote = w.remote
          /\ s.edits = w.edits \ repo.fixes /\ s.stashes = w.stashes /\ s.made = w.made
      BY <3>3 DEF Repos
    <3> HIDE DEF s
    <3>5. Possible(s) /\ Kept(repo) \subseteq Kept(s) \union repo.staged \union repo.fixes
      BY <3>1, <3>4 DEF Leaves, Possible, Kept
    <3>6. repo.made + 1 # repo.made
      BY <1>1
    <3>7. QED  BY <3>1, <3>2, <3>4, <3>5, <3>6
  <2>3. ASSUME repo.made < Commits,
               repo' = [repo EXCEPT !.made = @ + 1, !.remote = Setting(@, Main, @[Main] \union {repo.made + 1})]
        PROVE  Possible(repo') /\ repo'.branches = repo.branches /\ Kept(repo') = Kept(repo) /\ repo'.made # repo.made
    <3> DEFINE f == Setting(repo.remote, Main, repo.remote[Main] \union {repo.made + 1})
    <3> DEFINE s == [repo EXCEPT !.made = repo.made + 1, !.remote = f]
    <3>1. repo.made + 1 \in 0..Commits /\ repo.made + 1 # repo.made
      BY <1>1, <2>3
    <3>2. repo.remote \in Histories /\ Main \in Branches /\ Main \in DOMAIN repo.remote
      BY <1>1, GitAssumption DEF Repos, Possible
    <3>3. repo.remote[Main] \union {repo.made + 1} \in SUBSET (0..Commits)
      BY <3>1, <3>2, HistoriesAre
    <3>4. f \in Histories /\ DOMAIN f = DOMAIN repo.remote \union {Main}
      BY <3>2, <3>3, SettingKeeps
    <3>5. repo' = s
      BY <2>3
    <3> HIDE DEF f
    <3>6. /\ s \in Repos /\ s.cur = repo.cur /\ s.branches = repo.branches /\ s.trees = repo.trees /\ s.remote = f
          /\ s.merging = repo.merging /\ s.unmerged = repo.unmerged /\ s.edits = repo.edits /\ s.staged = repo.staged
          /\ s.stashes = repo.stashes /\ s.made = repo.made + 1
      BY <1>1, <3>1, <3>4 DEF Repos
    <3> HIDE DEF s
    <3>7. Possible(s) /\ Kept(s) = Kept(repo)
      BY <1>1, <3>4, <3>6 DEF Possible, Kept
    <3>8. QED  BY <3>1, <3>5, <3>6, <3>7
  <2>4. \/ \E e \in OwnerEdits : \E F \in SUBSET {e} : repo' = [repo EXCEPT !.edits = @ \union {e}, !.fixes = @ \union F]
        \/ \E e \in repo.edits : \E o \in Settling([repo EXCEPT !.staged = @ \union {e}, !.edits = @ \ {e}]) : repo' = o.r
        \/ /\ repo.made < Commits
           /\ repo' = [Committed(repo) EXCEPT !.merging = {}, !.unmerged = FALSE, !.edits = @ \ repo.fixes, !.staged = {}, !.fixes = {}]
        \/ /\ repo.made < Commits
           /\ repo' = [repo EXCEPT !.made = @ + 1, !.remote = Setting(@, Main, @[Main] \union {repo.made + 1})]
    <3>1. ASSUME NEW e \in OwnerEdits,
                 repo' \in {[repo EXCEPT !.edits = @ \union {e}, !.fixes = @ \union F] : F \in IF repo.unmerged THEN {{}, {e}} ELSE {{}}}
          PROVE  \E F \in SUBSET {e} : repo' = [repo EXCEPT !.edits = @ \union {e}, !.fixes = @ \union F]
      BY <3>1
    <3>2. QED  BY <3>1 DEF GitOwner
  <2>5. QED  BY <2>1, <2>2, <2>3, <2>4, <2>6 DEF Leaves
<1>3. GitInv'
  <2>1. \A d \in GitUsers : GitCallOK(d)'
    BY <1>1 DEF GitInv, GitCallOK
  <2>2. QED  BY <1>1, <1>2, <2>1 DEF GitInv
<1>4. LostRightly
  <2>1. KeptEdits = Kept(repo) /\ KeptEdits' = Kept(repo')
    BY DEF KeptEdits, Changes, Kept
  <2>2. QED  BY <1>2, <2>1 DEF LostRightly
<1>5. PullsRightly
  BY <1>1 DEF PullsRightly, Steps
<1>6. RemoteRightly /\ BranchesRightly
  BY <1>2 DEF RemoteRightly, BranchesRightly
<1>7. QED  BY <1>3, <1>4, <1>5, <1>6 DEF GitStepOK

LEMMA GitStep == ASSUME GitInv, GitNext  PROVE  GitStepOK
  BY GitOwnerStep, BeginGitStep, StatusStep, StashStep, LookStep, GoStep, InspectStep, AbortStep, UnstashStep,
     AuditPushStep,
     UndoBranchStep
  DEF GitNext

LEMMA GitStart == GitInit => GitInv
<1> SUFFICES ASSUME GitInit  PROVE  GitInv
  OBVIOUS
<1>1. Main \in Branches /\ 0 \in 0..Commits /\ Commits \in Nat /\ 0 \in 0..Timeouts
  BY GitAssumption
<1>2. PICK b \in Branches, n \in 0..1 :
          /\ n = (IF b = Main THEN 0 ELSE 1) /\ n <= Commits
          /\ repo = [edits |-> {}, staged |-> {}, stashes |-> <<>>, fixes |-> {}, merging |-> {}, unmerged |-> FALSE, cur |-> Main,
                     branches |-> [x \in {Main, b} |-> IF x = Main THEN {0} ELSE {0, 1}], trees |-> {}, made |-> n,
                     remote |-> [x \in {Main} |-> {0}], tracked |-> [x \in {Main} |-> {0}]]
  BY DEF GitInit
<1> DEFINE f == [x \in {Main} |-> {0}]
<1> DEFINE g == [x \in {Main, b} |-> IF x = Main THEN {0} ELSE {0, 1}]
<1>3. f \in Histories /\ DOMAIN f = {Main}
  <2>1. f \in [{Main} -> SUBSET (0..Commits)] /\ {Main} \in SUBSET Branches
    BY <1>1
  <2>2. QED  BY <2>1, AreHistories
<1>4. g \in Histories /\ DOMAIN g = {Main, b}
  <2>1. b # Main => 1 \in 0..Commits
    BY <1>1, <1>2
  <2>2. g \in [{Main, b} -> SUBSET (0..Commits)] /\ {Main, b} \in SUBSET Branches
    BY <1>1, <2>1
  <2>3. QED  BY <2>2, AreHistories
<1>5. <<>> \in Seq(SUBSET AllEdits) /\ n \in 0..Commits
  BY <1>1, <1>2
<1> HIDE DEF f, g
<1>6. repo = [edits |-> {}, staged |-> {}, stashes |-> <<>>, fixes |-> {}, merging |-> {}, unmerged |-> FALSE, cur |-> Main,
              branches |-> g, trees |-> {}, made |-> n, remote |-> f, tracked |-> f]
  BY <1>2 DEF f, g
<1>7. repo \in Repos /\ repo.cur = Main /\ repo.branches = g /\ repo.trees = {} /\ repo.remote = f
  BY <1>1, <1>3, <1>4, <1>5, <1>6 DEF Repos
<1>8. Possible(repo)
  BY <1>3, <1>4, <1>7 DEF Possible
<1>9. ASSUME NEW c \in GitUsers  PROVE  GitCallOK(c)
  BY DEF GitInit, GitCallOK, GitFields, GitPlaces
<1>10. QED  BY <1>1, <1>8, <1>9 DEF GitInv, GitInit

\* The repository stays one git could have, and every call is where its tool can be.
THEOREM GitInvariant == GitSpec => []GitInv
<1>1. GitInv /\ [GitNext]_gitVars => GitInv'
  <2>1. ASSUME GitInv, UNCHANGED gitVars  PROVE  GitInv'
    <3>1. \A c \in GitUsers : GitCallOK(c)'
      BY <2>1 DEF GitInv, GitCallOK, gitVars
    <3>2. QED  BY <2>1, <3>1 DEF GitInv, gitVars
  <2>2. QED  BY <2>1, GitStep DEF GitStepOK
<1>2. QED  BY <1>1, GitStart, PTL DEF GitSpec

\* The repository is one git could have: what is checked out exists and is in no other worktree,
\* and every call is at a step of its tool.
THEOREM GitTypesHold == GitSpec => []GitTypeOK
<1>1. GitInv => GitTypeOK
  <2> SUFFICES ASSUME GitInv  PROVE  GitTypeOK
    OBVIOUS
  <2>1. repo \in Repos /\ repo.stashes \in Seq(SUBSET AllEdits)
    BY DEF GitInv, Possible, Repos
  <2>2. UNION Range(repo.stashes) \subseteq AllEdits
    <3>1. ASSUME NEW x \in Range(repo.stashes)  PROVE  x \subseteq AllEdits
      <4>1. PICK i \in DOMAIN repo.stashes : x = repo.stashes[i]
        BY DEF Range
      <4>2. repo.stashes[i] \in SUBSET AllEdits
        BY <2>1, <4>1
      <4>3. QED  BY <4>1, <4>2
    <3>2. QED  BY <3>1
  <2>3. Changes(repo) \union repo.fixes \subseteq AllEdits
    BY <2>1 DEF Repos, Changes
  <2>4. /\ repo.cur \in DOMAIN repo.branches /\ repo.trees \subseteq DOMAIN repo.branches \ {repo.cur}
        /\ DOMAIN repo.branches \subseteq Branches /\ \A b \in DOMAIN repo.branches : repo.branches[b] \subseteq 0..Commits
    BY HereIs DEF GitInv, Possible
  <2>5. repo.merging \subseteq {"merge", "rebase", "revert"} /\ repo.made \in 0..Commits
    BY <2>1 DEF Repos
  <2>6. Changes(repo) \union repo.fixes \union UNION Range(repo.stashes) \subseteq AllEdits
    BY <2>2, <2>3
  <2>7. \A c \in GitUsers : gitCalls[c].pc \in GitPlaces
    BY DEF GitInv, GitCallOK
  <2>8. gitAudit \subseteq GitUsers /\ timeouts \in 0..Timeouts
    BY DEF GitInv
  <2>9. QED  BY ONLY <2>4, <2>5, <2>6, <2>7, <2>8 DEF GitPlaces, GitTypeOK, AllEdits
<1>2. QED  BY <1>1, GitInvariant, PTL

\* Every real push that was answered is in the audit log, also one the remote refused.
THEOREM PushesAreAudited == GitSpec => []AnswersAudited
<1>1. GitInv => AnswersAudited
  BY DEF GitInv, GitCallOK, AnswersAudited
<1>2. QED  BY <1>1, GitInvariant, PTL

\* What somebody edited goes only with a commit of it, in a confirmed call that discards, or when a
\* call ends a merge, a rebase or a revert; and unless a confirmed pull ends a rebase, only what was
\* staged, or changed where it conflicted, goes with that.  Every other command takes it along.
THEOREM EditsAreNotLost == GitSpec => EditsNotLost
<1>1. GitInv /\ [GitNext]_gitVars => [LostRightly]_gitVars
  BY GitStep DEF GitStepOK
<1>2. QED  BY <1>1, GitInvariant, PTL DEF GitSpec, EditsNotLost, LostRightly

\* A pull that ran into a conflict leaves no merge and no rebase of its own behind, unless git refuses
\* to end it over a file that was staged and changed again.
THEOREM PullsLeaveNone == GitSpec => PullLeavesNone
<1>1. GitInv /\ [GitNext]_gitVars => [PullsRightly]_gitVars
  BY GitStep DEF GitStepOK
<1>2. QED  BY <1>1, GitInvariant, PTL DEF GitSpec, PullLeavesNone, PullsRightly

\* The remote changes only by a confirmed push that is no preview; commits leave it only by force,
\* where that is allowed, and when this clone had seen them.
THEOREM RemoteIsGuarded == GitSpec => RemoteGuarded
<1>1. GitInv /\ [GitNext]_gitVars => [RemoteRightly]_gitVars
  BY GitStep DEF GitStepOK
<1>2. QED  BY <1>1, GitInvariant, PTL DEF GitSpec, RemoteGuarded, RemoteRightly

\* Only a branch that prepare_task_worktree did not find when it looked is removed by it again.
THEOREM YoungBranchesGo == GitSpec => OnlyYoungBranchesGo
<1>1. GitInv /\ [GitNext]_gitVars => [BranchesRightly]_gitVars
  BY GitStep DEF GitStepOK
<1>2. QED  BY <1>1, GitInvariant, PTL DEF GitSpec, OnlyYoungBranchesGo, BranchesRightly

-----------------------------------------------------------------------------
(* GitHub.                                                                  *)

PlanSteps ==
    {"gate", "ready", "pushed", "confirm", "act", "audit", "rate_limit?", "view", "diff?", "repo", "method", "target",
     "checks=", "check-runs", "list", "log?"}

\* Nothing behind the audit, which follows an act; and before an act of a writing tool everything
\* that is asked of it, or it has been asked already.
Promised(p, j) ==
    \A i \in 1..Len(p) :
        /\ p[i] = "audit" => i = Len(p) /\ (i # 1 => p[i - 1] = "act")
        /\ p[i] = "act" =>
            /\ i + 1 = Len(p) /\ p[i + 1] = "audit" /\ Writes(j)
            /\ j.tool = "gh_pr_create" => "dry" \notin j.opts
            /\ Enabled \/ \E n \in 1..i : p[n] = "gate"
            /\ Confirmed(j) \/ \E n \in 1..i : p[n] = "confirm"
            /\ (j.tool # "gh_pr_create" \/ branch.upstream) \/ \E n \in 1..i : p[n] = "pushed"

\* A plan without an act promises nothing, ...
LEMMA NothingPromised ==
  ASSUME NEW j, NEW p, \A i \in 1..Len(p) : p[i] \notin {"act", "audit"}  PROVE  Promised(p, j)
  BY DEF Promised

\* ... and one with its act before the audit at its end has asked for everything before.
LEMMA ActPromised ==
  ASSUME NEW j, NEW p, NEW a \in Nat, Len(p) = a + 1, a >= 1, p[a] = "act", p[a + 1] = "audit",
         \A i \in 1..Len(p) : i < a => p[i] \notin {"act", "audit"},
         \E n \in 1..a : p[n] = "gate", \E n \in 1..a : p[n] = "confirm",
         j.tool = "gh_pr_create" => "dry" \notin j.opts /\ \E n \in 1..a : p[n] = "pushed",
         Writes(j)
  PROVE  Promised(p, j)
<1>1. \A i \in 1..Len(p) : (p[i] = "act" => i = a) /\ (p[i] = "audit" => i = a + 1)
  <2>1. ASSUME NEW i \in 1..Len(p)  PROVE  i < a \/ i = a \/ i = a + 1
    OBVIOUS
  <2>2. QED  BY <2>1
<1>2. a + 1 - 1 = a
  OBVIOUS
<1>3. QED  BY <1>1, <1>2 DEF Promised

LEMMA LongIsSome == ASSUME NEW p, Len(p) # 0  PROVE  p # <<>>
  <1>1. Len(<<>>) = 0
    OBVIOUS
  <1>2. QED  BY <1>1

\* The plan of every tool asks for what it has to ask.
LEMMA PlansPromise ==
  ASSUME NEW j  PROVE  HubPlan(j) \in Seq(PlanSteps) /\ HubPlan(j) # <<>> /\ Promised(HubPlan(j), j)
<1>1. CASE j.tool = "gh_status"
  <2>1. HubPlan(j) = GhStatus(j.opts)
    BY <1>1 DEF HubPlan
  <2>2. HubPlan(j) \in Seq(PlanSteps) /\ HubPlan(j) # <<>> /\ Promised(HubPlan(j), j)
    <3>1. /\ HubPlan(j) \in Seq(PlanSteps) /\ Len(HubPlan(j)) = 3
          /\ HubPlan(j)[1] = "gate" /\ HubPlan(j)[2] = "ready" /\ HubPlan(j)[3] = "rate_limit?"
      BY <2>1 DEF GhStatus, When, PlanSteps
    <3>2. \A i \in 1..Len(HubPlan(j)) : HubPlan(j)[i] \notin {"act", "audit"}
      BY <3>1
    <3>3. QED
      <4>1. Promised(HubPlan(j), j)
        BY ONLY <3>2, NothingPromised
      <4>2. HubPlan(j) # <<>>
        <5>1. Len(HubPlan(j)) # 0
          BY ONLY <3>1
        <5>2. QED  BY ONLY <5>1, LongIsSome
      <4>3. QED  BY <3>1, <4>1, <4>2
  <2>3. QED  BY <2>2
<1>2. CASE j.tool = "gh_pr_create"
  <2>1. HubPlan(j) = PrCreate(j.opts)
    BY <1>2 DEF HubPlan
  <2>2. CASE "dry" \in j.opts
    <3>1. /\ HubPlan(j) \in Seq(PlanSteps) /\ Len(HubPlan(j)) = 3
          /\ HubPlan(j)[1] = "gate" /\ HubPlan(j)[2] = "ready" /\ HubPlan(j)[3] = "pushed"
      BY <2>1, <2>2 DEF PrCreate, When, PlanSteps
    <3>2. \A i \in 1..Len(HubPlan(j)) : HubPlan(j)[i] \notin {"act", "audit"}
      BY <3>1
    <3>3. QED
      <4>1. Promised(HubPlan(j), j)
        BY ONLY <3>2, NothingPromised
      <4>2. HubPlan(j) # <<>>
        <5>1. Len(HubPlan(j)) # 0
          BY ONLY <3>1
        <5>2. QED  BY ONLY <5>1, LongIsSome
      <4>3. QED  BY <3>1, <4>1, <4>2
  <2>3. CASE "dry" \notin j.opts
    <3>1. /\ HubPlan(j) \in Seq(PlanSteps) /\ Len(HubPlan(j)) = 6
          /\ HubPlan(j)[1] = "gate" /\ HubPlan(j)[2] = "ready" /\ HubPlan(j)[3] = "pushed"
          /\ HubPlan(j)[4] = "confirm" /\ HubPlan(j)[5] = "act" /\ HubPlan(j)[6] = "audit"
      BY <2>1, <2>3 DEF PrCreate, When, PlanSteps
    <3>2. Writes(j)
      BY <1>2 DEF Writes
    <3>3. \A i \in 1..Len(HubPlan(j)) : i < 5 => HubPlan(j)[i] \notin {"act", "audit"}
      BY <3>1
    <3>4. (\E n \in 1..5 : HubPlan(j)[n] = "gate") /\ (\E n \in 1..5 : HubPlan(j)[n] = "confirm")
      BY <3>1
    <3>5. j.tool = "gh_pr_create" => "dry" \notin j.opts /\ \E n \in 1..5 : HubPlan(j)[n] = "pushed"
      BY <1>2, <2>3, <3>1
    <3>6. 5 \in Nat /\ 5 >= 1 /\ Len(HubPlan(j)) = 5 + 1 /\ HubPlan(j)[5] = "act" /\ HubPlan(j)[5 + 1] = "audit"
      BY <3>1
    <3>7. QED
      <4>1. Promised(HubPlan(j), j)
        BY ONLY <3>2, <3>3, <3>4, <3>5, <3>6, ActPromised
      <4>2. HubPlan(j) # <<>>
        <5>1. Len(HubPlan(j)) # 0
          BY ONLY <3>1
        <5>2. QED  BY ONLY <5>1, LongIsSome
      <4>3. QED  BY <3>1, <4>1, <4>2
  <2>4. QED  BY <2>2, <2>3
<1>3. CASE j.tool = "gh_pr_view"
  <2>1. HubPlan(j) = PrView(j.opts)
    BY <1>3 DEF HubPlan
  <2>2. CASE "diff" \in j.opts
    <3>1. /\ HubPlan(j) \in Seq(PlanSteps) /\ Len(HubPlan(j)) = 3
          /\ HubPlan(j)[1] = "gate" /\ HubPlan(j)[2] = "view" /\ HubPlan(j)[3] = "diff?"
      BY <2>1, <2>2 DEF PrView, When, PlanSteps
    <3>2. \A i \in 1..Len(HubPlan(j)) : HubPlan(j)[i] \notin {"act", "audit"}
      BY <3>1
    <3>3. QED
      <4>1. Promised(HubPlan(j), j)
        BY ONLY <3>2, NothingPromised
      <4>2. HubPlan(j) # <<>>
        <5>1. Len(HubPlan(j)) # 0
          BY ONLY <3>1
        <5>2. QED  BY ONLY <5>1, LongIsSome
      <4>3. QED  BY <3>1, <4>1, <4>2
  <2>3. CASE "diff" \notin j.opts
    <3>1. /\ HubPlan(j) \in Seq(PlanSteps) /\ Len(HubPlan(j)) = 2
          /\ HubPlan(j)[1] = "gate" /\ HubPlan(j)[2] = "view"
      BY <2>1, <2>3 DEF PrView, When, PlanSteps
    <3>2. \A i \in 1..Len(HubPlan(j)) : HubPlan(j)[i] \notin {"act", "audit"}
      BY <3>1
    <3>3. QED
      <4>1. Promised(HubPlan(j), j)
        BY ONLY <3>2, NothingPromised
      <4>2. HubPlan(j) # <<>>
        <5>1. Len(HubPlan(j)) # 0
          BY ONLY <3>1
        <5>2. QED  BY ONLY <5>1, LongIsSome
      <4>3. QED  BY <3>1, <4>1, <4>2
  <2>4. QED  BY <2>2, <2>3
<1>4. CASE j.tool = "gh_pr_comment"
  <2>1. HubPlan(j) = PrComment(j.opts)
    BY <1>4 DEF HubPlan
  <2>2. CASE "reply" \in j.opts
    <3>1. /\ HubPlan(j) \in Seq(PlanSteps) /\ Len(HubPlan(j)) = 6
          /\ HubPlan(j)[1] = "gate" /\ HubPlan(j)[2] = "ready" /\ HubPlan(j)[3] = "confirm"
          /\ HubPlan(j)[4] = "repo" /\ HubPlan(j)[5] = "act" /\ HubPlan(j)[6] = "audit"
      BY <2>1, <2>2 DEF PrComment, When, PlanSteps
    <3>2. Writes(j)
      BY <1>4 DEF Writes
    <3>3. \A i \in 1..Len(HubPlan(j)) : i < 5 => HubPlan(j)[i] \notin {"act", "audit"}
      BY <3>1
    <3>4. (\E n \in 1..5 : HubPlan(j)[n] = "gate") /\ (\E n \in 1..5 : HubPlan(j)[n] = "confirm")
      BY <3>1
    <3>5. j.tool = "gh_pr_create" => "dry" \notin j.opts /\ \E n \in 1..5 : HubPlan(j)[n] = "pushed"
      BY <1>4, <2>2, <3>1
    <3>6. 5 \in Nat /\ 5 >= 1 /\ Len(HubPlan(j)) = 5 + 1 /\ HubPlan(j)[5] = "act" /\ HubPlan(j)[5 + 1] = "audit"
      BY <3>1
    <3>7. QED
      <4>1. Promised(HubPlan(j), j)
        BY ONLY <3>2, <3>3, <3>4, <3>5, <3>6, ActPromised
      <4>2. HubPlan(j) # <<>>
        <5>1. Len(HubPlan(j)) # 0
          BY ONLY <3>1
        <5>2. QED  BY ONLY <5>1, LongIsSome
      <4>3. QED  BY <3>1, <4>1, <4>2
  <2>3. CASE "reply" \notin j.opts
    <3>1. /\ HubPlan(j) \in Seq(PlanSteps) /\ Len(HubPlan(j)) = 5
          /\ HubPlan(j)[1] = "gate" /\ HubPlan(j)[2] = "ready" /\ HubPlan(j)[3] = "confirm"
          /\ HubPlan(j)[4] = "act" /\ HubPlan(j)[5] = "audit"
      BY <2>1, <2>3 DEF PrComment, When, PlanSteps
    <3>2. Writes(j)
      BY <1>4 DEF Writes
    <3>3. \A i \in 1..Len(HubPlan(j)) : i < 4 => HubPlan(j)[i] \notin {"act", "audit"}
      BY <3>1
    <3>4. (\E n \in 1..4 : HubPlan(j)[n] = "gate") /\ (\E n \in 1..4 : HubPlan(j)[n] = "confirm")
      BY <3>1
    <3>5. j.tool = "gh_pr_create" => "dry" \notin j.opts /\ \E n \in 1..4 : HubPlan(j)[n] = "pushed"
      BY <1>4, <2>3, <3>1
    <3>6. 4 \in Nat /\ 4 >= 1 /\ Len(HubPlan(j)) = 4 + 1 /\ HubPlan(j)[4] = "act" /\ HubPlan(j)[4 + 1] = "audit"
      BY <3>1
    <3>7. QED
      <4>1. Promised(HubPlan(j), j)
        BY ONLY <3>2, <3>3, <3>4, <3>5, <3>6, ActPromised
      <4>2. HubPlan(j) # <<>>
        <5>1. Len(HubPlan(j)) # 0
          BY ONLY <3>1
        <5>2. QED  BY ONLY <5>1, LongIsSome
      <4>3. QED  BY <3>1, <4>1, <4>2
  <2>4. QED  BY <2>2, <2>3
<1>5. CASE j.tool = "gh_pr_merge"
  <2>1. HubPlan(j) = PrMerge(j.opts)
    BY <1>5 DEF HubPlan
  <2>2. HubPlan(j) \in Seq(PlanSteps) /\ HubPlan(j) # <<>> /\ Promised(HubPlan(j), j)
    <3>1. /\ HubPlan(j) \in Seq(PlanSteps) /\ Len(HubPlan(j)) = 6
          /\ HubPlan(j)[1] = "gate" /\ HubPlan(j)[2] = "method" /\ HubPlan(j)[3] = "ready"
          /\ HubPlan(j)[4] = "confirm" /\ HubPlan(j)[5] = "act" /\ HubPlan(j)[6] = "audit"
      BY <2>1 DEF PrMerge, When, PlanSteps
    <3>2. Writes(j)
      BY <1>5 DEF Writes
    <3>3. \A i \in 1..Len(HubPlan(j)) : i < 5 => HubPlan(j)[i] \notin {"act", "audit"}
      BY <3>1
    <3>4. (\E n \in 1..5 : HubPlan(j)[n] = "gate") /\ (\E n \in 1..5 : HubPlan(j)[n] = "confirm")
      BY <3>1
    <3>5. j.tool = "gh_pr_create" => "dry" \notin j.opts /\ \E n \in 1..5 : HubPlan(j)[n] = "pushed"
      BY <1>5, <3>1
    <3>6. 5 \in Nat /\ 5 >= 1 /\ Len(HubPlan(j)) = 5 + 1 /\ HubPlan(j)[5] = "act" /\ HubPlan(j)[5 + 1] = "audit"
      BY <3>1
    <3>7. QED
      <4>1. Promised(HubPlan(j), j)
        BY ONLY <3>2, <3>3, <3>4, <3>5, <3>6, ActPromised
      <4>2. HubPlan(j) # <<>>
        <5>1. Len(HubPlan(j)) # 0
          BY ONLY <3>1
        <5>2. QED  BY ONLY <5>1, LongIsSome
      <4>3. QED  BY <3>1, <4>1, <4>2
  <2>3. QED  BY <2>2
<1>6. CASE j.tool = "gh_checks"
  <2>1. HubPlan(j) = Checks(j.opts)
    BY <1>6 DEF HubPlan
  <2>2. CASE "pr" \in j.opts
    <3>1. /\ HubPlan(j) \in Seq(PlanSteps) /\ Len(HubPlan(j)) = 3
          /\ HubPlan(j)[1] = "gate" /\ HubPlan(j)[2] = "target" /\ HubPlan(j)[3] = "checks="
      BY <2>1, <2>2 DEF Checks, When, PlanSteps
    <3>2. \A i \in 1..Len(HubPlan(j)) : HubPlan(j)[i] \notin {"act", "audit"}
      BY <3>1
    <3>3. QED
      <4>1. Promised(HubPlan(j), j)
        BY ONLY <3>2, NothingPromised
      <4>2. HubPlan(j) # <<>>
        <5>1. Len(HubPlan(j)) # 0
          BY ONLY <3>1
        <5>2. QED  BY ONLY <5>1, LongIsSome
      <4>3. QED  BY <3>1, <4>1, <4>2
  <2>3. CASE "pr" \notin j.opts
    <3>1. /\ HubPlan(j) \in Seq(PlanSteps) /\ Len(HubPlan(j)) = 4
          /\ HubPlan(j)[1] = "gate" /\ HubPlan(j)[2] = "target" /\ HubPlan(j)[3] = "repo"
          /\ HubPlan(j)[4] = "check-runs"
      BY <2>1, <2>3 DEF Checks, When, PlanSteps
    <3>2. \A i \in 1..Len(HubPlan(j)) : HubPlan(j)[i] \notin {"act", "audit"}
      BY <3>1
    <3>3. QED
      <4>1. Promised(HubPlan(j), j)
        BY ONLY <3>2, NothingPromised
      <4>2. HubPlan(j) # <<>>
        <5>1. Len(HubPlan(j)) # 0
          BY ONLY <3>1
        <5>2. QED  BY ONLY <5>1, LongIsSome
      <4>3. QED  BY <3>1, <4>1, <4>2
  <2>4. QED  BY <2>2, <2>3
<1>7. CASE j.tool = "gh_run_view"
  <2>1. HubPlan(j) = RunView(j.opts)
    BY <1>7 DEF HubPlan
  <2>2. CASE "run" \in j.opts /\ "failed" \in j.opts
    <3>1. /\ HubPlan(j) \in Seq(PlanSteps) /\ Len(HubPlan(j)) = 3
          /\ HubPlan(j)[1] = "gate" /\ HubPlan(j)[2] = "view" /\ HubPlan(j)[3] = "log?"
      BY <2>1, <2>2 DEF RunView, When, PlanSteps
    <3>2. \A i \in 1..Len(HubPlan(j)) : HubPlan(j)[i] \notin {"act", "audit"}
      BY <3>1
    <3>3. QED
      <4>1. Promised(HubPlan(j), j)
        BY ONLY <3>2, NothingPromised
      <4>2. HubPlan(j) # <<>>
        <5>1. Len(HubPlan(j)) # 0
          BY ONLY <3>1
        <5>2. QED  BY ONLY <5>1, LongIsSome
      <4>3. QED  BY <3>1, <4>1, <4>2
  <2>3. CASE "run" \in j.opts /\ "failed" \notin j.opts
    <3>1. /\ HubPlan(j) \in Seq(PlanSteps) /\ Len(HubPlan(j)) = 2
          /\ HubPlan(j)[1] = "gate" /\ HubPlan(j)[2] = "view"
      BY <2>1, <2>3 DEF RunView, When, PlanSteps
    <3>2. \A i \in 1..Len(HubPlan(j)) : HubPlan(j)[i] \notin {"act", "audit"}
      BY <3>1
    <3>3. QED
      <4>1. Promised(HubPlan(j), j)
        BY ONLY <3>2, NothingPromised
      <4>2. HubPlan(j) # <<>>
        <5>1. Len(HubPlan(j)) # 0
          BY ONLY <3>1
        <5>2. QED  BY ONLY <5>1, LongIsSome
      <4>3. QED  BY <3>1, <4>1, <4>2
  <2>4. CASE "run" \notin j.opts /\ "failed" \in j.opts
    <3>1. /\ HubPlan(j) \in Seq(PlanSteps) /\ Len(HubPlan(j)) = 4
          /\ HubPlan(j)[1] = "gate" /\ HubPlan(j)[2] = "list" /\ HubPlan(j)[3] = "view"
          /\ HubPlan(j)[4] = "log?"
      BY <2>1, <2>4 DEF RunView, When, PlanSteps
    <3>2. \A i \in 1..Len(HubPlan(j)) : HubPlan(j)[i] \notin {"act", "audit"}
      BY <3>1
    <3>3. QED
      <4>1. Promised(HubPlan(j), j)
        BY ONLY <3>2, NothingPromised
      <4>2. HubPlan(j) # <<>>
        <5>1. Len(HubPlan(j)) # 0
          BY ONLY <3>1
        <5>2. QED  BY ONLY <5>1, LongIsSome
      <4>3. QED  BY <3>1, <4>1, <4>2
  <2>5. CASE "run" \notin j.opts /\ "failed" \notin j.opts
    <3>1. /\ HubPlan(j) \in Seq(PlanSteps) /\ Len(HubPlan(j)) = 3
          /\ HubPlan(j)[1] = "gate" /\ HubPlan(j)[2] = "list" /\ HubPlan(j)[3] = "view"
      BY <2>1, <2>5 DEF RunView, When, PlanSteps
    <3>2. \A i \in 1..Len(HubPlan(j)) : HubPlan(j)[i] \notin {"act", "audit"}
      BY <3>1
    <3>3. QED
      <4>1. Promised(HubPlan(j), j)
        BY ONLY <3>2, NothingPromised
      <4>2. HubPlan(j) # <<>>
        <5>1. Len(HubPlan(j)) # 0
          BY ONLY <3>1
        <5>2. QED  BY ONLY <5>1, LongIsSome
      <4>3. QED  BY <3>1, <4>1, <4>2
  <2>6. QED  BY <2>2, <2>3, <2>4, <2>5
<1>8. CASE j.tool = "gh_run_rerun"
  <2>1. HubPlan(j) = RunRerun(j.opts)
    BY <1>8 DEF HubPlan
  <2>2. HubPlan(j) \in Seq(PlanSteps) /\ HubPlan(j) # <<>> /\ Promised(HubPlan(j), j)
    <3>1. /\ HubPlan(j) \in Seq(PlanSteps) /\ Len(HubPlan(j)) = 5
          /\ HubPlan(j)[1] = "gate" /\ HubPlan(j)[2] = "ready" /\ HubPlan(j)[3] = "confirm"
          /\ HubPlan(j)[4] = "act" /\ HubPlan(j)[5] = "audit"
      BY <2>1 DEF RunRerun, When, PlanSteps
    <3>2. Writes(j)
      BY <1>8 DEF Writes
    <3>3. \A i \in 1..Len(HubPlan(j)) : i < 4 => HubPlan(j)[i] \notin {"act", "audit"}
      BY <3>1
    <3>4. (\E n \in 1..4 : HubPlan(j)[n] = "gate") /\ (\E n \in 1..4 : HubPlan(j)[n] = "confirm")
      BY <3>1
    <3>5. j.tool = "gh_pr_create" => "dry" \notin j.opts /\ \E n \in 1..4 : HubPlan(j)[n] = "pushed"
      BY <1>8, <3>1
    <3>6. 4 \in Nat /\ 4 >= 1 /\ Len(HubPlan(j)) = 4 + 1 /\ HubPlan(j)[4] = "act" /\ HubPlan(j)[4 + 1] = "audit"
      BY <3>1
    <3>7. QED
      <4>1. Promised(HubPlan(j), j)
        BY ONLY <3>2, <3>3, <3>4, <3>5, <3>6, ActPromised
      <4>2. HubPlan(j) # <<>>
        <5>1. Len(HubPlan(j)) # 0
          BY ONLY <3>1
        <5>2. QED  BY ONLY <5>1, LongIsSome
      <4>3. QED  BY <3>1, <4>1, <4>2
  <2>3. QED  BY <2>2
<1>9. CASE j.tool \in {"gh_pr_list", "gh_issue_list"}
  <2>1. HubPlan(j) = Listing(j.opts)
    BY <1>9 DEF HubPlan
  <2>2. HubPlan(j) \in Seq(PlanSteps) /\ HubPlan(j) # <<>> /\ Promised(HubPlan(j), j)
    <3>1. /\ HubPlan(j) \in Seq(PlanSteps) /\ Len(HubPlan(j)) = 2
          /\ HubPlan(j)[1] = "gate" /\ HubPlan(j)[2] = "list"
      BY <2>1 DEF Listing, When, PlanSteps
    <3>2. \A i \in 1..Len(HubPlan(j)) : HubPlan(j)[i] \notin {"act", "audit"}
      BY <3>1
    <3>3. QED
      <4>1. Promised(HubPlan(j), j)
        BY ONLY <3>2, NothingPromised
      <4>2. HubPlan(j) # <<>>
        <5>1. Len(HubPlan(j)) # 0
          BY ONLY <3>1
        <5>2. QED  BY ONLY <5>1, LongIsSome
      <4>3. QED  BY <3>1, <4>1, <4>2
  <2>3. QED  BY <2>2
<1>10. CASE j.tool \notin {"gh_status", "gh_pr_create", "gh_pr_view", "gh_pr_comment", "gh_pr_merge", "gh_checks",
                           "gh_run_view", "gh_run_rerun", "gh_pr_list", "gh_issue_list"}
  <2>1. HubPlan(j) = IssueView(j.opts)
    BY <1>10 DEF HubPlan
  <2>2. HubPlan(j) \in Seq(PlanSteps) /\ HubPlan(j) # <<>> /\ Promised(HubPlan(j), j)
    <3>1. /\ HubPlan(j) \in Seq(PlanSteps) /\ Len(HubPlan(j)) = 2
          /\ HubPlan(j)[1] = "gate" /\ HubPlan(j)[2] = "view"
      BY <2>1 DEF IssueView, When, PlanSteps
    <3>2. \A i \in 1..Len(HubPlan(j)) : HubPlan(j)[i] \notin {"act", "audit"}
      BY <3>1
    <3>3. QED
      <4>1. Promised(HubPlan(j), j)
        BY ONLY <3>2, NothingPromised
      <4>2. HubPlan(j) # <<>>
        <5>1. Len(HubPlan(j)) # 0
          BY ONLY <3>1
        <5>2. QED  BY ONLY <5>1, LongIsSome
      <4>3. QED  BY <3>1, <4>1, <4>2
  <2>3. QED  BY <2>2
<1>11. QED  BY <1>1, <1>2, <1>3, <1>4, <1>5, <1>6, <1>7, <1>8, <1>9, <1>10

\* What a step of the plan has asked for need not be asked for again.
LEMMA PlanGoesOn ==
  ASSUME NEW p \in Seq(PlanSteps), NEW j, p # <<>>, Promised(p, j),
         Head(p) = "gate" => Enabled, Head(p) = "confirm" => Confirmed(j), Head(p) = "pushed" => branch.upstream
  PROVE  Tail(p) \in Seq(PlanSteps) /\ Promised(Tail(p), j)
<1>1. Tail(p) \in Seq(PlanSteps) /\ Len(Tail(p)) = Len(p) - 1 /\ Len(p) \in Nat \ {0}
      /\ \A i \in 1..Len(Tail(p)) : Tail(p)[i] = p[i + 1]
  OBVIOUS
<1>2. ASSUME NEW i \in 1..Len(Tail(p)), Tail(p)[i] = "audit"
      PROVE  i = Len(Tail(p)) /\ (i # 1 => Tail(p)[i - 1] = "act")
  <2>1. i + 1 \in 1..Len(p) /\ p[i + 1] = "audit"
    BY <1>1, <1>2
  <2>2. i + 1 = Len(p) /\ (i + 1 # 1 => p[i + 1 - 1] = "act")
    BY <2>1 DEF Promised
  <2>3. i = Len(Tail(p)) /\ p[i] = "act"
    <3>1. i \in Nat /\ i + 1 - 1 = i /\ i + 1 # 1
      OBVIOUS
    <3>2. i + 1 = Len(p) /\ p[i] = "act"
      BY <2>2, <3>1
    <3>3. Len(Tail(p)) = Len(p) - 1
      BY <1>1
    <3>4. QED  BY ONLY <3>1, <3>2, <3>3
  <2>4. ASSUME i # 1  PROVE  Tail(p)[i - 1] = "act"
    <3>1. i - 1 \in 1..Len(Tail(p)) /\ i - 1 + 1 = i
      BY <1>1, <2>4
    <3>2. QED  BY <1>1, <2>3, <3>1
  <2>5. QED  BY <2>3, <2>4
<1>3. ASSUME NEW i \in 1..Len(Tail(p)), Tail(p)[i] = "act"
      PROVE  /\ i + 1 = Len(Tail(p)) /\ Tail(p)[i + 1] = "audit" /\ Writes(j)
             /\ j.tool = "gh_pr_create" => "dry" \notin j.opts
             /\ Enabled \/ \E n \in 1..i : Tail(p)[n] = "gate"
             /\ Confirmed(j) \/ \E n \in 1..i : Tail(p)[n] = "confirm"
             /\ (j.tool # "gh_pr_create" \/ branch.upstream) \/ \E n \in 1..i : Tail(p)[n] = "pushed"
  <2>1. i + 1 \in 1..Len(p) /\ p[i + 1] = "act"
    BY <1>1, <1>3
  <2>2. /\ i + 1 + 1 = Len(p) /\ p[i + 1 + 1] = "audit" /\ Writes(j)
        /\ j.tool = "gh_pr_create" => "dry" \notin j.opts
        /\ Enabled \/ \E n \in 1..(i + 1) : p[n] = "gate"
        /\ Confirmed(j) \/ \E n \in 1..(i + 1) : p[n] = "confirm"
        /\ (j.tool # "gh_pr_create" \/ branch.upstream) \/ \E n \in 1..(i + 1) : p[n] = "pushed"
    BY <2>1 DEF Promised
  <2>3. ASSUME NEW x, NEW n \in 1..(i + 1), p[n] = x, x # Head(p)  PROVE  \E m \in 1..i : Tail(p)[m] = x
    <3>1. n # 1
      BY <2>3
    <3>2. n - 1 \in 1..i /\ n - 1 \in 1..Len(Tail(p))
      BY <1>1, <3>1
    <3>3. Tail(p)[n - 1] = p[n]
      BY <1>1, <3>2
    <3>4. QED  BY <2>3, <3>2, <3>3
  <2>4. i + 1 = Len(Tail(p)) /\ Tail(p)[i + 1] = "audit"
    <3>a. i + 1 + 1 = Len(p)
      BY <2>2
    <3>b. Len(Tail(p)) = Len(p) - 1 /\ Len(p) \in Nat /\ Len(Tail(p)) \in Nat
      BY <1>1
    <3>c. i \in Nat /\ i >= 1
      BY <3>b
    <3>0. i + 1 + 1 = Len(p) /\ i \in Nat /\ i >= 1 /\ Len(Tail(p)) = Len(p) - 1 /\ Len(p) \in Nat
      BY <3>a, <3>b, <3>c
    <3>1. i + 1 = Len(Tail(p)) /\ i + 1 \in 1..Len(Tail(p))
      BY ONLY <3>0
    <3>2. QED  BY <1>1, <2>2, <3>1
  <2>5. Enabled \/ \E n \in 1..i : Tail(p)[n] = "gate"
    BY <2>2, <2>3
  <2>6. Confirmed(j) \/ \E n \in 1..i : Tail(p)[n] = "confirm"
    BY <2>2, <2>3
  <2>7. (j.tool # "gh_pr_create" \/ branch.upstream) \/ \E n \in 1..i : Tail(p)[n] = "pushed"
    BY <2>2, <2>3
  <2>8. QED  BY <2>2, <2>4, <2>5, <2>6, <2>7
<1>4. QED  BY <1>1, <1>2, <1>3 DEF Promised

-----------------------------------------------------------------------------
(* A call on GitHub: what it did, and where its plan stands.                *)

HubOuts ==
    {"", "ok", "failed", "github_tools_disabled", "bad_argument", "gh_unavailable", "gh_not_authenticated",
     "branch_not_pushed", "confirmation_required", "raised", "gh_command_failed", "gh_timeout",
     "no_github_remote", "gh_output_truncated"}
HubRecords ==
    [pc : {"idle", "plan", "lease", "run", "end"}, job : HubWanted \union {NoHubJob}, plan : Seq(PlanSteps),
     out : HubOuts, ok : BOOLEAN, tried : BOOLEAN]

Acted(c) == \E a \in hubActs : a.by = c
Noted(c) == \E e \in hubAudit : e.by = c

\* An act is done while it is the first of the plan; from then on the plan is to write it down.
HubCallOK(c) ==
    LET k == hubCalls[c] IN
    /\ k.pc = "idle" => ~Acted(c) /\ ~k.ok
    /\ k.pc \in {"plan", "lease", "run"} <=> k.plan # <<>>
    /\ k.pc \in {"lease", "run"} => HubCommand(Head(k.plan))
    /\ Promised(k.plan, k.job)
    /\ \A i \in 1..Len(k.plan) : k.plan[i] = "act" => ~Acted(c)
    /\ k.plan # <<>> /\ Head(k.plan) = "audit" /\ k.ok => Acted(c)
    /\ Acted(c) /\ k.plan # <<>> => Head(k.plan) = "audit"
    /\ Acted(c) /\ k.pc = "end" => Noted(c)

ActGranted(a) ==
    LET j == hubCalls[a.by].job IN
    /\ a.by \in HubUsers /\ a.nth = 0 /\ Writes(j) /\ Confirmed(j) /\ Enabled
    /\ (j.tool = "gh_pr_create" => "dry" \notin j.opts /\ ~a.stale)

HubInv ==
    /\ hubCalls \in [HubUsers -> HubRecords]
    /\ branch \in [upstream : BOOLEAN, ahead : BOOLEAN]
    /\ \A c \in HubUsers : HubCallOK(c)
    /\ \A a \in hubActs : ActGranted(a)
    /\ \A e \in hubAudit : e.ok => Acted(e.by)

\* The first step of a plan, and the step behind it.
LEMMA PlanHead ==
  ASSUME NEW p \in Seq(PlanSteps), p # <<>>
  PROVE  /\ Head(p) = p[1] /\ Head(p) \in PlanSteps /\ 1 \in 1..Len(p)
         /\ Tail(p) # <<>> => Head(Tail(p)) = p[2] /\ 2 \in 1..Len(p)
         /\ \A i \in 1..Len(Tail(p)) : Tail(p)[i] = p[i + 1] /\ i + 1 \in 1..Len(p)
  OBVIOUS

LEMMA PromisedKept ==
  ASSUME NEW p, NEW j, UNCHANGED branch, Promised(p, j)  PROVE  Promised(p, j)'
  BY DEF Promised

\* What a step of one call must keep for the invariant to hold: the calls of the others, and what
\* they did and wrote down, stay what they are.
LEMMA OneCall ==
  ASSUME HubInv, NEW c \in HubUsers, NEW k \in HubRecords, hubCalls' = [hubCalls EXCEPT ![c] = k],
         k.job = hubCalls[c].job \/ hubCalls[c].pc = "idle", UNCHANGED branch, HubCallOK(c)',
         hubActs \subseteq hubActs', \A a \in hubActs' \ hubActs : a.by = c /\ ActGranted(a)',
         hubAudit \subseteq hubAudit', \A e \in hubAudit' \ hubAudit : e.by = c /\ (e.ok => Acted(c))
  PROVE  HubInv'
<1>1. hubCalls' \in [HubUsers -> HubRecords] /\ hubCalls'[c] = k /\ \A d \in HubUsers \ {c} : hubCalls'[d] = hubCalls[d]
  BY DEF HubInv
<1>2. ASSUME NEW d \in HubUsers \ {c}  PROVE  Acted(d)' <=> Acted(d)
  BY DEF Acted
<1>3. ASSUME NEW d \in HubUsers \ {c}  PROVE  Noted(d)' <=> Noted(d)
  BY DEF Noted
<1>4. ASSUME NEW d \in HubUsers  PROVE  HubCallOK(d)'
  <2>1. CASE d # c
    <3>1. HubCallOK(d) /\ hubCalls'[d] = hubCalls[d]
      BY <1>1, <2>1 DEF HubInv
    <3>2. \A p, j : Promised(p, j) => Promised(p, j)'
      BY PromisedKept
    <3>3. QED  BY <1>2, <1>3, <2>1, <3>1, <3>2 DEF HubCallOK
  <2>2. QED  BY <2>1
<1>5. ASSUME NEW a \in hubActs'  PROVE  ActGranted(a)'
  <2>1. CASE a \in hubActs
    <3>1. ActGranted(a) /\ a.by \in HubUsers
      BY <2>1 DEF HubInv, ActGranted
    <3>2. hubCalls[a.by].pc # "idle"
      BY <2>1, <3>1 DEF HubInv, HubCallOK, Acted
    <3>3. hubCalls'[a.by].job = hubCalls[a.by].job
      BY <1>1, <3>1, <3>2
    <3>4. QED  BY <3>1, <3>3 DEF ActGranted
  <2>2. QED  BY <2>1
<1>6. ASSUME NEW e \in hubAudit', e.ok  PROVE  Acted(e.by)'
  <2>1. Acted(e.by)
    BY <1>6 DEF HubInv
  <2>2. QED  BY <2>1 DEF Acted
<1>7. branch' \in [upstream : BOOLEAN, ahead : BOOLEAN]
  BY DEF HubInv
<1>8. QED  BY <1>1, <1>4, <1>5, <1>6, <1>7 DEF HubInv

\* A call that ends before the end of its plan has done nothing.
LEMMA EndKeeps ==
  ASSUME HubInv, NEW c \in HubUsers, NEW out \in HubOuts, HubEnd(c, out), UNCHANGED <<branch, hubAudit>>,
         hubCalls[c].pc # "idle", ~Acted(c)',
         hubActs \subseteq hubActs', \A a \in hubActs' \ hubActs : a.by = c /\ ActGranted(a)'
  PROVE  HubInv'
<1> DEFINE k == [hubCalls[c] EXCEPT !.pc = "end", !.out = out, !.plan = <<>>]
<1>1. hubCalls[c] \in HubRecords /\ hubCalls \in [HubUsers -> HubRecords]
  BY DEF HubInv
<1>2. k \in HubRecords /\ k.pc = "end" /\ k.out = out /\ k.plan = <<>> /\ k.job = hubCalls[c].job
  <2>1. <<>> \in Seq(PlanSteps)
    OBVIOUS
  <2>2. QED  BY <1>1, <2>1 DEF HubRecords
<1>3. hubCalls' = [hubCalls EXCEPT ![c] = k] /\ hubCalls'[c] = k
  BY <1>1 DEF HubEnd
<1>4. HubCallOK(c)'
  <2>1. Len(<<>>) = 0
    OBVIOUS
  <2>2. \A j : Promised(<<>>, j)'
    BY <2>1 DEF Promised
  <2>3. hubCalls'[c].pc = "end" /\ hubCalls'[c].plan = <<>> /\ hubCalls'[c].out = out
    BY <1>2, <1>3
  <2>4. \A i \in 1..Len(hubCalls'[c].plan) : FALSE
    BY <2>1, <2>3
  <2>5. QED  BY ONLY ~Acted(c)', <2>2, <2>3, <2>4 DEF HubCallOK
<1>5. QED  BY <1>2, <1>3, <1>4, OneCall

\* A call that goes on has its act done when that is what it went on from.
LEMMA GoesOnKeeps ==
  ASSUME HubInv, NEW c \in HubUsers, NEW ok \in BOOLEAN, On(c, ok), UNCHANGED <<branch, hubAudit>>,
         hubCalls[c].plan # <<>>, Head(hubCalls[c].plan) # "audit",
         Head(hubCalls[c].plan) = "gate" => Enabled,
         Head(hubCalls[c].plan) = "confirm" => Confirmed(hubCalls[c].job),
         Head(hubCalls[c].plan) = "pushed" => branch.upstream,
         hubActs \subseteq hubActs', \A a \in hubActs' \ hubActs : a.by = c /\ ActGranted(a)',
         Head(hubCalls[c].plan) # "act" => hubActs' = hubActs,
         Head(hubCalls[c].plan) = "act" /\ ok => Acted(c)'
  PROVE  HubInv'
<1> DEFINE h == hubCalls[c]
<1> DEFINE rest == Tail(h.plan)
<1> DEFINE k == [h EXCEPT !.plan = rest, !.ok = ok, !.tried = FALSE, !.pc = IF rest = <<>> THEN "end" ELSE "plan",
                          !.out = IF rest # <<>> THEN @ ELSE IF ok THEN "ok" ELSE "failed"]
<1>1. h \in HubRecords /\ hubCalls \in [HubUsers -> HubRecords] /\ HubCallOK(c)
  BY DEF HubInv
<1>2. h.plan \in Seq(PlanSteps) /\ h.pc \in {"plan", "lease", "run"} /\ Promised(h.plan, h.job)
  BY <1>1 DEF HubRecords, HubCallOK
<1>3. rest \in Seq(PlanSteps) /\ Promised(rest, h.job)
  BY <1>2, PlanGoesOn
<1>4. /\ k \in HubRecords /\ k.plan = rest /\ k.ok = ok /\ k.job = h.job
      /\ k.pc = (IF rest = <<>> THEN "end" ELSE "plan")
  BY <1>1, <1>3 DEF HubRecords, HubOuts
<1>5. hubCalls' = [hubCalls EXCEPT ![c] = k] /\ hubCalls'[c] = k
  BY <1>1 DEF On
<1>6. ~Acted(c)
  BY <1>1, <1>2 DEF HubCallOK
<1>7. \A p, j : Promised(p, j) => Promised(p, j)'
  BY PromisedKept
<1>8. \A i \in 1..Len(rest) : rest[i] = "act" => ~Acted(c)'
  <2>1. SUFFICES ASSUME NEW i \in 1..Len(rest), rest[i] = "act"  PROVE  ~Acted(c)'
    OBVIOUS
  <2>2. h.plan[i + 1] = "act" /\ i + 1 \in 1..Len(h.plan)
    BY <1>2, <2>1, PlanHead
  <2>3. i + 1 + 1 = Len(h.plan)
    BY <1>2, <2>2 DEF Promised
  <2>4. Head(h.plan) # "act"
    <3>1. ASSUME Head(h.plan) = "act"  PROVE  FALSE
      <4>1. h.plan[1] = "act" /\ 1 \in 1..Len(h.plan)
        BY <1>2, <3>1, PlanHead
      <4>2. 1 + 1 = Len(h.plan)
        BY <1>2, <4>1 DEF Promised
      <4>3. i \in Nat /\ i >= 1
        OBVIOUS
      <4>4. i + 1 + 1 = 1 + 1
        BY ONLY <2>3, <4>2
      <4>5. QED  BY ONLY <4>3, <4>4
    <3>2. QED  BY <3>1
  <2>5. QED  BY <1>6, <2>4 DEF Acted
<1>9. rest # <<>> /\ Head(rest) = "audit" => Head(h.plan) = "act"
  <2>1. SUFFICES ASSUME rest # <<>>, Head(rest) = "audit"  PROVE  Head(h.plan) = "act"
    OBVIOUS
  <2>2. h.plan[2] = "audit" /\ 2 \in 1..Len(h.plan) /\ Head(h.plan) = h.plan[1] /\ 2 - 1 = 1 /\ 2 # 1
    BY <1>2, <2>1, PlanHead
  <2>3. h.plan[2 - 1] = "act"
    BY <1>2, <2>2 DEF Promised
  <2>4. QED  BY <2>2, <2>3
<1>10. Head(h.plan) = "act" => rest # <<>> /\ Head(rest) = "audit"
  <2>1. SUFFICES ASSUME Head(h.plan) = "act"  PROVE  rest # <<>> /\ Head(rest) = "audit"
    OBVIOUS
  <2>2. h.plan[1] = "act" /\ 1 \in 1..Len(h.plan)
    BY <1>2, <2>1, PlanHead
  <2>3. 1 + 1 = Len(h.plan) /\ h.plan[1 + 1] = "audit"
    BY <1>2, <2>2 DEF Promised
  <2>4. Len(h.plan) = 2 /\ h.plan[2] = "audit"
    BY <2>3
  <2>5. rest # <<>>
    <3>1. Len(rest) = 1
      BY <1>2, <2>4
    <3>2. QED  BY <3>1, LongIsSome
  <2>6. QED  BY <1>2, <2>4, <2>5, PlanHead
<1>11. Acted(c)' => Head(h.plan) = "act"
  BY <1>6 DEF Acted
<1>12. HubCallOK(c)'
  <2>1. /\ hubCalls'[c].plan = rest /\ hubCalls'[c].ok = ok /\ hubCalls'[c].job = h.job
        /\ hubCalls'[c].pc = (IF rest = <<>> THEN "end" ELSE "plan")
    BY <1>4, <1>5
  <2>2. Promised(hubCalls[c].plan, hubCalls[c].job)'
    BY <1>3, <1>7, <2>1
  <2>3. \A i \in 1..Len(hubCalls'[c].plan) : hubCalls'[c].plan[i] = "act" => ~Acted(c)'
    BY <1>8, <2>1
  <2>4. hubCalls'[c].pc \in {"plan", "lease", "run"} <=> hubCalls'[c].plan # <<>>
    BY <2>1
  <2>5. hubCalls'[c].pc \notin {"idle", "lease", "run"}
    BY <2>1
  <2>6. hubCalls'[c].plan # <<>> /\ Head(hubCalls'[c].plan) = "audit" /\ hubCalls'[c].ok => Acted(c)'
    BY <1>9, <2>1
  <2>7. Acted(c)' => hubCalls'[c].plan # <<>> /\ Head(hubCalls'[c].plan) = "audit"
    BY <1>10, <1>11, <2>1
  <2>8. QED  BY ONLY <2>2, <2>3, <2>4, <2>5, <2>6, <2>7 DEF HubCallOK
<1>13. QED  BY <1>4, <1>5, <1>12, OneCall

\* A call that stays where its plan stands.
LEMMA StaysKeeps ==
  ASSUME HubInv, NEW c \in HubUsers, NEW pc \in {"plan", "lease", "run"}, NEW tried \in BOOLEAN,
         hubCalls' = [hubCalls EXCEPT ![c] = [hubCalls[c] EXCEPT !.pc = pc, !.tried = tried]],
         hubCalls[c].plan # <<>>, pc # "plan" => HubCommand(Head(hubCalls[c].plan)),
         UNCHANGED <<branch, hubActs, hubAudit>>
  PROVE  HubInv'
<1> DEFINE k == [hubCalls[c] EXCEPT !.pc = pc, !.tried = tried]
<1>1. hubCalls[c] \in HubRecords /\ hubCalls \in [HubUsers -> HubRecords] /\ HubCallOK(c)
  BY DEF HubInv
<1>2. /\ k \in HubRecords /\ k.pc = pc /\ k.plan = hubCalls[c].plan /\ k.job = hubCalls[c].job
      /\ k.ok = hubCalls[c].ok /\ k.out = hubCalls[c].out
  BY <1>1 DEF HubRecords
<1>3. hubCalls'[c] = k
  BY <1>1
<1>4. HubCallOK(c)'
  <2>1. /\ hubCalls'[c].pc = pc /\ hubCalls'[c].plan = hubCalls[c].plan /\ hubCalls'[c].job = hubCalls[c].job
        /\ hubCalls'[c].ok = hubCalls[c].ok
    BY <1>2, <1>3
  <2>2. (Acted(c)' <=> Acted(c)) /\ (Noted(c)' <=> Noted(c))
    BY DEF Acted, Noted
  <2>3. \A p, j : Promised(p, j) => Promised(p, j)'
    BY PromisedKept
  <2>4. Promised(hubCalls[c].plan, hubCalls[c].job)'
    BY <1>1, <2>1, <2>3 DEF HubCallOK
  <2>5. hubCalls'[c].plan # <<>> /\ (hubCalls'[c].pc \in {"lease", "run"} => HubCommand(Head(hubCalls'[c].plan)))
    BY <2>1
  <2>6. QED  BY <1>1, <2>1, <2>2, <2>4, <2>5 DEF HubCallOK
<1>5. QED  BY <1>1, <1>2, <1>4, OneCall

\* Between its question and its answer a call has acted only when its audit is next.
LEMMA NotYet ==
  ASSUME HubInv, NEW c \in HubUsers, hubCalls[c].pc \in {"plan", "lease", "run"}
  PROVE  /\ hubCalls[c].plan # <<>> /\ hubCalls[c] \in HubRecords /\ hubCalls[c].plan \in Seq(PlanSteps)
         /\ Head(hubCalls[c].plan) # "audit" => ~Acted(c)
         /\ hubCalls[c].pc # "plan" => HubCommand(Head(hubCalls[c].plan))
  BY DEF HubInv, HubCallOK, HubRecords

\* What the first step of a plan does on GitHub was granted, and is the first the call does.
LEMMA ActIsGranted ==
  ASSUME HubInv, NEW c \in HubUsers, hubCalls[c].pc = "run", ActOnHub(c), hubCalls'[c].job = hubCalls[c].job,
         UNCHANGED branch
  PROVE  /\ hubActs \subseteq hubActs' /\ \A a \in hubActs' \ hubActs : a.by = c /\ ActGranted(a)'
         /\ Head(hubCalls[c].plan) # "act" => hubActs' = hubActs
         /\ Head(hubCalls[c].plan) = "act" => Acted(c)'
<1> DEFINE p == hubCalls[c].plan
<1> DEFINE act == [by |-> c, nth |-> Cardinality({a \in hubActs : a.by = c}), stale |-> ~branch.upstream]
<1>1. CASE Head(p) # "act"
  BY <1>1 DEF ActOnHub, Head1
<1>2. CASE Head(p) = "act"
  <2>1. hubActs' = hubActs \union {act}
    BY <1>2 DEF ActOnHub, Head1
  <2>2. p # <<>> /\ p \in Seq(PlanSteps) /\ ~Acted(c) /\ Promised(p, hubCalls[c].job)
    BY <1>2, NotYet DEF HubInv, HubCallOK
  <2>3. p[1] = "act" /\ 1 \in 1..Len(p)
    BY <1>2, <2>2, PlanHead
  <2>4. /\ Writes(hubCalls[c].job) /\ Enabled /\ Confirmed(hubCalls[c].job)
        /\ hubCalls[c].job.tool = "gh_pr_create" => "dry" \notin hubCalls[c].job.opts /\ branch.upstream
    <3>1. \A n \in 1..1 : p[n] \notin {"gate", "confirm", "pushed"}
      BY <2>3
    <3>2. QED  BY <2>2, <2>3, <3>1 DEF Promised
  <2>5. act.nth = 0
    <3>1. {a \in hubActs : a.by = c} = {}
      BY <2>2 DEF Acted
    <3>2. QED  BY <3>1, FS_EmptySet
  <2>6. act.by = c /\ (act.stale <=> ~branch.upstream)
    OBVIOUS
  <2>7. \A a \in hubActs' \ hubActs : a = act
    BY <2>1
  <2>8. \A a \in hubActs' \ hubActs : a.by = c /\ a.nth = 0 /\ (a.stale <=> ~branch.upstream)
    BY <2>5, <2>6, <2>7
  <2>9. \A a \in hubActs' \ hubActs : ActGranted(a)'
    BY <2>4, <2>8 DEF ActGranted
  <2>10. Acted(c)'
    BY <2>1, <2>6 DEF Acted
  <2>11. QED  BY <1>2, <2>1, <2>8, <2>9, <2>10
<1>3. QED  BY <1>1, <1>2

\* What a failure does to a plan.
LEMMA FailureKeeps ==
  ASSUME HubInv, NEW c \in HubUsers, NEW out \in HubOuts, CommandFailed(c, out), UNCHANGED <<branch, hubAudit>>,
         hubCalls[c].pc \in {"plan", "run"}, HubCommand(Head(hubCalls[c].plan)),
         hubActs \subseteq hubActs', \A a \in hubActs' \ hubActs : a.by = c /\ ActGranted(a)',
         Head(hubCalls[c].plan) # "act" => hubActs' = hubActs
  PROVE  HubInv'
<1> DEFINE x == Head(hubCalls[c].plan)
<1>1. hubCalls[c].plan # <<>> /\ x # "audit" /\ ~Acted(c) /\ hubCalls[c] \in HubRecords
  BY NotYet DEF HubCommand, Optional
<1>2. x \notin {"gate", "confirm", "pushed"}
  BY DEF HubCommand, Optional
<1>3. CASE x = "act"
  <2>1. On(c, FALSE)
    BY <1>3 DEF CommandFailed, Head1
  <2>2. QED  BY <1>1, <1>2, <2>1, GoesOnKeeps
<1>4. CASE Optional(x)
  <2>1. On(c, TRUE) /\ x # "act"
    BY <1>4 DEF CommandFailed, Head1, Optional
  <2>2. QED  BY <1>1, <1>2, <2>1, GoesOnKeeps
<1>5. CASE x # "act" /\ ~Optional(x)
  <2>1. hubActs' = hubActs
    BY <1>5
  <2>2. CASE x = "checks=" /\ ~hubCalls[c].tried
    <3>1. hubCalls' = [hubCalls EXCEPT ![c].pc = "plan", ![c].tried = TRUE]
      BY <1>5, <2>2 DEF CommandFailed, Head1
    <3>2. hubCalls' = [hubCalls EXCEPT ![c] = [hubCalls[c] EXCEPT !.pc = "plan", !.tried = TRUE]]
      BY <3>1
    <3>3. QED  BY <1>1, <2>1, <3>2, StaysKeeps
  <2>3. CASE ~(x = "checks=" /\ ~hubCalls[c].tried)
    <3>1. HubEnd(c, out)
      BY <1>5, <2>3 DEF CommandFailed, Head1
    <3>2. ~Acted(c)'
      BY <1>1, <2>1 DEF Acted
    <3>3. QED  BY <2>1, <3>1, <3>2, EndKeeps
  <2>4. QED  BY <2>2, <2>3
<1>6. QED  BY <1>3, <1>4, <1>5

\* A step of its plan that is no command: it goes on or it ends.
LEMMA LooksKeep ==
  ASSUME HubInv, NEW c \in HubUsers, NEW out \in HubOuts, hubCalls[c].pc = "plan",
         \/ /\ On(c, TRUE)
            /\ Head(hubCalls[c].plan) = "gate" => Enabled
            /\ Head(hubCalls[c].plan) = "confirm" => Confirmed(hubCalls[c].job)
            /\ Head(hubCalls[c].plan) = "pushed" => branch.upstream
         \/ HubEnd(c, out),
         Head(hubCalls[c].plan) \notin {"act", "audit"}, UNCHANGED <<branch, hubActs, hubAudit>>
  PROVE  HubInv'
<1>1. hubCalls[c].plan # <<>> /\ ~Acted(c)
  BY NotYet
<1>2. CASE ~HubEnd(c, out)
  BY <1>1, <1>2, GoesOnKeeps
<1>3. CASE HubEnd(c, out)
  <2>1. ~Acted(c)'
    BY <1>1 DEF Acted
  <2>2. QED  BY <1>3, <2>1, EndKeeps
<1>4. QED  BY <1>2, <1>3

LEMMA JobStays ==
  ASSUME HubInv, NEW c \in HubUsers, NEW ok, NEW out, On(c, ok) \/ HubEnd(c, out) \/ CommandFailed(c, out)
  PROVE  hubCalls'[c].job = hubCalls[c].job
<1>1. hubCalls[c] \in HubRecords /\ hubCalls \in [HubUsers -> HubRecords]
  BY DEF HubInv
<1>2. On(c, TRUE) \/ On(c, FALSE) \/ On(c, ok) => hubCalls'[c].job = hubCalls[c].job
  <2>1. ASSUME NEW x, On(c, x)  PROVE  hubCalls'[c].job = hubCalls[c].job
    BY <1>1, <2>1 DEF HubRecords, On
  <2>2. QED  BY <2>1
<1>3. HubEnd(c, out) => hubCalls'[c].job = hubCalls[c].job
  BY <1>1 DEF HubRecords, HubEnd
<1>4. hubCalls' = [hubCalls EXCEPT ![c].pc = "plan", ![c].tried = TRUE] => hubCalls'[c].job = hubCalls[c].job
  BY <1>1 DEF HubRecords
<1>5. QED  BY <1>2, <1>3, <1>4 DEF CommandFailed

LEMMA AskKeeps == ASSUME HubInv, NEW c \in HubUsers, Ask(c)  PROVE  HubInv'
<1>1. hubCalls[c] \in HubRecords /\ hubCalls \in [HubUsers -> HubRecords] /\ HubCallOK(c) /\ hubCalls[c].pc = "idle"
  BY DEF HubInv, Ask
<1>2. PICK j \in HubWanted : hubCalls' = [hubCalls EXCEPT ![c].job = j, ![c].plan = HubPlan(j), ![c].pc = "plan"]
  BY DEF Ask
<1> DEFINE k == [hubCalls[c] EXCEPT !.job = j, !.plan = HubPlan(j), !.pc = "plan"]
<1>3. HubPlan(j) \in Seq(PlanSteps) /\ HubPlan(j) # <<>> /\ Promised(HubPlan(j), j)
  BY PlansPromise
<1>4. k \in HubRecords /\ k.pc = "plan" /\ k.plan = HubPlan(j) /\ k.job = j /\ k.ok = hubCalls[c].ok
  BY <1>1, <1>3 DEF HubRecords
<1>5. hubCalls' = [hubCalls EXCEPT ![c] = k] /\ hubCalls'[c] = k
  BY <1>1, <1>2
<1>6. UNCHANGED <<branch, hubActs, hubAudit>>
  BY DEF Ask
<1>7. HubCallOK(c)'
  <2>1. /\ hubCalls'[c].pc = "plan" /\ hubCalls'[c].plan = HubPlan(j) /\ hubCalls'[c].job = j
        /\ hubCalls'[c].ok = hubCalls[c].ok
    BY <1>4, <1>5
  <2>2. ~Acted(c)' /\ ~hubCalls[c].ok
    BY <1>1, <1>6 DEF HubCallOK, Acted
  <2>3. Promised(hubCalls[c].plan, hubCalls[c].job)'
    <3>1. \A p, i : Promised(p, i) => Promised(p, i)'
      BY <1>6, PromisedKept
    <3>2. QED  BY <1>3, <2>1, <3>1
  <2>4. hubCalls'[c].plan # <<>>
    BY <1>3, <2>1
  <2>5. QED  BY ONLY <2>1, <2>2, <2>3, <2>4 DEF HubCallOK
<1>8. QED  BY <1>1, <1>4, <1>5, <1>6, <1>7, OneCall

LEMMA AuditKeeps == ASSUME HubInv, NEW c \in HubUsers, AuditAct(c)  PROVE  HubInv'
<1> DEFINE h == hubCalls[c]
<1> DEFINE k == [h EXCEPT !.plan = <<>>, !.tried = FALSE, !.pc = "end", !.out = IF h.ok THEN "ok" ELSE "failed"]
<1>1. /\ h \in HubRecords /\ hubCalls \in [HubUsers -> HubRecords] /\ HubCallOK(c)
      /\ h.pc = "plan" /\ Head(h.plan) = "audit" /\ h.plan # <<>> /\ h.plan \in Seq(PlanSteps)
  BY NotYet DEF HubInv, AuditAct, AtStep, Head1
<1>2. Len(h.plan) = 1
  <2>1. h.plan[1] = "audit" /\ 1 \in 1..Len(h.plan)
    BY <1>1, PlanHead
  <2>2. QED  BY <1>1, <2>1 DEF HubCallOK, Promised
<1>3. Tail(h.plan) = <<>>
  <2>1. \A s \in Seq(PlanSteps) : Len(s) = 0 => s = <<>>
    OBVIOUS
  <2>2. Tail(h.plan) \in Seq(PlanSteps) /\ Len(Tail(h.plan)) = Len(h.plan) - 1
    BY <1>1
  <2>3. Len(Tail(h.plan)) = 0
    BY <1>2, <2>2
  <2>4. QED  BY <2>1, <2>2, <2>3
<1>4. k \in HubRecords /\ k.pc = "end" /\ k.plan = <<>> /\ k.job = h.job
  <2>1. <<>> \in Seq(PlanSteps)
    OBVIOUS
  <2>2. QED  BY <1>1, <2>1 DEF HubRecords, HubOuts
<1>5. hubCalls' = [hubCalls EXCEPT ![c] = k] /\ hubCalls'[c] = k
  BY <1>1, <1>3 DEF AuditAct, On
<1>6. hubAudit' = hubAudit \union {[by |-> c, ok |-> h.ok]} /\ UNCHANGED <<branch, hubActs>>
  BY DEF AuditAct
<1>7. \A e \in hubAudit' \ hubAudit : e.by = c /\ (e.ok => Acted(c))
  BY <1>1, <1>6 DEF HubCallOK
<1>8. HubCallOK(c)'
  <2>1. hubCalls'[c].pc = "end" /\ hubCalls'[c].plan = <<>>
    BY <1>4, <1>5
  <2>2. Noted(c)'
    <3>1. [by |-> c, ok |-> h.ok] \in hubAudit' /\ [by |-> c, ok |-> h.ok].by = c
      BY <1>6
    <3>2. QED  BY <3>1 DEF Noted
  <2>3. Len(<<>>) = 0
    OBVIOUS
  <2>4. \A j : Promised(<<>>, j)'
    BY <2>3 DEF Promised
  <2>5. \A i \in 1..Len(hubCalls'[c].plan) : FALSE
    BY <2>1, <2>3
  <2>6. QED  BY ONLY <2>1, <2>2, <2>4, <2>5 DEF HubCallOK
<1>9. QED  BY <1>4, <1>5, <1>6, <1>7, <1>8, OneCall

LEMMA RunKeeps == ASSUME HubInv, NEW c \in HubUsers, Run(c)  PROVE  HubInv'
<1> DEFINE x == Head(hubCalls[c].plan)
<1>1. /\ hubCalls[c].plan # <<>> /\ HubCommand(x) /\ x # "audit" /\ ~Acted(c) /\ hubCalls[c].pc = "run"
      /\ UNCHANGED <<branch, hubAudit>>
  BY NotYet DEF Run, HubCommand, Optional
<1>2. x \notin {"gate", "confirm", "pushed"}
  BY <1>1 DEF HubCommand, Optional
<1> DEFINE Granted1 == /\ hubActs \subseteq hubActs' /\ \A a \in hubActs' \ hubActs : a.by = c /\ ActGranted(a)'
                       /\ x # "act" => hubActs' = hubActs
<1>3. ASSUME NEW ok, NEW out, On(c, ok) \/ HubEnd(c, out) \/ CommandFailed(c, out), ActOnHub(c) \/ UNCHANGED hubActs
      PROVE  Granted1
  BY <1>1, <1>3, JobStays, ActIsGranted
<1>4. ASSUME NEW out, On(c, TRUE) \/ HubEnd(c, out), ActOnHub(c)  PROVE  x = "act" => Acted(c)'
  BY <1>1, <1>4, JobStays, ActIsGranted
<1>5. ASSUME NEW whole \in BOOLEAN, Parsed(c, whole), ActOnHub(c)  PROVE  HubInv'
  <2>1. CASE On(c, TRUE)
    <3>1. Granted1 /\ (x = "act" => Acted(c)')
      BY <1>3, <1>4, <1>5, <2>1
    <3>2. QED  BY <1>1, <1>2, <2>1, <3>1, GoesOnKeeps
  <2>2. CASE ~On(c, TRUE)
    <3>1. PICK out \in HubOuts : HubEnd(c, out) /\ x # "act"
      BY <1>5, <2>2 DEF Parsed, Head1, HubOuts
    <3>2. hubActs' = hubActs
      BY <1>5, <3>1 DEF ActOnHub, Head1
    <3>3. ~Acted(c)'
      BY <1>1, <3>2 DEF Acted
    <3>4. QED  BY <1>1, <3>1, <3>2, <3>3, EndKeeps
  <2>3. QED  BY <2>1, <2>2
<1>6. ASSUME NEW out \in HubOuts, CommandFailed(c, out), ActOnHub(c) \/ UNCHANGED hubActs  PROVE  HubInv'
  <2>1. Granted1
    BY <1>3, <1>6
  <2>2. QED  BY <1>1, <1>6, <2>1, FailureKeeps
<1>7. {"gh_command_failed", "gh_not_authenticated", "gh_timeout"} \subseteq HubOuts
  BY DEF HubOuts
<1>8. \/ \E whole \in BOOLEAN : Parsed(c, whole) /\ ActOnHub(c)
      \/ \E out \in HubOuts : CommandFailed(c, out) /\ (ActOnHub(c) \/ UNCHANGED hubActs)
  BY <1>7 DEF Run
<1>9. QED  BY <1>5, <1>6, <1>8

LEMMA HubOwnerKeeps == ASSUME HubInv, HubOwner  PROVE  HubInv'
<1>1. branch' \in [upstream : BOOLEAN, ahead : BOOLEAN] /\ (branch.upstream => branch'.upstream)
      /\ UNCHANGED <<hubCalls, hubActs, hubAudit>>
  <2>1. branch \in [upstream : BOOLEAN, ahead : BOOLEAN] /\ UNCHANGED <<hubCalls, hubActs, hubAudit>>
    BY DEF HubInv, HubOwner
  <2>2. \/ branch' = branch \/ branch' = [branch EXCEPT !.ahead = TRUE]
        \/ branch' = [upstream |-> TRUE, ahead |-> FALSE]
    BY DEF HubOwner
  <2>3. [branch EXCEPT !.ahead = TRUE] \in [upstream : BOOLEAN, ahead : BOOLEAN]
        /\ [branch EXCEPT !.ahead = TRUE].upstream = branch.upstream
    BY <2>1
  <2>4. [upstream |-> TRUE, ahead |-> FALSE] \in [upstream : BOOLEAN, ahead : BOOLEAN]
        /\ [upstream |-> TRUE, ahead |-> FALSE].upstream
    OBVIOUS
  <2>5. branch' \in [upstream : BOOLEAN, ahead : BOOLEAN]
    BY <2>1, <2>2, <2>3, <2>4
  <2>6. branch.upstream => branch'.upstream
    BY <2>2, <2>3, <2>4
  <2>7. QED  BY <2>1, <2>5, <2>6
<1>2. \A p, j : Promised(p, j) => Promised(p, j)'
  <2>1. SUFFICES ASSUME NEW p, NEW j, Promised(p, j)  PROVE  Promised(p, j)'
    OBVIOUS
  <2>2. QED  BY <1>1, <2>1 DEF Promised
<1>3. ASSUME NEW c \in HubUsers  PROVE  HubCallOK(c)'
  <2>1. HubCallOK(c) /\ (Acted(c)' <=> Acted(c)) /\ (Noted(c)' <=> Noted(c))
    BY <1>1 DEF HubInv, Acted, Noted
  <2>2. QED  BY <1>1, <1>2, <2>1 DEF HubCallOK
<1>4. \A a \in hubActs' : ActGranted(a)'
  BY <1>1 DEF HubInv, ActGranted
<1>5. \A e \in hubAudit' : e.ok => Acted(e.by)'
  BY <1>1 DEF HubInv, Acted
<1>6. QED  BY <1>1, <1>3, <1>4, <1>5 DEF HubInv

LEMMA HubStep == ASSUME HubInv, [HubNext]_hubVars  PROVE  HubInv'
<1>1. CASE UNCHANGED hubVars
  <2>1. UNCHANGED <<branch, hubCalls, hubActs, hubAudit>>
    BY <1>1 DEF hubVars
  <2>2. \A p, j : Promised(p, j) => Promised(p, j)'
    BY <2>1, PromisedKept
  <2>3. ASSUME NEW c \in HubUsers  PROVE  HubCallOK(c)'
    <3>1. HubCallOK(c) /\ (Acted(c)' <=> Acted(c)) /\ (Noted(c)' <=> Noted(c))
      BY <2>1 DEF HubInv, Acted, Noted
    <3>2. QED  BY <2>1, <2>2, <3>1 DEF HubCallOK
  <2>4. \A a \in hubActs' : ActGranted(a)'
    BY <2>1 DEF HubInv, ActGranted
  <2>5. \A e \in hubAudit' : e.ok => Acted(e.by)'
    BY <2>1 DEF HubInv, Acted
  <2>6. branch' \in [upstream : BOOLEAN, ahead : BOOLEAN] /\ hubCalls' \in [HubUsers -> HubRecords]
    BY <2>1 DEF HubInv
  <2>7. QED  BY <2>3, <2>4, <2>5, <2>6 DEF HubInv
<1>2. CASE HubOwner
  BY <1>2, HubOwnerKeeps
<1>3. ASSUME NEW c \in HubUsers, Ask(c)  PROVE  HubInv'
  BY <1>3, AskKeeps
<1>4. ASSUME NEW c \in HubUsers, Gate(c)  PROVE  HubInv'
  <2>1. "github_tools_disabled" \in HubOuts
    BY DEF HubOuts
  <2>2. QED  BY <1>4, <2>1, LooksKeep DEF Gate, AtStep, Head1
<1>5. ASSUME NEW c \in HubUsers, Argument(c)  PROVE  HubInv'
  <2>1. "bad_argument" \in HubOuts
    BY DEF HubOuts
  <2>2. QED  BY <1>5, <2>1, LooksKeep DEF Argument, AtStep, Head1
<1>6. ASSUME NEW c \in HubUsers, Ready(c)  PROVE  HubInv'
  <2>1. {"gh_unavailable", "gh_not_authenticated"} \subseteq HubOuts
    BY DEF HubOuts
  <2>2. QED  BY <1>6, <2>1, LooksKeep DEF Ready, AtStep, Head1
<1>7. ASSUME NEW c \in HubUsers, Pushed(c)  PROVE  HubInv'
  <2>1. "branch_not_pushed" \in HubOuts
    BY DEF HubOuts
  <2>2. QED  BY <1>7, <2>1, LooksKeep DEF Pushed, AtStep, Head1
<1>8. ASSUME NEW c \in HubUsers, Confirm(c)  PROVE  HubInv'
  <2>1. "confirmation_required" \in HubOuts
    BY DEF HubOuts
  <2>2. QED  BY <1>8, <2>1, LooksKeep DEF Confirm, AtStep, Head1
<1>9. ASSUME NEW c \in HubUsers, Probe(c)  PROVE  HubInv'
  <2>1. /\ hubCalls[c].pc = "plan" /\ HubCommand(Head(hubCalls[c].plan)) /\ UNCHANGED <<branch, hubActs, hubAudit>>
        /\ hubCalls[c] \in HubRecords /\ hubCalls[c].plan # <<>> /\ hubCalls \in [HubUsers -> HubRecords]
    BY <1>9, NotYet DEF Probe, Head1, HubInv
  <2>2. CASE gh.installed
    <3>1. hubCalls' = [hubCalls EXCEPT ![c] = [hubCalls[c] EXCEPT !.pc = "lease", !.tried = hubCalls[c].tried]]
      BY <1>9, <2>1, <2>2 DEF Probe, HubRecords
    <3>2. hubCalls[c].tried \in BOOLEAN
      BY <2>1 DEF HubRecords
    <3>3. QED  BY <2>1, <3>1, <3>2, StaysKeeps
  <2>3. CASE ~gh.installed
    <3>1. CommandFailed(c, "gh_unavailable") /\ "gh_unavailable" \in HubOuts
      BY <1>9, <2>3 DEF Probe, HubOuts
    <3>2. QED  BY <2>1, <3>1, FailureKeeps
  <2>4. QED  BY <2>2, <2>3
<1>10. ASSUME NEW c \in HubUsers, Lease(c)  PROVE  HubInv'
  <2>1. /\ hubCalls[c].pc = "lease" /\ UNCHANGED <<branch, hubActs, hubAudit>> /\ HubCommand(Head(hubCalls[c].plan))
        /\ hubCalls[c] \in HubRecords /\ hubCalls[c].plan # <<>> /\ hubCalls \in [HubUsers -> HubRecords] /\ ~Acted(c)
    BY <1>10, NotYet DEF Lease, HubInv, HubCommand, Optional
  <2>2. CASE hubCalls' = [hubCalls EXCEPT ![c].pc = "run"]
    <3>1. hubCalls' = [hubCalls EXCEPT ![c] = [hubCalls[c] EXCEPT !.pc = "run", !.tried = hubCalls[c].tried]]
      BY <2>1, <2>2 DEF HubRecords
    <3>2. hubCalls[c].tried \in BOOLEAN
      BY <2>1 DEF HubRecords
    <3>3. QED  BY <2>1, <3>1, <3>2, StaysKeeps
  <2>3. CASE HubEnd(c, "raised")
    <3>1. "raised" \in HubOuts /\ ~Acted(c)'
      BY <2>1 DEF HubOuts, Acted
    <3>2. QED  BY <2>1, <2>3, <3>1, EndKeeps
  <2>4. QED  BY <1>10, <2>2, <2>3 DEF Lease
<1>11. ASSUME NEW c \in HubUsers, Run(c)  PROVE  HubInv'
  BY <1>11, RunKeeps
<1>12. ASSUME NEW c \in HubUsers, AuditAct(c)  PROVE  HubInv'
  BY <1>12, AuditKeeps
<1>13. QED
  BY <1>1, <1>2, <1>3, <1>4, <1>5, <1>6, <1>7, <1>8, <1>9, <1>10, <1>11, <1>12 DEF HubNext

LEMMA HubStart == HubInit => HubInv
<1> SUFFICES ASSUME HubInit  PROVE  HubInv
  OBVIOUS
<1>1. <<>> \in Seq(PlanSteps) /\ Len(<<>>) = 0
  OBVIOUS
<1>2. hubCalls \in [HubUsers -> HubRecords]
  BY <1>1 DEF HubInit, HubRecords, HubOuts
<1>3. \A j : Promised(<<>>, j)
  BY <1>1 DEF Promised
<1>4. ASSUME NEW c \in HubUsers  PROVE  HubCallOK(c)
  <2>1. hubCalls[c].pc = "idle" /\ hubCalls[c].plan = <<>> /\ ~hubCalls[c].ok /\ ~Acted(c)
    BY DEF HubInit, Acted
  <2>2. \A i \in 1..Len(hubCalls[c].plan) : FALSE
    BY <1>1, <2>1
  <2>3. QED  BY ONLY <1>3, <2>1, <2>2 DEF HubCallOK
<1>5. QED  BY <1>2, <1>4 DEF HubInit, HubInv

\* Every call on GitHub is where its plan can be, and what it did was granted and is written down.
THEOREM HubInvariant == HubSpec => []HubInv
<1>1. HubInv /\ [HubNext]_hubVars => HubInv'
  BY HubStep
<1>2. QED  BY <1>1, HubStart, PTL DEF HubSpec

\* What a call did on GitHub is in the audit log once it is answered, and the log calls nothing
\* done that was not: _audit_gh follows the act in every plan, whatever gh answered.
THEOREM ActsAreAudited == HubSpec => []ActsAudited
<1>1. HubInv => ActsAudited
  <2>1. ASSUME HubInv, NEW a \in hubActs, hubCalls[a.by].pc = "end"  PROVE  \E e \in hubAudit : e.by = a.by
    <3>1. a.by \in HubUsers
      BY <2>1 DEF HubInv, ActGranted
    <3>2. HubCallOK(a.by) /\ Acted(a.by)
      BY <2>1, <3>1 DEF HubInv, Acted
    <3>3. QED  BY <2>1, <3>2 DEF HubCallOK, Noted
  <2>2. QED  BY <2>1 DEF HubInv, Acted, ActsAudited
<1>2. QED  BY <1>1, HubInvariant, PTL

\* A call acts on GitHub at most once, confirmed, by a tool that may, never as a preview, and a
\* pull request is made of no branch without an upstream: the plans ask before the act, and what
\* they asked stays so.
THEOREM ActsAreGranted == HubSpec => []ActsAsGranted
<1>1. HubInv => ActsAsGranted
  BY DEF HubInv, ActGranted, ActsAsGranted
<1>2. QED  BY <1>1, HubInvariant, PTL
-----------------------------------------------------------------------------
(* Transfers: downloads.                                                    *)

DownloadPcs == {"idle", "connect", "chunk", "link", "linked", "late"}
Downloading == [pc : DownloadPcs, got : 0..MaxChunks]
Fetching == {"chunk", "link", "linked", "late"}

\* A download is typed, and has its temporary file only while it works on it.
DownloadInv ==
    /\ downloads \in [Loaders -> Downloading]
    /\ target \in {"none", "other"} \union Loaders /\ temps \subseteq Loaders /\ loadCrashes \in 0..Restarts
    /\ loadCrashes = 0 => \A c \in temps : downloads[c].pc \in Fetching

\* What a place of a download may be changed to.
LEMMA DownloadPlaces ==
  ASSUME DownloadInv, NEW c \in Loaders
  PROVE  /\ MaxChunks \in Nat /\ Restarts \in Nat /\ NoDownload \in Downloading /\ NoDownload.pc = "idle"
         /\ downloads \in [Loaders -> Downloading] /\ downloads[c].got \in Nat
         /\ \A p \in DownloadPcs : LoadTo(c, p) => downloads' \in [Loaders -> Downloading]
         /\ LoadEnd(c) => downloads' \in [Loaders -> Downloading]
<1>1. MaxChunks \in Nat /\ Restarts \in Nat
  BY TransfersAssumption
<1>2. downloads \in [Loaders -> Downloading] /\ downloads[c] \in Downloading /\ downloads[c].got \in Nat
  BY <1>1 DEF DownloadInv, Downloading
<1>3. NoDownload \in Downloading /\ NoDownload.pc = "idle"
  BY <1>1 DEF NoDownload, Downloading, DownloadPcs
<1>4. \A p \in DownloadPcs : LoadTo(c, p) => downloads' \in [Loaders -> Downloading]
  BY <1>2 DEF LoadTo, Downloading
<1>5. LoadEnd(c) => downloads' \in [Loaders -> Downloading]
  BY <1>2, <1>3 DEF LoadEnd
<1>6. QED  BY <1>1, <1>2, <1>3, <1>4, <1>5

\* Every step of a download keeps it so.
LEMMA DownloadStepInv ==
  ASSUME DownloadInv, [DownloadNext]_downloadVars  PROVE  DownloadInv'
<1>1. MaxChunks \in Nat /\ Restarts \in Nat
  BY TransfersAssumption
<1>2. ASSUME NEW c \in Loaders, Receive(c)  PROVE  DownloadInv'
  <2>1. downloads' \in [Loaders -> Downloading]
    BY <1>1, <1>2, DownloadPlaces DEF Receive, DownloadPcs, DownloadInv
  <2>2. downloads' = [downloads EXCEPT ![c] = downloads'[c]] /\ loadCrashes' = loadCrashes
    BY <1>2 DEF Receive, LoadTo, DownloadInv
  <2>3. (\A d \in temps' : d \in temps \/ (d = c /\ downloads'[c].pc \in Fetching))
        /\ (c \in temps' /\ downloads[c].pc \in Fetching => downloads'[c].pc \in Fetching)
    BY <1>2, <2>2 DEF Receive, LoadTo, Fetching, DownloadInv
  <2>4. target' \in {"none", "other"} \union Loaders /\ temps' \subseteq Loaders
    BY <1>2 DEF Receive, DownloadInv
  <2>5. QED  BY <2>1, <2>2, <2>3, <2>4 DEF DownloadInv
<1>3. ASSUME NEW c \in Loaders, Connect(c)  PROVE  DownloadInv'
  <2>1. downloads' \in [Loaders -> Downloading]
    BY <1>1, <1>3, DownloadPlaces DEF Connect, DownloadPcs, Downloading, DownloadInv
  <2>2. downloads' = [downloads EXCEPT ![c] = downloads'[c]] /\ loadCrashes' = loadCrashes
    BY <1>3 DEF Connect, LoadEnd, DownloadInv
  <2>3. (\A d \in temps' : d \in temps \/ (d = c /\ downloads'[c].pc \in Fetching))
        /\ (c \in temps' /\ downloads[c].pc \in Fetching => downloads'[c].pc \in Fetching)
    BY <1>3, <2>2 DEF Connect, LoadEnd, NoDownload, Fetching, Downloading, DownloadInv
  <2>4. target' \in {"none", "other"} \union Loaders /\ temps' \subseteq Loaders
    BY <1>3 DEF Connect, DownloadInv
  <2>5. QED  BY <2>1, <2>2, <2>3, <2>4 DEF DownloadInv
<1>4. ASSUME NEW c \in Loaders, Chunk(c)  PROVE  DownloadInv'
  <2>1. downloads' \in [Loaders -> Downloading]
    BY <1>1, <1>4, DownloadPlaces DEF Chunk, DownloadPcs, Downloading, DownloadInv
  <2>2. downloads' = [downloads EXCEPT ![c] = downloads'[c]] /\ loadCrashes' = loadCrashes
    BY <1>4 DEF Chunk, LoadTo, LoadEnd, DownloadInv
  <2>3. (\A d \in temps' : d \in temps \/ (d = c /\ downloads'[c].pc \in Fetching))
        /\ (c \in temps' /\ downloads[c].pc \in Fetching => downloads'[c].pc \in Fetching)
    BY <1>4, <2>2 DEF Chunk, LoadTo, LoadEnd, NoDownload, Fetching, Downloading, DownloadInv
  <2>4. target' \in {"none", "other"} \union Loaders /\ temps' \subseteq Loaders
    BY <1>4 DEF Chunk, DownloadInv
  <2>5. QED  BY <2>1, <2>2, <2>3, <2>4 DEF DownloadInv
<1>5. ASSUME NEW c \in Loaders, Link(c)  PROVE  DownloadInv'
  <2>1. downloads' \in [Loaders -> Downloading]
    BY <1>1, <1>5, DownloadPlaces DEF Link, DownloadPcs, DownloadInv
  <2>2. downloads' = [downloads EXCEPT ![c] = downloads'[c]] /\ loadCrashes' = loadCrashes
    BY <1>5 DEF Link, LoadTo, DownloadInv
  <2>3. (\A d \in temps' : d \in temps \/ (d = c /\ downloads'[c].pc \in Fetching))
        /\ (c \in temps' /\ downloads[c].pc \in Fetching => downloads'[c].pc \in Fetching)
    BY <1>5, <2>2 DEF Link, LoadTo, Fetching, Downloading, DownloadInv
  <2>4. target' \in {"none", "other"} \union Loaders /\ temps' \subseteq Loaders
    BY <1>5 DEF Link, DownloadInv
  <2>5. QED  BY <2>1, <2>2, <2>3, <2>4 DEF DownloadInv
<1>6. ASSUME NEW c \in Loaders, Linked(c)  PROVE  DownloadInv'
  <2>1. downloads' \in [Loaders -> Downloading]
    BY <1>1, <1>6, DownloadPlaces DEF Linked, DownloadPcs, DownloadInv
  <2>2. downloads' = [downloads EXCEPT ![c] = downloads'[c]] /\ loadCrashes' = loadCrashes
    BY <1>6 DEF Linked, LoadEnd, DownloadInv
  <2>3. (\A d \in temps' : d \in temps \/ (d = c /\ downloads'[c].pc \in Fetching))
        /\ (c \in temps' /\ downloads[c].pc \in Fetching => downloads'[c].pc \in Fetching)
    BY <1>6, <2>2 DEF Linked, LoadEnd, NoDownload, Fetching, DownloadInv
  <2>4. target' \in {"none", "other"} \union Loaders /\ temps' \subseteq Loaders
    BY <1>6 DEF Linked, DownloadInv
  <2>5. QED  BY <2>1, <2>2, <2>3, <2>4 DEF DownloadInv
<1>7. CASE Other
  BY <1>7 DEF Other, DownloadInv
<1>8. CASE DownloadCrash
  <2>1. NoDownload \in Downloading
    BY <1>1 DEF NoDownload, Downloading, DownloadPcs, DownloadInv
  <2>2. loadCrashes' \in 0..Restarts /\ loadCrashes' # 0
    BY <1>1, <1>8 DEF DownloadCrash, DownloadInv
  <2>3. QED  BY <1>8, <2>1, <2>2 DEF DownloadCrash, DownloadInv
<1>9. CASE UNCHANGED downloadVars
  BY <1>9 DEF downloadVars, DownloadInv
<1>10. QED
  BY <1>2, <1>3, <1>4, <1>5, <1>6, <1>7, <1>8, <1>9 DEF DownloadNext, DownloadWorks

\* However a download ends, and whoever makes its destination meanwhile, its temporary file
\* does not stay behind.
THEOREM DownloadsLeaveNothing == DownloadSpec => [](DownloadTypeOK /\ NoTempLeft)
<1>1. DownloadInit => DownloadInv
  <2>1. MaxChunks \in Nat /\ Restarts \in Nat
    BY TransfersAssumption
  <2>2. NoDownload \in Downloading
    BY <2>1 DEF NoDownload, Downloading, DownloadPcs
  <2>3. QED  BY <2>1, <2>2 DEF DownloadInit, DownloadInv
<1>2. DownloadInv => DownloadTypeOK /\ NoTempLeft
  BY DEF DownloadInv, DownloadTypeOK, NoTempLeft, Downloading, DownloadPcs, Fetching
<1>3. QED  BY <1>1, <1>2, DownloadStepInv, PTL DEF DownloadSpec

\* A received file never takes the place of one that is there, also not of one that came
\* during the download.
THEOREM DownloadsOverwriteNothing == DownloadSpec => NeverOverwritten
<1>1. [DownloadNext]_downloadVars => [target # "none" => target' \in {target, "none"}]_downloadVars
  BY DEF DownloadNext, DownloadWorks, Receive, Connect, Chunk, Link, Linked, Other, DownloadCrash, LoadTo,
     LoadEnd
<1>2. QED  BY <1>1, PTL DEF DownloadSpec, NeverOverwritten

-----------------------------------------------------------------------------
(* Transfers: shared screenshots.                                           *)

\* A request has a name from the making of its file to the start of its timer, the keeper never.
Sharing == [pc : {"idle", "evict", "create", "export", "timer"}, doomed : SUBSET ShareIds,
            id : ShareIds \union {""}]
SharingOK ==
    /\ sharing \in [Actors -> Sharing]
    /\ \A c \in Actors : sharing[c].pc \in {"export", "timer"} <=> sharing[c].id # ""
    /\ sharing[Keeper].pc \in {"idle", "evict"}

\* Requests that have made room and not yet their file, and those that are about to make room.
Makers == {c \in Sharers : sharing[c].pc = "create"}
Evictors == {c \in Sharers : sharing[c].pc = "evict"}
Doomed(E) == UNION {sharing[c].doomed : c \in E}

\* Whoever of those that are about to make room does so next: the shares that then stay, the files
\* on their way and theirs are at most the limit, but for the other requests.
RoomOK ==
    /\ IsFiniteSet(DOMAIN shares)
    /\ \A E \in SUBSET Evictors :
          Cardinality(DOMAIN shares \ Doomed(E)) + Cardinality(Makers) + Cardinality(E)
              < MaxShares + Cardinality(Sharers)

ShareInv == ShareTypeOK /\ SharingOK /\ RoomOK /\ SharesTimed

\* What removing and adding do to the shares and the timers.
LEMMA ShareTables ==
  ASSUME NEW f, NEW T, f \in [DOMAIN f -> T]
  PROVE  /\ \A S \in SUBSET DOMAIN f : Restrict(f, S) \in [S -> T] /\ DOMAIN Restrict(f, S) = S
         /\ \A x : DOMAIN WithoutShare(f, x) = DOMAIN f \ {x} /\ WithoutShare(f, x) \in [DOMAIN f \ {x} -> T]
         /\ \A x, t \in T : /\ DOMAIN WithShare(f, x, t) = DOMAIN f \union {x}
                            /\ WithShare(f, x, t) \in [DOMAIN f \union {x} -> T]
<1>1. \A S \in SUBSET DOMAIN f : Restrict(f, S) \in [S -> T] /\ DOMAIN Restrict(f, S) = S
  BY DEF Restrict
<1>2. \A x : DOMAIN WithoutShare(f, x) = DOMAIN f \ {x} /\ WithoutShare(f, x) \in [DOMAIN f \ {x} -> T]
  BY DEF WithoutShare, Restrict
<1>3. \A x, t \in T : /\ DOMAIN WithShare(f, x, t) = DOMAIN f \union {x}
                      /\ WithShare(f, x, t) \in [DOMAIN f \union {x} -> T]
  BY DEF WithShare
<1>4. QED  BY <1>1, <1>2, <1>3

\* The limits, and the requests as a finite set.
LEMMA ShareLimits ==
  /\ MaxShares \in Nat /\ TTL \in Nat /\ Restarts \in Nat /\ MaxShares > 0 /\ TTL > 0
  /\ IsFiniteSet(Sharers) /\ Cardinality(Sharers) \in Nat /\ Keeper \notin Sharers /\ "" \notin ShareIds
  /\ \A S \in SUBSET Sharers : IsFiniteSet(S) /\ Cardinality(S) \in Nat /\ Cardinality(S) <= Cardinality(Sharers)
<1>1. {MaxShares, TTL} \subseteq Nat \ {0} /\ {MaxChunks, Restarts} \subseteq Nat /\ IsFiniteSet(Sharers)
      /\ Keeper \notin Sharers /\ "" \notin ShareIds
  BY TransfersAssumption
<1>2. MaxShares \in Nat /\ TTL \in Nat /\ Restarts \in Nat /\ MaxShares > 0 /\ TTL > 0
  <2>1. MaxShares \in Nat \ {0} /\ TTL \in Nat \ {0} /\ Restarts \in Nat
    BY <1>1
  <2>2. QED  BY <2>1
<1>3. Cardinality(Sharers) \in Nat
  BY <1>1, FS_CardinalityType
<1>4. \A S \in SUBSET Sharers : IsFiniteSet(S) /\ Cardinality(S) \in Nat /\ Cardinality(S) <= Cardinality(Sharers)
  BY <1>1, FS_Subset, FS_CardinalityType
<1>5. QED  BY <1>1, <1>2, <1>3, <1>4

\* There is room as long as no share, no maker and nobody about to make room comes.
LEMMA RoomShrinks ==
  ASSUME RoomOK, DOMAIN shares' \subseteq DOMAIN shares, Makers' \subseteq Makers, Evictors' \subseteq Evictors,
         \A c \in Evictors' : sharing'[c].doomed = sharing[c].doomed
  PROVE  RoomOK'
<1>0. MaxShares \in Nat /\ Cardinality(Sharers) \in Nat
  BY ShareLimits
<1>1. IsFiniteSet(DOMAIN shares) /\ IsFiniteSet(DOMAIN shares')
  BY FS_Subset DEF RoomOK
<1>2. ASSUME NEW E \in SUBSET Evictors'
      PROVE  Cardinality(DOMAIN shares' \ Doomed(E)') + Cardinality(Makers') + Cardinality(E)
                 < MaxShares + Cardinality(Sharers)
  <2>1. E \in SUBSET Evictors /\ Doomed(E)' = Doomed(E)
    BY <1>2 DEF Doomed
  <2>2. IsFiniteSet(DOMAIN shares \ Doomed(E)) /\ (DOMAIN shares' \ Doomed(E)') \subseteq (DOMAIN shares \ Doomed(E))
    BY <1>1, <2>1, FS_Subset
  <2>3. Cardinality(DOMAIN shares' \ Doomed(E)') <= Cardinality(DOMAIN shares \ Doomed(E))
        /\ Cardinality(DOMAIN shares' \ Doomed(E)') \in Nat /\ Cardinality(DOMAIN shares \ Doomed(E)) \in Nat
    BY <2>2, FS_Subset, FS_CardinalityType
  <2>4. Makers \in SUBSET Sharers /\ IsFiniteSet(Makers) /\ E \in SUBSET Sharers
    BY <2>1, ShareLimits DEF Makers, Evictors
  <2>5. Cardinality(Makers') <= Cardinality(Makers) /\ Cardinality(Makers') \in Nat /\ Cardinality(Makers) \in Nat
    BY <2>4, FS_Subset, FS_CardinalityType
  <2>6. Cardinality(E) \in Nat
    BY <2>4, ShareLimits
  <2>7. Cardinality(DOMAIN shares \ Doomed(E)) + Cardinality(Makers) + Cardinality(E)
            < MaxShares + Cardinality(Sharers)
    BY <2>1 DEF RoomOK
  <2>8. QED  BY <2>3, <2>5, <2>6, <2>7, <1>0
<1>3. QED  BY <1>1, <1>2 DEF RoomOK

\* A request that scans dooms what makes room for its file, and everybody else has one file at most.
LEMMA RoomAfterScan ==
  ASSUME ShareInv, NEW c \in Actors, Scan(c)  PROVE  RoomOK'
<1>0. MaxShares \in Nat /\ Cardinality(Sharers) \in Nat
  BY ShareLimits
<1>1. PICK doomed \in Oldest(Unexpired) : sharing' = [sharing EXCEPT ![c].pc = "evict", ![c].doomed = doomed]
  BY DEF Scan
<1>2. DOMAIN shares' = Unexpired /\ Unexpired \subseteq DOMAIN shares
  BY DEF Scan, Restrict, Unexpired
<1>3. IsFiniteSet(DOMAIN shares')
  BY <1>2, FS_Subset DEF ShareInv, RoomOK
<1>4. Makers' = Makers /\ sharing[c].pc = "idle" /\ sharing'[c].doomed = doomed
      /\ \A d \in Actors \ {c} : sharing'[d] = sharing[d]
  BY <1>1 DEF Makers, Actors, ShareInv, SharingOK, Sharing, Scan
<1>5. Evictors' \subseteq Evictors \union {c} /\ (c \notin Sharers => Evictors' = Evictors)
  BY <1>4 DEF Evictors, Actors
<1>6. ASSUME NEW E \in SUBSET Evictors'
      PROVE  Cardinality(DOMAIN shares' \ Doomed(E)') + Cardinality(Makers') + Cardinality(E)
                 < MaxShares + Cardinality(Sharers)
  <2>1. CASE c \notin E
    <3>1. E \in SUBSET Evictors /\ \A d \in E : sharing'[d].doomed = sharing[d].doomed
      BY <1>4, <1>5, <2>1 DEF Evictors, Actors
    <3>2. Doomed(E)' = Doomed(E)
      BY <3>1 DEF Doomed
    <3>3. IsFiniteSet(DOMAIN shares \ Doomed(E)) /\ (DOMAIN shares' \ Doomed(E)') \subseteq (DOMAIN shares \ Doomed(E))
      BY <1>2, <3>2, FS_Subset DEF ShareInv, RoomOK
    <3>4. Cardinality(DOMAIN shares' \ Doomed(E)') <= Cardinality(DOMAIN shares \ Doomed(E))
          /\ Cardinality(DOMAIN shares' \ Doomed(E)') \in Nat /\ Cardinality(DOMAIN shares \ Doomed(E)) \in Nat
      BY <3>3, FS_Subset, FS_CardinalityType
    <3>5. Makers \in SUBSET Sharers /\ E \in SUBSET Sharers
      BY <3>1 DEF Makers, Evictors
    <3>6. Cardinality(Makers) \in Nat /\ Cardinality(E) \in Nat
      BY <3>5, ShareLimits
    <3>7. Cardinality(DOMAIN shares \ Doomed(E)) + Cardinality(Makers) + Cardinality(E)
              < MaxShares + Cardinality(Sharers)
      BY <3>1 DEF ShareInv, RoomOK
    <3>8. QED  BY <1>4, <3>4, <3>6, <3>7, <1>0
  <2>2. CASE c \in E
    <3>1. doomed \subseteq Doomed(E)'
      BY <1>4, <2>2 DEF Doomed
    <3>2. Cardinality(Unexpired \ doomed) < MaxShares
      BY DEF Oldest
    <3>3. IsFiniteSet(Unexpired \ doomed) /\ (DOMAIN shares' \ Doomed(E)') \subseteq (Unexpired \ doomed)
      BY <1>2, <1>3, <3>1, FS_Subset
    <3>4. Cardinality(DOMAIN shares' \ Doomed(E)') <= Cardinality(Unexpired \ doomed)
          /\ Cardinality(DOMAIN shares' \ Doomed(E)') \in Nat /\ Cardinality(Unexpired \ doomed) \in Nat
      BY <3>3, FS_Subset, FS_CardinalityType
    <3>5. Makers' \in SUBSET Sharers /\ E \in SUBSET Sharers /\ Makers' \intersect E = {}
      BY <1>6 DEF Makers, Evictors
    <3>6. IsFiniteSet(Makers') /\ IsFiniteSet(E) /\ Makers' \union E \in SUBSET Sharers
      BY <3>5, ShareLimits
    <3>7. Cardinality(Makers' \union E) = Cardinality(Makers') + Cardinality(E) - Cardinality(Makers' \intersect E)
      BY <3>6, FS_Union
    <3>8. Cardinality(Makers' \intersect E) = 0
      BY <3>5, FS_EmptySet
    <3>9. Cardinality(Makers' \union E) <= Cardinality(Sharers) /\ Cardinality(Makers') \in Nat /\ Cardinality(E) \in Nat
      BY <3>5, <3>6, ShareLimits
    <3>10. Cardinality(Makers') + Cardinality(E) <= Cardinality(Sharers)
      BY <3>7, <3>8, <3>9, <1>0
    <3>11. QED  BY <3>2, <3>4, <3>9, <3>10, <1>0
  <2>3. QED  BY <2>1, <2>2
<1>7. QED  BY <1>3, <1>6 DEF RoomOK

\* Who has made room has taken away what it doomed, and is then one of the makers.
LEMMA RoomAfterEvict ==
  ASSUME ShareInv, NEW c \in Sharers, Evict(c)  PROVE  RoomOK'
<1>0. MaxShares \in Nat /\ Cardinality(Sharers) \in Nat
  BY ShareLimits
<1>1. sharing' = [sharing EXCEPT ![c] = [NoShare EXCEPT !.pc = "create"]] /\ sharing[c].pc = "evict"
  BY ShareLimits DEF Evict, Evicted
<1>2. sharing'[c].pc = "create" /\ \A d \in Actors \ {c} : sharing'[d] = sharing[d]
  BY <1>1 DEF NoShare, ShareInv, SharingOK, Sharing, Actors
<1>3. Makers' = Makers \union {c} /\ c \notin Makers /\ Evictors' = Evictors \ {c} /\ c \in Evictors
  BY <1>1, <1>2 DEF Makers, Evictors, Actors
<1>4. DOMAIN shares' = DOMAIN shares \ sharing[c].doomed
  BY DEF Evict, Restrict
<1>5. IsFiniteSet(DOMAIN shares')
  BY <1>4, FS_Subset DEF ShareInv, RoomOK
<1>6. Makers \in SUBSET Sharers /\ Evictors \in SUBSET Sharers
  BY DEF Makers, Evictors
<1>7. IsFiniteSet(Makers) /\ Cardinality(Makers) \in Nat
  BY <1>6, ShareLimits
<1>8. Cardinality(Makers') = Cardinality(Makers) + 1
  BY <1>3, <1>7, FS_AddElement
<1>9. ASSUME NEW E \in SUBSET Evictors'
      PROVE  Cardinality(DOMAIN shares' \ Doomed(E)') + Cardinality(Makers') + Cardinality(E)
                 < MaxShares + Cardinality(Sharers)
  <2>1. E \union {c} \in SUBSET Evictors /\ c \notin E /\ E \in SUBSET Sharers
    BY <1>3, <1>6
  <2>2. \A d \in E : sharing'[d].doomed = sharing[d].doomed
    BY <1>2, <2>1 DEF Evictors, Actors
  <2>3. Doomed(E)' = Doomed(E) /\ Doomed(E \union {c}) = Doomed(E) \union sharing[c].doomed
    BY <2>2 DEF Doomed
  <2>4. DOMAIN shares' \ Doomed(E)' = DOMAIN shares \ Doomed(E \union {c})
    BY <1>4, <2>3
  <2>5. IsFiniteSet(E) /\ Cardinality(E) \in Nat
    BY <2>1, ShareLimits
  <2>6. Cardinality(E \union {c}) = Cardinality(E) + 1
    BY <2>1, <2>5, FS_AddElement
  <2>7. IsFiniteSet(DOMAIN shares' \ Doomed(E)')
    BY <1>5, FS_Subset
  <2>8. Cardinality(DOMAIN shares' \ Doomed(E)') \in Nat
        /\ Cardinality(DOMAIN shares' \ Doomed(E)') = Cardinality(DOMAIN shares \ Doomed(E \union {c}))
    BY <2>4, <2>7, FS_CardinalityType
  <2>9. Cardinality(DOMAIN shares \ Doomed(E \union {c})) + Cardinality(Makers) + Cardinality(E \union {c})
            < MaxShares + Cardinality(Sharers)
    BY <2>1 DEF ShareInv, RoomOK
  <2>10. QED  BY <1>7, <1>8, <2>4, <2>5, <2>6, <2>8, <2>9, <1>0
<1>10. QED  BY <1>5, <1>9 DEF RoomOK

\* The maker of a file is a maker no longer.
LEMMA RoomAfterMaking ==
  ASSUME ShareInv, NEW c \in Sharers, MakeShare(c)  PROVE  RoomOK'
<1>0. MaxShares \in Nat /\ Cardinality(Sharers) \in Nat
  BY ShareLimits
<1>1. PICK id \in Fresh : shares' = WithShare(shares, id, 0)
                          /\ sharing' = [sharing EXCEPT ![c].pc = "export", ![c].id = id]
  BY DEF MakeShare
<1>2. sharing'[c].pc = "export" /\ sharing[c].pc = "create" /\ \A d \in Actors \ {c} : sharing'[d] = sharing[d]
  <2>1. sharing[c].pc = "create"
    BY DEF MakeShare
  <2>2. c \in Actors /\ sharing \in [Actors -> Sharing]
    BY DEF Actors, ShareInv, SharingOK, Sharing
  <2>3. QED  BY <1>1, <2>1, <2>2 DEF Sharing
<1>3. Makers' = Makers \ {c} /\ c \in Makers /\ Evictors' = Evictors /\ c \notin Evictors
  BY <1>2 DEF Makers, Evictors, Actors
<1>4. DOMAIN shares' = DOMAIN shares \union {id} /\ id \notin DOMAIN shares /\ IsFiniteSet(DOMAIN shares)
  BY <1>1 DEF WithShare, Fresh, ShareInv, RoomOK
<1>5. IsFiniteSet(DOMAIN shares')
  BY <1>4, FS_AddElement
<1>6. Makers \in SUBSET Sharers /\ Evictors \in SUBSET Sharers
  BY DEF Makers, Evictors
<1>7. IsFiniteSet(Makers) /\ Cardinality(Makers) \in Nat
  BY <1>6, ShareLimits
<1>8. Cardinality(Makers') = Cardinality(Makers) - 1
  BY <1>3, <1>7, FS_RemoveElement
<1>9. ASSUME NEW E \in SUBSET Evictors'
      PROVE  Cardinality(DOMAIN shares' \ Doomed(E)') + Cardinality(Makers') + Cardinality(E)
                 < MaxShares + Cardinality(Sharers)
  <2>1. E \in SUBSET Evictors /\ E \in SUBSET Sharers /\ Cardinality(E) \in Nat
    BY <1>3, <1>6, ShareLimits
  <2>2. \A d \in E : sharing'[d].doomed = sharing[d].doomed
    BY <1>2, <1>3, <2>1 DEF Actors
  <2>3. Doomed(E)' = Doomed(E)
    BY <2>2 DEF Doomed
  <2>4. IsFiniteSet(DOMAIN shares \ Doomed(E)) /\ Cardinality(DOMAIN shares \ Doomed(E)) \in Nat
    BY <1>4, FS_Subset, FS_CardinalityType
  <2>5. IsFiniteSet((DOMAIN shares \ Doomed(E)) \union {id})
        /\ Cardinality((DOMAIN shares \ Doomed(E)) \union {id}) \in Nat
        /\ Cardinality((DOMAIN shares \ Doomed(E)) \union {id}) <= Cardinality(DOMAIN shares \ Doomed(E)) + 1
    BY <1>4, <2>4, FS_AddElement
  <2>6. (DOMAIN shares' \ Doomed(E)') \subseteq ((DOMAIN shares \ Doomed(E)) \union {id})
    BY <1>4, <2>3
  <2>7. Cardinality(DOMAIN shares' \ Doomed(E)') <= Cardinality((DOMAIN shares \ Doomed(E)) \union {id})
        /\ Cardinality(DOMAIN shares' \ Doomed(E)') \in Nat
    BY <2>5, <2>6, FS_Subset, FS_CardinalityType
  <2>8. Cardinality(DOMAIN shares \ Doomed(E)) + Cardinality(Makers) + Cardinality(E)
            < MaxShares + Cardinality(Sharers)
    BY <2>1 DEF ShareInv, RoomOK
  <2>9. QED  BY <1>7, <1>8, <2>1, <2>4, <2>5, <2>7, <2>8, <1>0
<1>10. QED  BY <1>5, <1>9 DEF RoomOK

\* Where a call may go, what its name then is, and which share is without a timer.
LEMMA ShareStepInv ==
  ASSUME ShareInv, [ShareNext]_shareVars  PROVE  ShareInv'
<1>0. TTL \in Nat /\ Restarts \in Nat /\ 0 \in 0..TTL /\ TTL \in 0..TTL
  <2>1. TTL \in Nat /\ Restarts \in Nat
    BY ShareLimits
  <2>2. QED  BY <2>1
<1>1. TTL \in Nat /\ TTL > 0 /\ Restarts \in Nat /\ Keeper \notin Sharers /\ "" \notin ShareIds
  BY ShareLimits
<1>2. /\ shares \in [DOMAIN shares -> 0..TTL] /\ timers \in [DOMAIN timers -> 0..TTL]
      /\ DOMAIN shares \subseteq ShareIds /\ DOMAIN timers \subseteq ShareIds /\ shareCrashes \in 0..Restarts
  BY DEF ShareInv, ShareTypeOK
<1>3. sharing \in [Actors -> Sharing]
  BY DEF ShareInv, SharingOK, Sharing
<1>4. /\ \A c \in Actors : sharing[c].pc \in {"export", "timer"} <=> sharing[c].id # ""
      /\ sharing[Keeper].pc \in {"idle", "evict"} /\ Keeper \in Actors /\ Sharers \subseteq Actors
  BY DEF ShareInv, SharingOK, Actors
<1>5. RoomOK /\ SharesTimed /\ NoShare \in Sharing
  BY DEF ShareInv, NoShare, Sharing
<1>6. ASSUME NEW c \in Sharers, NEW id \in ShareIds, ReadShare(c, id)  PROVE  ShareInv'
  <2>1. DOMAIN shares' = DOMAIN shares \ {id} /\ shares' \in [DOMAIN shares \ {id} -> 0..TTL]
    BY <1>2, <1>6, ShareTables DEF ReadShare
  <2>2. UNCHANGED <<timers, sharing, shareCrashes>>
    BY <1>6 DEF ReadShare
  <2>3. RoomOK'
    BY <1>5, <2>1, <2>2, RoomShrinks DEF Makers, Evictors
  <2>4. ShareTypeOK' /\ SharingOK' /\ SharesTimed'
    BY <1>2, <1>5, <2>1, <2>2 DEF ShareInv, ShareTypeOK, SharingOK, SharesTimed
  <2>5. QED  BY <2>3, <2>4 DEF ShareInv
<1>7. ASSUME NEW c \in Actors, Scan(c)  PROVE  ShareInv'
  <2>1. PICK doomed \in Oldest(Unexpired) : sharing' = [sharing EXCEPT ![c].pc = "evict", ![c].doomed = doomed]
    BY <1>7 DEF Scan
  <2>2. Unexpired \in SUBSET DOMAIN shares /\ doomed \subseteq ShareIds
    BY <1>2 DEF Unexpired, Oldest
  <2>3. DOMAIN shares' \subseteq DOMAIN shares /\ shares' \in [DOMAIN shares' -> 0..TTL]
    <3>1. shares' = Restrict(shares, Unexpired)
      BY <1>7 DEF Scan
    <3>2. QED  BY <1>2, <2>2, <3>1 DEF Restrict
  <2>4. sharing' \in [Actors -> Sharing]
    BY <1>3, <2>1, <2>2 DEF Sharing
  <2>5. /\ sharing[c].pc = "idle" /\ sharing'[c].pc = "evict" /\ sharing'[c].id = sharing[c].id
        /\ \A d \in Actors \ {c} : sharing'[d] = sharing[d]
    BY <1>3, <1>7, <2>1 DEF Scan, Sharing
  <2>6. \A d \in Actors : sharing'[d].id = sharing[d].id
    BY <2>5
  <2>7. UNCHANGED <<timers, shareCrashes>>
    BY <1>7 DEF Scan
  <2>8. RoomOK'
    BY <1>7, RoomAfterScan
  <2>9. ShareTypeOK'
    BY <1>2, <2>3, <2>4, <2>7 DEF ShareTypeOK, Sharing
  <2>10. SharingOK'
    BY <1>4, <2>4, <2>5 DEF SharingOK, Sharing
  <2>11. SharesTimed'
    BY <1>4, <1>5, <2>3, <2>6, <2>7 DEF SharesTimed
  <2>12. QED  BY <2>8, <2>9, <2>10, <2>11 DEF ShareInv
<1>8. ASSUME NEW c \in Actors, Evict(c)  PROVE  ShareInv'
  <2>1. sharing[c].pc = "evict" /\ sharing[c].id = ""
    BY <1>4, <1>8 DEF Evict
  <2>2. DOMAIN shares \ sharing[c].doomed \in SUBSET DOMAIN shares
    OBVIOUS
  <2>3. DOMAIN shares' \subseteq DOMAIN shares /\ shares' \in [DOMAIN shares' -> 0..TTL]
    <3>1. shares' = Restrict(shares, DOMAIN shares \ sharing[c].doomed)
      BY <1>8 DEF Evict
    <3>2. QED  BY <1>2, <2>2, <3>1 DEF Restrict
  <2>4. sharing' \in [Actors -> Sharing] /\ sharing'[c].id = "" /\ (\A d \in Actors \ {c} : sharing'[d] = sharing[d])
        /\ sharing'[c].pc = IF c = Keeper THEN "idle" ELSE "create"
    <3>1. sharing' = [sharing EXCEPT ![c] = IF c = Keeper THEN NoShare ELSE [NoShare EXCEPT !.pc = "create"]]
      BY <1>8 DEF Evict, Evicted, ShareEnd
    <3>2. NoShare.pc = "idle" /\ NoShare.id = "" /\ NoShare = [pc |-> "idle", doomed |-> {}, id |-> ""]
      BY DEF NoShare
    <3>3. [NoShare EXCEPT !.pc = "create"] \in Sharing /\ [NoShare EXCEPT !.pc = "create"].pc = "create"
          /\ [NoShare EXCEPT !.pc = "create"].id = ""
      BY <1>5, <3>2 DEF Sharing
    <3>4. QED  BY <1>3, <1>5, <3>1, <3>2, <3>3
  <2>5. \A d \in Actors : sharing'[d].id = sharing[d].id
    BY <2>1, <2>4
  <2>6. UNCHANGED <<timers, shareCrashes>>
    BY <1>8 DEF Evict
  <2>7. RoomOK'
    <3>1. CASE c = Keeper
      <4>1. Makers' \subseteq Makers /\ Evictors' \subseteq Evictors
            /\ \A d \in Evictors' : sharing'[d].doomed = sharing[d].doomed
        BY <1>1, <1>4, <2>4, <3>1 DEF Makers, Evictors
      <4>2. QED  BY <1>5, <2>3, <4>1, RoomShrinks
    <3>2. CASE c # Keeper
      BY <1>8, <3>2, RoomAfterEvict DEF Actors
    <3>3. QED  BY <3>1, <3>2
  <2>8. ShareTypeOK'
    BY <1>2, <2>3, <2>4, <2>6 DEF ShareTypeOK, Sharing
  <2>9. SharingOK'
    BY <1>4, <2>4 DEF SharingOK, Sharing
  <2>10. SharesTimed'
    BY <1>4, <1>5, <2>3, <2>5, <2>6 DEF SharesTimed
  <2>11. QED  BY <2>7, <2>8, <2>9, <2>10 DEF ShareInv
<1>9. ASSUME NEW c \in Actors, MakeShare(c)  PROVE  ShareInv'
  <2>1. PICK id \in Fresh : shares' = WithShare(shares, id, 0)
                            /\ sharing' = [sharing EXCEPT ![c].pc = "export", ![c].id = id]
    BY <1>9 DEF MakeShare
  <2>2. sharing[c].pc = "create" /\ c \in Sharers
    BY <1>4, <1>9 DEF MakeShare, Actors
  <2>3. id \in ShareIds /\ id # ""
    BY <1>1 DEF Fresh
  <2>4. DOMAIN shares' = DOMAIN shares \union {id} /\ shares' \in [DOMAIN shares' -> 0..TTL]
    BY <1>0, <1>2, <2>1 DEF WithShare
  <2>5. sharing' \in [Actors -> Sharing]
    BY <1>3, <2>1, <2>3 DEF Sharing
  <2>6. /\ sharing'[c].pc = "export" /\ sharing'[c].id = id /\ sharing[c].id = ""
        /\ \A d \in Actors \ {c} : sharing'[d] = sharing[d]
    BY <1>3, <1>4, <2>1, <2>2 DEF Sharing
  <2>7. UNCHANGED <<timers, shareCrashes>>
    BY <1>9 DEF MakeShare
  <2>8. RoomOK'
    BY <1>9, <2>2, RoomAfterMaking
  <2>9. ShareTypeOK'
    BY <1>2, <2>3, <2>4, <2>5, <2>7 DEF ShareTypeOK, Sharing
  <2>10. SharingOK'
    BY <1>1, <1>4, <2>2, <2>3, <2>5, <2>6 DEF SharingOK, Sharing
  <2>11. \A d \in Sharers \ {c} : sharing'[d].id = sharing[d].id
    BY <1>4, <2>6
  <2>12. SharesTimed'
    <3>1. ASSUME shareCrashes' = 0, NEW x \in DOMAIN shares'
          PROVE  x \in DOMAIN timers' \/ \E d \in Sharers : sharing'[d].id = x
      <4>1. CASE x = id
        BY <2>2, <2>6, <4>1
      <4>2. CASE x # id
        <5>1. x \in DOMAIN shares /\ x # ""
          BY <1>1, <1>2, <2>4, <4>2
        <5>2. x \in DOMAIN timers \/ \E d \in Sharers : sharing[d].id = x
          BY <1>5, <2>7, <3>1, <5>1 DEF SharesTimed
        <5>3. QED  BY <2>6, <2>7, <2>11, <5>1, <5>2
      <4>3. QED  BY <4>1, <4>2
    <3>2. QED  BY <3>1 DEF SharesTimed
  <2>13. QED  BY <2>8, <2>9, <2>10, <2>12 DEF ShareInv
<1>10. ASSUME NEW c \in Actors, Export(c)  PROVE  ShareInv'
  <2>1. sharing[c].pc = "export" /\ UNCHANGED <<timers, shareCrashes>> /\ c \in Sharers
    BY <1>4, <1>10 DEF Export, Actors
  <2>2. CASE ShareTo(c, "timer") /\ UNCHANGED shares
    <3>1. sharing' \in [Actors -> Sharing] /\ sharing'[c].pc = "timer" /\ sharing'[c].id = sharing[c].id
          /\ \A d \in Actors \ {c} : sharing'[d] = sharing[d]
      BY <1>3, <2>2 DEF ShareTo, Sharing
    <3>2. \A d \in Actors : sharing'[d].id = sharing[d].id
      BY <3>1
    <3>3. RoomOK'
      <4>1. Makers' \subseteq Makers /\ Evictors' \subseteq Evictors
            /\ \A d \in Evictors' : sharing'[d].doomed = sharing[d].doomed
        BY <1>4, <3>1 DEF Makers, Evictors
      <4>2. QED  BY <1>5, <2>2, <4>1, RoomShrinks
    <3>4. ShareTypeOK'
      BY <1>2, <2>1, <2>2, <3>1 DEF ShareTypeOK, Sharing
    <3>5. SharingOK'
      BY <1>1, <1>4, <2>1, <3>1 DEF SharingOK, Sharing
    <3>6. SharesTimed'
      BY <1>4, <1>5, <2>1, <2>2, <3>2 DEF SharesTimed
    <3>7. QED  BY <3>3, <3>4, <3>5, <3>6 DEF ShareInv
  <2>3. CASE ShareEnd(c) /\ shares' = WithoutShare(shares, sharing[c].id)
    <3>1. sharing' \in [Actors -> Sharing] /\ sharing'[c].pc = "idle" /\ sharing'[c].id = ""
          /\ \A d \in Actors \ {c} : sharing'[d] = sharing[d]
      BY <1>3, <1>5, <2>3 DEF ShareEnd, NoShare, Sharing
    <3>2. DOMAIN shares' = DOMAIN shares \ {sharing[c].id} /\ shares' \in [DOMAIN shares' -> 0..TTL]
      BY <1>2, <2>3, ShareTables
    <3>3. RoomOK'
      <4>1. Makers' \subseteq Makers /\ Evictors' \subseteq Evictors
            /\ \A d \in Evictors' : sharing'[d].doomed = sharing[d].doomed
        BY <1>4, <3>1 DEF Makers, Evictors
      <4>2. QED  BY <1>5, <3>2, <4>1, RoomShrinks
    <3>4. ShareTypeOK'
      BY <1>2, <2>1, <3>1, <3>2 DEF ShareTypeOK, Sharing
    <3>5. SharingOK'
      BY <1>1, <1>4, <2>1, <3>1 DEF SharingOK, Sharing
    <3>6. SharesTimed'
      <4>1. \A d \in Sharers \ {c} : sharing'[d].id = sharing[d].id
        BY <1>4, <3>1
      <4>2. ASSUME shareCrashes' = 0, NEW x \in DOMAIN shares'
            PROVE  x \in DOMAIN timers' \/ \E d \in Sharers : sharing'[d].id = x
        <5>1. x \in DOMAIN shares /\ x # sharing[c].id
          BY <3>2
        <5>2. x \in DOMAIN timers \/ \E d \in Sharers : sharing[d].id = x
          BY <1>5, <2>1, <4>2, <5>1 DEF SharesTimed
        <5>3. QED  BY <2>1, <4>1, <5>1, <5>2
      <4>3. QED  BY <4>2 DEF SharesTimed
    <3>7. QED  BY <3>3, <3>4, <3>5, <3>6 DEF ShareInv
  <2>4. QED  BY <1>10, <2>2, <2>3 DEF Export
<1>11. ASSUME NEW c \in Actors, StartTimer(c)  PROVE  ShareInv'
  <2>1. /\ sharing[c].pc = "timer" /\ UNCHANGED <<shares, shareCrashes>> /\ c \in Sharers
        /\ ShareEnd(c) /\ timers' = WithShare(timers, sharing[c].id, TTL)
    BY <1>4, <1>11 DEF StartTimer, Actors
  <2>2. sharing' \in [Actors -> Sharing] /\ sharing'[c].pc = "idle" /\ sharing'[c].id = ""
        /\ \A d \in Actors \ {c} : sharing'[d] = sharing[d]
    BY <1>3, <1>5, <2>1 DEF ShareEnd, NoShare, Sharing
  <2>3. sharing[c].id \in ShareIds
    <3>1. sharing[c] \in Sharing /\ sharing[c].id # ""
      BY <1>3, <1>4, <2>1
    <3>2. QED  BY <3>1 DEF Sharing
  <2>4. DOMAIN timers' = DOMAIN timers \union {sharing[c].id} /\ timers' \in [DOMAIN timers' -> 0..TTL]
    BY <1>0, <1>2, <2>1 DEF WithShare
  <2>5. RoomOK'
    <3>1. Makers' \subseteq Makers /\ Evictors' \subseteq Evictors
          /\ \A d \in Evictors' : sharing'[d].doomed = sharing[d].doomed
      BY <1>4, <2>2 DEF Makers, Evictors
    <3>2. QED  BY <1>5, <2>1, <3>1, RoomShrinks
  <2>6. ShareTypeOK'
    BY <1>2, <2>1, <2>2, <2>3, <2>4 DEF ShareTypeOK, Sharing
  <2>7. SharingOK'
    BY <1>1, <1>4, <2>1, <2>2 DEF SharingOK, Sharing
  <2>8. SharesTimed'
    <3>1. \A d \in Sharers \ {c} : sharing'[d].id = sharing[d].id
      BY <1>4, <2>2
    <3>2. ASSUME shareCrashes' = 0, NEW x \in DOMAIN shares'
          PROVE  x \in DOMAIN timers' \/ \E d \in Sharers : sharing'[d].id = x
      <4>1. x \in DOMAIN timers \/ \E d \in Sharers : sharing[d].id = x
        BY <1>5, <2>1, <3>2 DEF SharesTimed
      <4>2. QED  BY <2>1, <2>4, <3>1, <4>1
    <3>3. QED  BY <3>2 DEF SharesTimed
  <2>9. QED  BY <2>5, <2>6, <2>7, <2>8 DEF ShareInv
<1>12. ASSUME NEW id \in ShareIds, Timer(id)  PROVE  ShareInv'
  <2>1. DOMAIN shares' = DOMAIN shares \ {id} /\ shares' \in [DOMAIN shares' -> 0..TTL]
    BY <1>2, <1>12, ShareTables DEF Timer
  <2>2. DOMAIN timers' = DOMAIN timers \ {id} /\ timers' \in [DOMAIN timers' -> 0..TTL]
    BY <1>2, <1>12, ShareTables DEF Timer
  <2>3. UNCHANGED <<sharing, shareCrashes>>
    BY <1>12 DEF Timer
  <2>4. RoomOK'
    BY <1>5, <2>1, <2>3, RoomShrinks DEF Makers, Evictors
  <2>5. ShareTypeOK' /\ SharingOK' /\ SharesTimed'
    BY <1>2, <1>5, <2>1, <2>2, <2>3 DEF ShareInv, ShareTypeOK, SharingOK, SharesTimed
  <2>6. QED  BY <2>4, <2>5 DEF ShareInv
<1>13. CASE Tick
  <2>1. DOMAIN shares' = DOMAIN shares /\ shares' \in [DOMAIN shares' -> 0..TTL]
    <3>1. \A id \in DOMAIN shares : (IF Expired(id) THEN TTL ELSE shares[id] + 1) \in 0..TTL
      BY <1>0, <1>2 DEF Expired
    <3>2. QED  BY <1>13, <3>1 DEF Tick
  <2>2. DOMAIN timers' = DOMAIN timers /\ timers' \in [DOMAIN timers' -> 0..TTL]
    <3>1. \A id \in DOMAIN timers : timers[id] - 1 \in 0..TTL
      BY <1>0, <1>2, <1>13 DEF Tick
    <3>2. QED  BY <1>13, <3>1 DEF Tick
  <2>3. UNCHANGED <<sharing, shareCrashes>>
    BY <1>13 DEF Tick
  <2>4. RoomOK'
    BY <1>5, <2>1, <2>3, RoomShrinks DEF Makers, Evictors
  <2>5. ShareTypeOK' /\ SharingOK' /\ SharesTimed'
    BY <1>2, <1>5, <2>1, <2>2, <2>3 DEF ShareInv, ShareTypeOK, SharingOK, SharesTimed
  <2>6. QED  BY <2>4, <2>5 DEF ShareInv
<1>14. CASE ShareCrash
  <2>1. sharing' = [c \in Actors |-> NoShare] /\ UNCHANGED shares /\ timers' = <<>>
    BY <1>14 DEF ShareCrash
  <2>2. shareCrashes' \in 0..Restarts /\ shareCrashes' # 0
    BY <1>0, <1>2, <1>14 DEF ShareCrash
  <2>3. DOMAIN timers' = {} /\ timers' \in [DOMAIN timers' -> 0..TTL]
    BY <2>1
  <2>4. RoomOK'
    <3>1. Makers' = {} /\ Evictors' = {}
      BY <1>4, <2>1 DEF Makers, Evictors, NoShare
    <3>2. QED  BY <1>5, <2>1, <3>1, RoomShrinks
  <2>5. ShareTypeOK'
    BY <1>2, <2>1, <2>2, <2>3 DEF ShareTypeOK, NoShare
  <2>6. SharingOK'
    BY <1>4, <2>1 DEF SharingOK, Sharing, NoShare
  <2>7. SharesTimed'
    BY <2>2 DEF SharesTimed
  <2>8. QED  BY <2>4, <2>5, <2>6, <2>7 DEF ShareInv
<1>15. CASE UNCHANGED shareVars
  <2>1. UNCHANGED shares /\ UNCHANGED timers /\ UNCHANGED sharing /\ UNCHANGED shareCrashes
    BY <1>15 DEF shareVars
  <2>2. RoomOK'
    BY <1>5, <2>1, RoomShrinks DEF Makers, Evictors
  <2>3. ShareTypeOK' /\ SharingOK' /\ SharesTimed'
    BY <2>1 DEF ShareInv, ShareTypeOK, SharingOK, SharesTimed
  <2>4. QED  BY <2>2, <2>3 DEF ShareInv
<1>16. QED
  BY <1>6, <1>7, <1>8, <1>9, <1>10, <1>11, <1>12, <1>13, <1>14, <1>15 DEF ShareNext, ShareWorks

\* Whoever shares, reads, maintains and restarts: the shares are at most the limit and one for every
\* other request, and while the server runs each that nobody is making has its timer.
THEOREM SharesAreBounded == ShareSpec => [](ShareTypeOK /\ SharesBounded /\ SharesTimed)
<1>1. ShareInit => ShareInv
  <2>1. MaxShares \in Nat /\ MaxShares > 0 /\ Cardinality(Sharers) \in Nat /\ TTL \in Nat /\ Restarts \in Nat
    BY ShareLimits
  <2>2. SUFFICES ASSUME ShareInit  PROVE  ShareInv
    OBVIOUS
  <2>3. DOMAIN shares = {} /\ DOMAIN timers = {} /\ sharing = [c \in Actors |-> NoShare] /\ shareCrashes = 0
        /\ shares \in [DOMAIN shares -> 0..TTL] /\ timers \in [DOMAIN timers -> 0..TTL]
    BY <2>2 DEF ShareInit
  <2>4. Keeper \in Actors /\ Sharers \subseteq Actors
    BY DEF Actors
  <2>5. SharingOK
    BY <2>3, <2>4 DEF SharingOK, Sharing, NoShare
  <2>6. ShareTypeOK /\ SharesTimed
    <3>1. \A c \in Actors : sharing[c].pc = "idle"
      BY <2>3 DEF NoShare
    <3>2. shareCrashes \in 0..Restarts
      BY <2>1, <2>3
    <3>3. QED  BY <2>3, <3>1, <3>2 DEF ShareTypeOK, SharesTimed
  <2>7. RoomOK
    <3>1. Makers = {} /\ Evictors = {}
      BY <2>3, <2>4 DEF Makers, Evictors, NoShare
    <3>2. IsFiniteSet({}) /\ Cardinality({}) = 0
      BY FS_EmptySet
    <3>3. ASSUME NEW E \in SUBSET Evictors
          PROVE  Cardinality(DOMAIN shares \ Doomed(E)) + Cardinality(Makers) + Cardinality(E)
                     < MaxShares + Cardinality(Sharers)
      <4>1. DOMAIN shares \ Doomed(E) = {} /\ E = {} /\ Makers = {}
        BY <2>3, <3>1
      <4>2. QED  BY <2>1, <3>2, <4>1
    <3>4. QED  BY <2>3, <3>2, <3>3 DEF RoomOK
  <2>8. QED  BY <2>5, <2>6, <2>7 DEF ShareInv
<1>2. ShareInv => SharesBounded
  <2>1. SUFFICES ASSUME ShareInv  PROVE  SharesBounded
    OBVIOUS
  <2>2. Doomed({}) = {} /\ IsFiniteSet({}) /\ Cardinality({}) = 0
    BY FS_EmptySet DEF Doomed
  <2>3. Cardinality(DOMAIN shares \ Doomed({})) + Cardinality(Makers) + Cardinality({})
            < MaxShares + Cardinality(Sharers)
    BY <2>1 DEF ShareInv, RoomOK
  <2>4. DOMAIN shares \ Doomed({}) = DOMAIN shares
    BY <2>2
  <2>5. Makers \in SUBSET Sharers
    BY DEF Makers
  <2>6. Cardinality(Makers) \in Nat /\ Cardinality(Sharers) \in Nat /\ MaxShares \in Nat
    BY <2>5, ShareLimits
  <2>7. Cardinality(DOMAIN shares) \in Nat
    BY <2>1, FS_CardinalityType DEF ShareInv, RoomOK
  <2>8. QED  BY <2>2, <2>3, <2>4, <2>6, <2>7 DEF SharesBounded
<1>3. ShareInv => ShareTypeOK /\ SharesTimed
  BY DEF ShareInv
<1>4. QED  BY <1>1, <1>2, <1>3, ShareStepInv, PTL DEF ShareSpec

\* Received files and shared screenshots together.
THEOREM TransfersAreSafe == DownloadSpec /\ ShareSpec => []TransfersSafe
<1>1. (DownloadTypeOK /\ NoTempLeft) /\ (ShareTypeOK /\ SharesBounded /\ SharesTimed) => TransfersSafe
  BY DEF TransfersSafe
<1>2. QED  BY <1>1, DownloadsLeaveNothing, SharesAreBounded, PTL

-----------------------------------------------------------------------------
(* The tools together.                                                      *)

\* Whatever is asked of git_workflow_tools.py and github_tools.py: the repository stays one git
\* could have, pushes and acts that were answered are audited, and GitHub is touched once, as granted.
THEOREM RemoteIsSafe == GitSpec /\ HubSpec => []RemoteSafe
<1>1. GitTypeOK /\ AnswersAudited /\ ActsAudited /\ ActsAsGranted => RemoteSafe
  BY DEF RemoteSafe
<1>2. QED  BY <1>1, GitTypesHold, PushesAreAudited, ActsAreAudited, ActsAreGranted, PTL

\* No step of an edit, of a git tool or of a download loses what it was not asked to: an edit nobody
\* confirmed to discard, a pull half done, the remote, an older branch, a preview, a file that is there.
THEOREM NothingGetsLost == GitSpec /\ EditSpec /\ DownloadSpec => NothingIsLost
  BY EditsAreNotLost, PullsLeaveNone, RemoteIsGuarded, YoungBranchesGo, PreviewsAreHarmless,
     DownloadsOverwriteNothing, PTL DEF NothingIsLost
=============================================================================
