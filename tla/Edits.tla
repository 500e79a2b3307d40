------------------------------- MODULE Edits -------------------------------
(***************************************************************************)
(* edit_tools.py: the text edits, the batch with its rollback, the mission *)
(* and the patch, called by several requests at once.  A text is a         *)
(* sequence of fragments; NL ends a line, NUL makes a file binary, and a   *)
(* hash stands for the text it is the hash of.                             *)
(***************************************************************************)
EXTENDS Naturals, FiniteSets, Sequences, SequencesExt

CONSTANTS
    Editors,        \* requests that edit, one each
    EditsWanted,    \* what a request may ask: [kind, ops, atomic, dry, base]
    Files, Folders, \* paths; the root, "", always exists
    FolderOf,       \* the parent of a file
    Barred,         \* files the writable globs leave out
    InitDisks,      \* the workspace before the calls
    Fragments,      \* what texts are made of
    MaxLen,         \* MAX_WRITE_FILE_BYTES
    MaxOps,         \* MAX_BATCH_OPERATIONS
    RequireHash,    \* REQUIRE_EXPECTED_HASH_FOR_WRITES
    MayMove,        \* ALLOW_MOVE_DELETE_OPERATIONS
    Faults          \* bound on the writes the system refuses

VARIABLES
    disk,           \* file -> text, for the files that exist
    folders,        \* the folders that exist
    head,           \* commits since the start
    editCalls,      \* the calls, see EditInit
    faults

editVars == <<disk, folders, head, editCalls, faults>>

NL == "nl"
NUL == "nul"
Texts == Seq(Fragments)
Files0 == Files \union {""}

\* An operation with nothing filled in.
Idle == [op |-> "", path |-> "", to |-> "", text |-> <<>>, from |-> 0, upto |-> 0, find |-> "",
         all |-> FALSE, after |-> FALSE, may |-> FALSE, expect |-> <<>>]

\* What the constants must be: the root is not a file, and a request is a list of operations.
ASSUME EditsAssumption ==
    /\ {NL, NUL} \subseteq Fragments /\ Barred \subseteq Files /\ "" \notin Files
    /\ FolderOf \in [Files -> Folders \union {""}]
    /\ \A d \in InitDisks : DOMAIN d \subseteq Files
    /\ \A j \in EditsWanted :
        /\ j.ops \in Seq({j.ops[i] : i \in DOMAIN j.ops}) /\ j.atomic \in BOOLEAN /\ j.dry \in BOOLEAN
        /\ \A i \in DOMAIN j.ops : DOMAIN j.ops[i] = DOMAIN Idle

-----------------------------------------------------------------------------
(* The edits: what a text becomes, or {} when the edit is refused.          *)

Ends(t) == {i \in DOMAIN t : t[i] = NL \/ i = Len(t)}
LineCount(t) == Cardinality(Ends(t))
EndOf(t, n) == IF n = 0 THEN 0 ELSE CHOOSE i \in Ends(t) : Cardinality({j \in Ends(t) : j <= i}) = n
LineOf(t, n) == SubSeq(t, EndOf(t, n - 1) + 1, EndOf(t, n))
Ended(c) == IF c = <<>> \/ Last(c) = NL THEN c ELSE Append(c, NL)
Spliced(t, i, j, c) == SubSeq(t, 1, i) \o c \o SubSeq(t, j + 1, Len(t))
Places(t, x) == {i \in DOMAIN t : t[i] = x}
ReplacedAll(t, x, c) == FlattenSeq([i \in DOMAIN t |-> IF t[i] = x THEN c ELSE <<t[i]>>])

\* Mutant of InsertAtLine: the index of insert_after_line is one line too far up.
InsertAtLineBefore(t, n, c, after) ==
    IF n \in 1..LineCount(t) THEN LET i == EndOf(t, n - 1) IN {Spliced(t, i, i, Ended(c))} ELSE {}

InsertAtLine(t, n, c, after) ==
    IF n \in 1..LineCount(t) THEN LET i == EndOf(t, IF after THEN n ELSE n - 1) IN {Spliced(t, i, i, Ended(c))} ELSE {}

Lines(t, o, c) ==
    IF o.from >= 1 /\ o.from <= o.upto /\ o.upto <= LineCount(t)
    THEN {Spliced(t, EndOf(t, o.from - 1), EndOf(t, o.upto), c)} ELSE {}

HeadingLines(t, x) == {n \in 1..LineCount(t) : LineOf(t, n) \in {<<x>>, <<x, NL>>}}

Replaced(t, o) ==
    LET found == Places(t, o.find) IN
    IF found = {} THEN {} ELSE IF o.all THEN {ReplacedAll(t, o.find, o.text)} ELSE {Spliced(t, Min(found) - 1, Min(found), o.text)}

Inserted(t, o) ==
    LET found == Places(t, o.find)
        i == IF o.after THEN Min(found) ELSE Min(found) - 1 IN
    IF found = {} THEN {} ELSE {Spliced(t, i, i, o.text)}

Deleted(t, o) ==
    LET found == Places(t, o.find) IN
    IF o.find = "" THEN Lines(t, o, <<>>) ELSE IF found = {} THEN {} ELSE {Spliced(t, Min(found) - 1, Min(found), <<>>)}

InsertAtHeading(t, o) ==
    LET found == HeadingLines(t, o.find) IN
    IF found = {} THEN {} ELSE InsertAtLine(t, Min(found), o.text, o.after)

Appended(t, o) == {Ended(Ended(t) \o o.text)}

\* The dispatch of _run_operation.
Edited(o, t) ==
    CASE o.op = "replace" -> Replaced(t, o)
      [] o.op = "insert" -> Inserted(t, o)
      [] o.op = "delete_text" -> Deleted(t, o)
      [] o.op = "replace_lines" -> Lines(t, o, Ended(o.text))
      [] o.op = "insert_line" -> InsertAtLine(t, o.from, o.text, o.after)
      [] o.op = "insert_heading" -> InsertAtHeading(t, o)
      [] o.op = "append" -> Appended(t, o)
      [] OTHER -> {}

TextOps == {"replace", "insert", "delete_text", "replace_lines", "insert_line", "insert_heading", "append"}

-----------------------------------------------------------------------------
(* Policy, reads and writes.                                                *)

TextAt(f) == IF f \in DOMAIN disk THEN <<disk[f]>> ELSE <<>>
Plain(t) == Len(t) <= MaxLen /\ Places(t, NUL) = {}
\* resolve_write_path
Writable(f, create) == f \in Files \ Barred /\ (create \/ f \in DOMAIN disk)
Readable(f) == f \in DOMAIN disk => Plain(disk[f])

\* Mutant of Checked: a hash only has to be there.
CheckedLoosely(e, old) == old = <<>> \/ (RequireHash => e # <<>>)

Checked(e, old) == (e = <<>> /\ old = <<>>) \/ ((RequireHash => e # <<>>) /\ (e # <<>> => old = e))

Paths(o) == {o.path, o.to} \ {""}
Without(d, f) == Restrict(d, DOMAIN d \ {f})
Holding(d, f, t) == [x \in DOMAIN d \union {f} |-> IF x = f THEN t ELSE d[x]]
Joined(d, e) == [x \in DOMAIN d \union DOMAIN e |-> IF x \in DOMAIN d THEN d[x] ELSE e[x]]
Holds(f, t) == Holding(disk, f, t)
Fault == faults < Faults /\ faults' = faults + 1

\* What the others see of a change to `files`; an open file follows a move, and is cut
\* off by an unlink.
Step(c, rec, files, moved) ==
    editCalls' = [d \in Editors |-> IF d = c THEN rec ELSE
                [editCalls[d] EXCEPT !.foreign = @ \union files, 
                                 !.file = IF editCalls[d].pc = "fill" /\ @ \in DOMAIN moved THEN moved[@] ELSE @]]
Goes(c, rec) == Step(c, rec, {}, <<>>)

\* The end of an operation of a call: the next one, the rollback, or the result.
Next1(k) == IF k.i = Len(k.job.ops) THEN [k EXCEPT !.pc = "done"] ELSE [k EXCEPT !.pc = "op", !.i = @ + 1, !.op = k.job.ops[k.i + 1]]
Ok(k, r) == Next1([k EXCEPT !.results = Append(@, r)])

\* Mutant of OpFailed: a preview goes on behind the operation that failed.
OpFailedOn(k) ==
    LET f == [k EXCEPT !.results = Append(@, "failed")] IN
    IF k.job.atomic /\ ~k.job.dry THEN [f EXCEPT !.pc = "undo", !.rolled = TRUE, !.todo = DOMAIN k.snap] ELSE Next1(f)

\* batch_edit_files, the except branch.
OpFailed(k) ==
    LET f == [k EXCEPT !.results = Append(@, "failed")] IN
    IF k.job.atomic /\ ~k.job.dry THEN [f EXCEPT !.pc = "undo", !.rolled = TRUE, !.todo = DOMAIN k.snap]
    ELSE IF k.job.atomic THEN [f EXCEPT !.pc = "done"] ELSE Next1(f)

\* Mutant of Result: a preview is written.
ResultAnyway(k, new) ==
    LET old == IF k.op.path \in DOMAIN disk THEN disk[k.op.path] ELSE <<>> IN
    IF new = old THEN Ok(k, "same") ELSE [k EXCEPT !.pc = "open", !.file = k.op.path, !.new = new]

\* The tail of every change of a text: a preview, no change, or the write.
Result(k, new) ==
    LET old == IF k.op.path \in DOMAIN disk THEN disk[k.op.path] ELSE <<>> IN
    IF new = old \/ k.job.dry THEN Ok(k, IF new = old THEN "same" ELSE "changed")
    ELSE [k EXCEPT !.pc = "open", !.file = k.op.path, !.new = new]

-----------------------------------------------------------------------------
EditInit ==
    /\ disk \in InitDisks /\ folders = {""} \union {FolderOf[f] : f \in DOMAIN disk} /\ head = 0 /\ faults = 0
    /\ editCalls = [c \in Editors |-> [pc |-> "idle", job |-> [kind |-> "", ops |-> <<>>, atomic |-> FALSE, dry |-> TRUE, base |-> {}],
                 i |-> 1, op |-> Idle, new |-> <<>>, file |-> "", snap |-> <<>>, todo |-> {}, results |-> <<>>, rolled |-> FALSE,
                 foreign |-> {}, before |-> disk]]

\* _run_operation's dispatch is the choice of the step; single tools are a batch of one
\* that is not atomic.  apply_change_set refuses an empty list and operations without a name.
BeginEdit(c) ==
    /\ editCalls[c].pc = "idle"
    /\ \E j \in EditsWanted :
        LET k == [editCalls[c] EXCEPT !.job = j, !.before = disk, !.foreign = {}] IN
        Goes(c, IF \/ Len(j.ops) > MaxOps
                   \/ j.kind = "set" /\ (j.ops = <<>> \/ \E i \in DOMAIN j.ops : j.ops[i].op = "")
                THEN [k EXCEPT !.pc = "raised"]
                ELSE IF j.ops = <<>> THEN [k EXCEPT !.pc = "done"]
                ELSE [k EXCEPT !.op = j.ops[1], !.todo = UNION {Paths(j.ops[i]) : i \in DOMAIN j.ops},
                       !.pc = IF j.kind = "patch" THEN "head" ELSE IF j.atomic /\ ~j.dry THEN "snap" ELSE "op"])
    /\ UNCHANGED <<disk, folders, head, faults>>

\* Mutant of Snap: the destination of a move is not read.
SnapSources(c) ==
    LET k == editCalls[c] IN
    /\ k.pc = "snap"
    /\ IF k.todo = {} THEN Goes(c, [k EXCEPT !.pc = "op"])
       ELSE LET f == CHOOSE f \in k.todo : TRUE IN
            Goes(c, IF ~Readable(f) THEN [k EXCEPT !.pc = "raised"]
                    ELSE IF \E i \in DOMAIN k.job.ops : k.job.ops[i].to = f THEN [k EXCEPT !.todo = @ \ {f}]
                    ELSE [k EXCEPT !.snap = Holding(@, f, TextAt(f)), !.todo = @ \ {f}])
    /\ UNCHANGED <<disk, folders, head, faults>>

\* _snapshot_paths, one path; a file that is not plain text raises out of the batch.
Snap(c) ==
    LET k == editCalls[c] IN
    /\ k.pc = "snap"
    /\ IF k.todo = {} THEN Goes(c, [k EXCEPT !.pc = "op"])
       ELSE LET f == CHOOSE f \in k.todo : TRUE IN
            Goes(c, IF ~Readable(f) THEN [k EXCEPT !.pc = "raised"]
                    ELSE [k EXCEPT !.snap = Holding(@, f, TextAt(f)), !.todo = @ \ {f}])
    /\ UNCHANGED <<disk, folders, head, faults>>

\* update_current_mission reads the text for its hash and goes on as an insertion.
Mission(c) ==
    LET k == editCalls[c]
        o == k.op IN
    /\ k.pc = "op" /\ o.op = "mission"
    /\ Goes(c, IF ~Writable(o.path, FALSE) \/ ~Readable(o.path) THEN OpFailed(k)
               ELSE [k EXCEPT !.op = [o EXCEPT !.op = "insert_heading", !.expect = TextAt(o.path)]])
    /\ UNCHANGED <<disk, folders, head, faults>>

\* Mutant of LookAtText: the hash is left to the second read.
LookUnchecked(c) ==
    LET k == editCalls[c]
        o == k.op
        old == TextAt(o.path) IN
    /\ k.pc = "op" /\ o.op \in TextOps
    /\ Goes(c, IF ~Writable(o.path, FALSE) \/ ~Readable(o.path) \/ Edited(o, old[1]) = {} THEN OpFailed(k)
               ELSE [k EXCEPT !.pc = "again", !.new = CHOOSE t \in Edited(o, old[1]) : TRUE])
    /\ UNCHANGED <<disk, folders, head, faults>>

\* The first read of an edit: the new text is made here.
LookAtText(c) ==
    LET k == editCalls[c]
        o == k.op
        old == TextAt(o.path)
        bad == ~Writable(o.path, FALSE) \/ ~Readable(o.path) IN
    /\ k.pc = "op" /\ o.op \in TextOps
    /\ Goes(c, IF bad \/ ~Checked(o.expect, old) \/ Edited(o, old[1]) = {} THEN OpFailed(k)
               ELSE [k EXCEPT !.pc = "again", !.new = CHOOSE t \in Edited(o, old[1]) : TRUE])
    /\ UNCHANGED <<disk, folders, head, faults>>

\* _apply_text_change: resolve, read and check again; write_text_file starts here.
Again(c) ==
    LET k == editCalls[c]
        o == k.op
        new == IF o.op = "write" THEN o.text ELSE k.new IN
    /\ k.pc = "again" \/ (k.pc = "op" /\ o.op = "write")
    /\ Goes(c, IF /\ Writable(o.path, o.op = "write" /\ o.may) /\ Readable(o.path)
                  /\ Checked(o.expect, TextAt(o.path)) /\ Plain(new)
               THEN Result(k, new) ELSE OpFailed(k))
    /\ UNCHANGED <<disk, folders, head, faults>>

\* create_text_file; no hash is asked for.
Create(c) ==
    LET k == editCalls[c]
        o == k.op IN
    /\ k.pc = "op" /\ o.op = "create_file"
    /\ Goes(c, IF Writable(o.path, TRUE) /\ (TextAt(o.path) = <<>> \/ o.may) /\ Readable(o.path) /\ Plain(o.text)
               THEN Result(k, o.text) ELSE OpFailed(k))
    /\ UNCHANGED <<disk, folders, head, faults>>

\* delete_path, move_path and ensure_directory: the checks.
PlanChange(c) ==
    LET k == editCalls[c]
        o == k.op
        source == MayMove /\ Writable(o.path, FALSE) /\ Readable(o.path) /\ Checked(o.expect, TextAt(o.path))
        good == CASE o.op = "delete_file" -> source
                  [] o.op = "move" -> source /\ Writable(o.to, TRUE) /\ (TextAt(o.to) = <<>> \/ (o.may /\ Readable(o.to)))
                  [] o.op = "ensure_directory" -> o.path \in Folders
                  [] OTHER -> FALSE
        changes == CASE o.op = "move" -> o.path # o.to [] o.op = "ensure_directory" -> o.path \notin folders [] OTHER -> TRUE IN
    /\ k.pc = "op" /\ o.op \notin TextOps \union {"mission", "write", "create_file"}
    /\ Goes(c, IF ~good THEN OpFailed(k)
               ELSE IF ~changes \/ k.job.dry THEN Ok(k, IF changes THEN "changed" ELSE "same")
               ELSE [k EXCEPT !.pc = "do"])
    /\ UNCHANGED <<disk, folders, head, faults>>

\* Where an open file is after a move, an overwriting and an unlink.
Moved(o) ==
    [f \in IF o.op = "move" THEN Paths(o) ELSE {o.path} |-> IF o.op = "move" /\ f = o.path THEN o.to ELSE ""]

\* unlink, mkdir and shutil.move; a file that is gone meanwhile fails the operation.
Do(c) ==
    LET k == editCalls[c]
        o == k.op
        mkdir == o.op = "ensure_directory"
        gone == ~mkdir /\ TextAt(o.path) = <<>> IN
    /\ k.pc = "do" /\ UNCHANGED <<head, faults>>
    /\ folders' = folders \union (IF mkdir THEN {o.path} ELSE IF o.op = "move" THEN {FolderOf[o.to]} ELSE {})
    /\ disk' = (IF mkdir \/ gone THEN disk ELSE IF o.op = "move" THEN Without(Holds(o.to, disk[o.path]), o.path) ELSE Without(disk, o.path))
    /\ IF mkdir THEN Goes(c, Ok(k, "changed")) ELSE IF gone THEN Goes(c, OpFailed(k))
       ELSE Step(c, Ok(k, "changed"), Paths(o), Moved(o))

\* Mutant of Open: the parent is not made.
OpenWithoutParent(c) ==
    LET k == editCalls[c] IN
    /\ k.pc = "open" /\ UNCHANGED <<folders, head>>
    /\ \/ /\ Step(c, [k EXCEPT !.pc = "fill"], {k.file}, <<>>) /\ UNCHANGED faults
          /\ disk' = Holds(k.file, <<>>)
       \/ Fault /\ Goes(c, IF k.rolled THEN [k EXCEPT !.pc = "raised"] ELSE OpFailed(k)) /\ UNCHANGED disk

\* write_text: the parents are made and the file is truncated, ...
Open(c) ==
    LET k == editCalls[c] IN
    /\ k.pc = "open"
    /\ \/ /\ Step(c, [k EXCEPT !.pc = "fill"], {k.file}, <<>>) /\ UNCHANGED faults
          /\ disk' = Holds(k.file, <<>>) /\ folders' = folders \union {FolderOf[k.file]}
       \/ /\ Fault /\ Goes(c, IF k.rolled THEN [k EXCEPT !.pc = "raised"] ELSE OpFailed(k))
          /\ UNCHANGED <<disk, folders>>
    /\ UNCHANGED head

\* ... the text is written to the file that was opened, wherever it is now.
Fill(c) ==
    LET k == editCalls[c] IN
    /\ k.pc = "fill"
    /\ \/ /\ UNCHANGED faults
          /\ disk' = (IF k.file \in DOMAIN disk THEN Holds(k.file, k.new) ELSE disk)
          /\ Step(c, IF k.rolled THEN [k EXCEPT !.pc = "undo"] ELSE Ok(k, "changed"), {k.file} \ {""}, <<>>)
       \/ /\ Fault /\ Goes(c, IF k.rolled THEN [k EXCEPT !.pc = "raised"] ELSE OpFailed(k)) /\ UNCHANGED disk
    /\ UNCHANGED <<folders, head>>

\* _restore_snapshot, one path.
UndoOne(c) ==
    LET k == editCalls[c]
        f == CHOOSE f \in k.todo : TRUE IN
    /\ k.pc = "undo"
    /\ IF k.todo = {} THEN Goes(c, [k EXCEPT !.pc = "done"]) /\ UNCHANGED disk
       ELSE IF k.snap[f] # <<>>
       THEN Goes(c, [k EXCEPT !.pc = "open", !.file = f, !.new = k.snap[f][1], !.todo = @ \ {f}]) /\ UNCHANGED disk
       ELSE Step(c, [k EXCEPT !.todo = @ \ {f}], {f} \intersect Files, [x \in {f} |-> ""]) /\ disk' = Without(disk, f)
    /\ UNCHANGED <<folders, head, faults>>

\* apply_patch_diff: HEAD, the paths, git apply --check and git apply, which checks again
\* and writes every file or none.
Patch(c) ==
    LET k == editCalls[c]
        ops == Range(k.job.ops)
        fits == \A o \in ops : TextAt(o.path) = o.expect
        new == [f \in {o.path : o \in ops} |-> (CHOOSE o \in ops : o.path = f).text] IN
    /\ k.pc \in {"head", "check", "apply"}
    /\ IF k.pc = "apply" /\ fits
       THEN /\ disk' = Joined(new, disk) /\ folders' = folders \union {FolderOf[f] : f \in DOMAIN new}
            /\ Step(c, [k EXCEPT !.pc = "done", !.results = <<"changed">>], DOMAIN new, [f \in DOMAIN new |-> ""])
       ELSE /\ Goes(c, IF k.pc = "head" /\ (k.job.base \in {{}, {head}}) /\ \A o \in ops : Writable(o.path, TRUE)
                       THEN [k EXCEPT !.pc = "check"]
                       ELSE IF k.pc = "check" /\ fits
                       THEN (IF k.job.dry THEN [k EXCEPT !.pc = "done", !.results = <<"changed">>] ELSE [k EXCEPT !.pc = "apply"])
                       ELSE [k EXCEPT !.pc = "raised"])
            /\ UNCHANGED <<disk, folders>>
    /\ UNCHANGED <<head, faults>>

\* Somebody commits, once.
Commit == head = 0 /\ head' = 1 /\ UNCHANGED <<disk, folders, editCalls, faults>>

CallStep(c) ==
    \/ BeginEdit(c) \/ Snap(c) \/ Mission(c) \/ LookAtText(c) \/ Again(c) \/ Create(c) \/ PlanChange(c) \/ Do(c)
    \/ Open(c) \/ Fill(c) \/ UndoOne(c) \/ Patch(c)

EditNext == Commit \/ \E c \in Editors : CallStep(c)

EditSpec == EditInit /\ [][EditNext]_editVars

-----------------------------------------------------------------------------
\* The files hold texts, every folder of a file exists, and a call is where its code can be.
EditTypeOK ==
    /\ DOMAIN disk \subseteq Files /\ \A f \in DOMAIN disk : disk[f] \in Texts
    /\ {""} \union {FolderOf[f] : f \in DOMAIN disk} \subseteq folders /\ folders \subseteq Folders \union {""}
    /\ head \in 0..1 /\ faults \in 0..Faults
    /\ \A c \in Editors : LET k == editCalls[c] IN
        /\ k.pc \in {"idle", "snap", "op", "again", "open", "fill", "do", "undo", "head", "check", "apply", "done", "raised"}
        /\ k.new \in Texts /\ k.file \in Files0 /\ k.results \in Seq({"same", "changed", "failed"})
        /\ DOMAIN k.snap \subseteq Files \union Folders /\ k.todo \subseteq Files \union Folders /\ k.foreign \subseteq Files

\* A batch that says it rolled back has put back every file that nobody else changed since it
\* began: the files it wrote, moved, overwrote, created and deleted, also when a write failed
\* half way.
UndoneIsAsBefore ==
    \A c \in Editors : editCalls[c].pc = "done" /\ editCalls[c].rolled =>
        \A f \in Files \ editCalls[c].foreign :
            TextAt(f) = IF f \in DOMAIN editCalls[c].before THEN <<editCalls[c].before[f]>> ELSE <<>>

\* An edit under a hash writes what the edit makes of the text that was named, although the
\* text is made at the first read and the file is read again before the write.
MadeOfTheNamedText ==
    \A c \in Editors : LET k == editCalls[c] IN
        k.pc \in {"open", "fill"} /\ ~k.rolled /\ k.op.op \in TextOps /\ k.op.expect # <<>>
            => Edited(k.op, k.op.expect[1]) = {k.new}

\* An edit of a file that ends its last line keeps the other lines as they are, in order:
\* those up to the place of the edit at the front, those after it at the end.
OtherLinesKept ==
    \A c \in Editors : LET k == editCalls[c]
                         t == k.op.expect[1] IN
        /\ k.pc = "again" /\ k.op.op \in {"insert_line", "replace_lines"} /\ k.op.expect # <<>> /\ Ended(t) = t
        => LET front == IF k.op.op = "insert_line" /\ k.op.after THEN k.op.from ELSE k.op.from - 1
               back == IF k.op.op = "insert_line" THEN front ELSE k.op.upto IN
           /\ \A n \in 1..front : LineOf(k.new, n) = LineOf(t, n)
           /\ \A n \in 1..(LineCount(t) - back) : LineOf(k.new, LineCount(k.new) + 1 - n) = LineOf(t, LineCount(t) + 1 - n)

\* The workspace holds texts, in folders that are there, and an edit by lines keeps the other lines.
TextsSafe == EditTypeOK /\ OtherLinesKept

\* Every operation of a batch is reported once, in order, up to the one that stops it: only the
\* last of an atomic batch may have failed, and it ends the batch; any other is tried to the end.
ReportsAll ==
    \A c \in Editors : LET k == editCalls[c] IN k.pc = "done" /\ k.job.kind # "patch" =>
        LET bad == {i \in DOMAIN k.results : k.results[i] = "failed"} IN
        IF k.job.atomic /\ bad # {} THEN bad = {Len(k.results)} /\ k.rolled = ~k.job.dry
        ELSE Len(k.results) = Len(k.job.ops) /\ ~k.rolled

\* A preview changes nothing: no step of a call with dry_run touches a file or a folder.
PreviewsChangeNothing ==
    [][\A c \in Editors : editCalls[c].job.dry /\ editCalls[c].pc # "idle" /\ editCalls'[c].pc # editCalls[c].pc => UNCHANGED <<disk, folders>>]_editVars

\* docs/ARCHITECTURE.md:71 "Every write path is checked against ... WRITABLE_GLOBS": a file that
\* the globs leave out keeps its text.
BarredUntouched == [][\A f \in Barred : f \in DOMAIN disk => f \in DOMAIN disk' /\ disk'[f] = disk[f]]_editVars
=============================================================================
