------------------------------ MODULE EditJobs ------------------------------
(* What requests ask of edit_tools in the instances for TLC: single edits,  *)
(* batches that must be undone when their last operation fails, patches,    *)
(* over one file of two lines, one in a folder to be made, one that the     *)
(* writable globs leave out.                                                *)
LOCAL INSTANCE Naturals
LOCAL INSTANCE Sequences

EditFragments == {"nl", "nul", "a", "h", "x"}
TwoLines == <<"h", "nl", "a", "nl">>
EditDisks == {[f |-> TwoLines, b |-> <<"a">>], [f |-> TwoLines, g |-> <<"x", "nl">>, b |-> <<"a">>], [f |-> <<"a", "nul">>, b |-> <<"a">>]}
ParentOf == [f |-> "", g |-> "d", b |-> ""]

X == <<"x">>
Operation(op, p) ==
    [op |-> op, path |-> p, to |-> "", text |-> <<>>, from |-> 0, upto |-> 0, find |-> "",
     all |-> FALSE, after |-> FALSE, may |-> FALSE, expect |-> IF p = "f" THEN <<TwoLines>> ELSE <<>>]
Writing(op, p) == [Operation(op, p) EXCEPT !.text = X]
Insert == [Writing("insert_line", "f") EXCEPT !.from = 2, !.after = TRUE]
Rename == [Operation("move", "f") EXCEPT !.to = "g", !.may = TRUE]
Edit(kind, ops, atomic, dry) == [kind |-> kind, ops |-> ops, atomic |-> atomic, dry |-> dry, base |-> {}]
Single(o, dry) == Edit("single", <<o>>, FALSE, dry)

SingleEdits ==
    {Single(o, dry) : dry \in {TRUE, FALSE},
        o \in {Insert, [Operation("delete_text", "f") EXCEPT !.find = "a"], [Writing("append", "f") EXCEPT !.expect = <<>>]}}
    \union {Single(o, FALSE) :
        o \in {[Writing("mission", "f") EXCEPT !.find = "h"], [Writing("replace_lines", "f") EXCEPT !.from = 1, !.upto = 1],
               [Operation("replace", "f") EXCEPT !.find = "a", !.text = X \o X, !.all = TRUE],
               [Writing("insert", "f") EXCEPT !.find = "a"]}}
BatchEdits ==
    {Edit("set", <<Writing("write", "f"), Rename, Operation("unheard", "f")>>, TRUE, dry) : dry \in {TRUE, FALSE}}
    \union {Edit("batch", <<Operation("ensure_directory", "d"), Writing("create_file", "g"), Operation("delete_file", "f"), Operation("append", "b")>>, TRUE, FALSE),
            Edit("batch", <<Writing("create_file", "g"), Operation("delete_file", "b"), Operation("ensure_directory", "d")>>, FALSE, FALSE),
            Edit("set", <<>>, TRUE, FALSE)}
PatchEdits == {[Edit("patch", <<Writing("hunk", "f"), Writing("hunk", "g")>>, FALSE, dry) EXCEPT !.base = {0}] : dry \in {TRUE, FALSE}}

EditsAsked == SingleEdits \union BatchEdits \union PatchEdits
=============================================================================
