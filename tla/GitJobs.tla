------------------------------ MODULE GitJobs ------------------------------
(* What requests ask of git_workflow_tools in the instances for TLC: every *)
(* tool, with and without the confirmation, preview and options it looks   *)
(* at.                                                                     *)

Job(tool, br, opts) ==
    [tool |-> tool, br |-> br, opts |-> opts, edits |-> {}, confirmed |-> FALSE, dry |-> FALSE]
Sure(j) == [j EXCEPT !.confirmed = TRUE]
Preview(j) == [j EXCEPT !.dry = TRUE]
All(j) == [j EXCEPT !.edits = {"e"}]

SwitchJobs == {Job("switch", "task", {"create", "stash_first"}), Job("switch", "task", {"stash_first"}),
    Job("switch", "main", {}), Job("create", "task", {}), Job("create", "task", {"checkout"})}
TreeJobs == {All(Job("add", "", {})), Preview(All(Job("add", "", {}))), All(Job("restore", "", {"staged"})),
    All(Sure(Job("restore", "", {}))), Job("stash", "", {}), Sure(Job("stash", "", {"pop"})),
    Job("stash", "", {"pop"}), Job("stash", "", {"apply"}), Sure(Job("stash", "", {"drop"})),
    Sure(Job("reset", "", {"hard"})), Sure(Job("reset", "", {"soft"})), Sure(Job("reset", "", {}))}
RemoteJobs == {Job("fetch", "", {}), Job("pull", "", {}), Sure(Job("pull", "", {"no_ff"})),
    Sure(Job("pull", "", {"rebase"})), Job("push", "main", {}), Sure(Job("push", "main", {})),
    Sure(Job("push", "main", {"force"})), Preview(Sure(Job("push", "main", {})))}
MergeJobs == {Sure(Job("merge", "task", {"no_ff"})), Job("merge", "task", {"abort"}), Sure(Job("revert", "", {})),
    Sure(Job("revert", "", {"no_commit"}))}
WorktreeJobs == {Sure(Job("prepare", "task", {})), Preview(Job("prepare", "task", {})),
    Job("worktree", "task", {}), Sure(Job("remove", "task", {}))}

GitAsked == SwitchJobs \union TreeJobs \union RemoteJobs \union MergeJobs \union WorktreeJobs
=============================================================================
