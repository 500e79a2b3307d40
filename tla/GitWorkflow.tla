---------------------------- MODULE GitWorkflow ----------------------------
(***************************************************************************)
(* git_workflow_tools.py: each tool is a sequence of git commands, with    *)
(* other calls, the owner and the remote between them.  A history is the   *)
(* set of its commits, an edit is what one author changed in the working   *)
(* tree, and git itself is the set of the outcomes a command may have, as  *)
(* git 2.39 has them.                                                      *)
(***************************************************************************)
EXTENDS Naturals, FiniteSets, Sequences, Functions

CONSTANTS
    GitUsers,       \* requests that use git, one each
    GitWanted,      \* what they ask: [tool, br, opts, edits, confirmed, dry]
    Branches, Main, \* names; Main is checked out at the start
    Protected,      \* protected_branches
    Secrets,        \* edits to files git_add leaves out
    FullAccess, AllowForce, AllowHard,
    OwnerEdits, Commits, Timeouts    \* bounds: the owner's edits, all commits, timeouts

VARIABLES
    repo,           \* the repository and its remote, see GitInit
    gitCalls,       \* [pc, job, saw, young, how, out]: the calls
    gitAudit,       \* the pushes in the audit log
    timeouts

gitVars == <<repo, gitCalls, gitAudit, timeouts>>

GitTools ==
    {"switch", "create", "add", "restore", "stash", "fetch", "pull", "push", "merge", "revert", "reset",
     "prepare", "worktree", "remove"}

\* What the constants must be: a request that may make a branch names one.
ASSUME GitAssumption ==
    /\ Main \in Branches /\ Commits \in Nat /\ Timeouts \in Nat
    /\ \A j \in GitWanted : /\ j.tool \in GitTools
                            /\ j.tool \in {"switch", "create", "prepare", "worktree"} => j.br \in Branches

-----------------------------------------------------------------------------
(* What git does.                                                           *)

Did(r) == {[ok |-> TRUE, how |-> "", r |-> r]}
Not(r) == {[ok |-> FALSE, how |-> "", r |-> r]}
Stops(r, how) == {[ok |-> FALSE, how |-> how, r |-> r]}
Changes(r) == r.edits \union r.staged
Conflicted(r) == r.unmerged
Here(r) == r.branches[r.cur]
Busy(r) == r.merging # {} \/ r.unmerged
\* git merge, pull and rebase name the conflict that they find; the others do not.
Refuse(r) == IF r.unmerged THEN Stops(r, "conflict") ELSE Not(r)
Setting(f, b, history) == [x \in DOMAIN f \union {b} |-> IF x = b THEN history ELSE f[x]]
With(r, b, history) == [r EXCEPT !.branches = Setting(@, b, history)]

Committed(r) == [With(r, r.cur, Here(r) \union {r.made + 1}) EXCEPT !.made = @ + 1]

\* What git revert --no-commit leaves in the index is a change like any other.
Reverted == "reverted"

\* The paths of a command may be the last that conflict; what was changed in them is staged by then.
Settling(r) == Did(r) \union (IF r.unmerged /\ r.fixes \subseteq r.staged THEN Did([r EXCEPT !.unmerged = FALSE]) ELSE {})

GitSwitch(r, b, create) ==
    IF r.merging # {} \/ (r.unmerged /\ ~create) \/ (b \in DOMAIN r.branches) = create \/ b \in r.trees THEN Not(r)
    ELSE Did([(IF create THEN With(r, b, Here(r)) ELSE r) EXCEPT !.cur = b]) \union (IF create \/ Changes(r) = {} THEN {} ELSE Not(r))

GitBranch(r, b) == IF b \in DOMAIN r.branches THEN Not(r) ELSE Did(With(r, b, Here(r)))
GitBranchDelete(r, b) ==
    IF b \notin DOMAIN r.branches \/ b = r.cur \/ b \in r.trees THEN Not(r)
    ELSE Did([r EXCEPT !.branches = Restrict(@, DOMAIN @ \ {b})])

\* stash push: a merge or a revert that is resolved is over with it, a rebase is not.
GitStash(r) ==
    IF r.unmerged THEN Not(r) ELSE IF Changes(r) = {} THEN Did(r)
    ELSE Did([r EXCEPT !.stashes = <<Changes(r)>> \o @, !.edits = {}, !.staged = {}, !.fixes = {}, !.merging = @ \intersect {"rebase"}])

\* stash pop and apply: a pop that conflicts, with a commit or with a change, keeps the entry.
GitUnstash(r, keep) ==
    IF r.stashes = <<>> \/ r.unmerged THEN Not(r)
    ELSE LET back == [r EXCEPT !.edits = @ \union Head(r.stashes)] IN
         Did(IF keep THEN back ELSE [back EXCEPT !.stashes = Tail(@)])
            \union (IF Changes(r) = {} THEN {} ELSE Not(r))
            \union UNION {Stops([back EXCEPT !.unmerged = TRUE, !.fixes = @ \union Head(r.stashes) \union F], "stash") : F \in SUBSET Changes(r)}

\* merge, pull and rebase of `theirs`: a merge of two lines wants a clean index, a rebase a clean tree.
GitMerge(r, theirs, how) ==
    IF r.unmerged \/ "merge" \in r.merging \/ (how = "rebase" /\ ("rebase" \in r.merging \/ Changes(r) # {})) THEN Refuse(r)
    ELSE IF theirs \subseteq Here(r) THEN Did(r)
    ELSE IF Here(r) \subseteq theirs /\ how # "no_ff" THEN Did(With(r, r.cur, theirs)) \union (IF Changes(r) = {} THEN {} ELSE Not(r))
    ELSE IF how = "ff_only" \/ r.staged # {} THEN Not(r)
    ELSE Did(With(r, r.cur, Here(r) \union theirs)) \union (IF r.edits = {} THEN {} ELSE Not(r))
            \union (IF Here(r) \subseteq theirs THEN {}
                    ELSE Stops([r EXCEPT !.merging = @ \union {IF how = "rebase" THEN "rebase" ELSE "merge"}, !.unmerged = TRUE], "conflict"))

\* merge --abort and revert --abort are reset --merge: what is staged goes, with what was changed
\* where it conflicted; git refuses when a file is staged and was changed again.  A rebase is ended
\* by reset --hard: everything goes.
GitAbort(r, how) ==
    IF how \notin r.merging THEN Not(r)
    ELSE LET left == IF how = "rebase" THEN {} ELSE r.edits \ r.fixes IN
         Did([r EXCEPT !.merging = @ \intersect ({"rebase"} \ {how}), !.unmerged = FALSE, !.edits = left, !.staged = {}, !.fixes = {}])
            \union (IF r.staged = {} \/ left = {} THEN {} ELSE Not(r))

\* revert, which wants a clean index unless it leaves the commit to others.
GitRevert(r, no_commit) ==
    IF r.unmerged \/ (~no_commit /\ r.staged # {}) THEN Not(r)
    ELSE Did(IF no_commit THEN [r EXCEPT !.staged = @ \union {Reverted}, !.merging = @ \union {"revert"}]
             ELSE [Committed(r) EXCEPT !.merging = @ \ {"revert"}])
            \union (IF Changes(r) = {} THEN {} ELSE Not(r))
            \union Stops([r EXCEPT !.merging = @ \union {"revert"}, !.unmerged = TRUE], "conflict")

GitReset(r, mode) ==
    LET h == Here(r)
        up == IF Cardinality(h) > 1 THEN h \ {CHOOSE x \in h : \A y \in h : y <= x} ELSE h IN
    IF mode = "soft" /\ (r.unmerged \/ "merge" \in r.merging) THEN Not(r)
    ELSE Did([With(r, r.cur, up) EXCEPT !.merging = @ \intersect {"rebase"}, !.unmerged = FALSE, !.fixes = {},
                !.edits = CASE mode = "hard" -> {} [] mode = "soft" -> @ [] OTHER -> Changes(r),
                !.staged = IF mode = "soft" THEN @ ELSE {}])

GitPush(r, b, force, dry) ==
    LET new == r.branches[b]
        was == IF b \in DOMAIN r.remote THEN r.remote[b] ELSE {}
        seen == IF b \in DOMAIN r.tracked THEN r.tracked[b] ELSE {} IN
    IF b \notin DOMAIN r.branches \/ ~(was \subseteq new \/ (force /\ seen = was)) THEN Not(r)
    ELSE Did(IF dry THEN r ELSE [r EXCEPT !.remote = Setting(@, b, new), !.tracked = Setting(@, b, new)])

GitWorktree(r, b, create) ==
    IF (b \in DOMAIN r.branches) = create \/ b \in r.trees \union {r.cur} THEN Not(r)
    ELSE Did([(IF create THEN With(r, b, Here(r)) ELSE r) EXCEPT !.trees = @ \union {b}])

-----------------------------------------------------------------------------
(* The tools.                                                               *)

Opt(j, o) == o \in j.opts

\* What a call has to be confirmed for.
Reasons(j) ==
    CASE j.tool = "restore" -> {"discard"} \ (IF Opt(j, "staged") THEN {"discard"} ELSE {})
      [] j.tool \in {"stash", "pull"} -> j.opts \intersect {"pop", "drop", "rebase", "no_ff"}
      [] j.tool = "push" -> ({j.br} \intersect Protected) \union (IF j.dry THEN {} ELSE {"real"}) \union (j.opts \intersect {"force"})
      [] j.tool = "merge" -> {"history"} \ (IF Opt(j, "abort") THEN {"history"} ELSE {})
      [] j.tool \in {"revert", "reset", "remove"} -> {"history"}
      [] j.tool = "prepare" -> IF j.dry THEN {} ELSE {"worktree"}
      [] OTHER -> {}

Refused(j) ==
    \/ j.tool = "add" /\ j.edits = {}
    \/ j.tool = "push" /\ Opt(j, "force") /\ ~AllowForce
    \/ j.tool = "reset" /\ Opt(j, "hard") /\ ~AllowHard

\* Mutant of Granted: only the tools that rewrite history are looked at.
GrantedHistory(j) == j.confirmed \/ FullAccess \/ "history" \notin Reasons(j)

Granted(j) == j.confirmed \/ FullAccess \/ Reasons(j) = {}

First(j) == CASE j.tool = "switch" -> "status" [] j.tool \in {"prepare", "worktree"} -> "look" [] OTHER -> "go"

CreateBranch(r, j) ==
    IF ~Opt(j, "checkout") THEN GitBranch(r, j.br) ELSE IF r.unmerged THEN Not(r) ELSE GitSwitch(r, j.br, TRUE)

AddPaths(r, j) ==
    LET S == (j.edits \ Secrets) \intersect r.edits IN
    IF j.dry \/ j.edits \subseteq Secrets THEN Did(r) ELSE Settling([r EXCEPT !.staged = @ \union S, !.edits = @ \ S])

RestorePaths(r, j) ==
    IF Opt(j, "staged") THEN Settling([r EXCEPT !.edits = @ \union (j.edits \intersect r.staged), !.staged = @ \ j.edits, !.fixes = @ \ j.edits])
    ELSE IF j.edits \intersect (r.fixes \ r.staged) # {} THEN Not(r)
    ELSE Did([r EXCEPT !.edits = @ \ j.edits])

StashAction(r, j) ==
    IF Opt(j, "pop") \/ Opt(j, "apply") THEN GitUnstash(r, Opt(j, "apply"))
    ELSE IF ~Opt(j, "drop") THEN GitStash(r)
    ELSE IF r.stashes = <<>> THEN Not(r) ELSE Did([r EXCEPT !.stashes = Tail(@)])

Fetch(r) == Did([r EXCEPT !.tracked = r.remote])

Pull(r, j) ==
    LET s == [r EXCEPT !.tracked = r.remote]
        how == IF Opt(j, "rebase") THEN "rebase" ELSE IF Opt(j, "no_ff") THEN "no_ff" ELSE "ff_only" IN
    IF r.unmerged \/ "merge" \in r.merging THEN Refuse(r)
    ELSE IF r.cur \notin DOMAIN r.remote THEN Not(s) ELSE GitMerge(s, r.remote[r.cur], how)

Push(r, j) == GitPush(r, j.br, Opt(j, "force"), j.dry)

Merge(r, j) ==
    IF Opt(j, "abort") THEN GitAbort(r, "merge")
    ELSE IF j.br \notin DOMAIN r.branches THEN Not(r)
    ELSE GitMerge(r, r.branches[j.br], IF Opt(j, "no_ff") THEN "no_ff" ELSE "merge")

Reset(r, j) == GitReset(r, IF Opt(j, "hard") THEN "hard" ELSE IF Opt(j, "soft") THEN "soft" ELSE "mixed")

AddWorktree(r, j) == GitWorktree(r, j.br, TRUE)

RemoveWorktree(r, j) == IF j.br \in r.trees THEN Did([r EXCEPT !.trees = @ \ {j.br}]) ELSE Not(r)

Command(r, j) ==
    CASE j.tool = "switch" -> GitSwitch(r, j.br, Opt(j, "create"))
      [] j.tool = "create" -> CreateBranch(r, j)
      [] j.tool = "add" -> AddPaths(r, j)
      [] j.tool = "restore" -> RestorePaths(r, j)
      [] j.tool = "stash" -> StashAction(r, j)
      [] j.tool = "fetch" -> Fetch(r)
      [] j.tool = "pull" -> Pull(r, j)
      [] j.tool = "push" -> Push(r, j)
      [] j.tool = "merge" -> Merge(r, j)
      [] j.tool = "revert" -> GitRevert(r, Opt(j, "no_commit"))
      [] j.tool = "reset" -> Reset(r, j)
      [] j.tool = "remove" -> RemoveWorktree(r, j)
      [] OTHER -> AddWorktree(r, j)

NoGitJob == [tool |-> "", br |-> "", opts |-> {}, edits |-> {}, confirmed |-> FALSE, dry |-> TRUE]

\* The repository has one branch, or a second one that went its own way.
GitInit ==
    /\ \E b \in Branches, n \in 0..1 :
          /\ n = (IF b = Main THEN 0 ELSE 1) /\ n <= Commits
          /\ repo = [edits |-> {}, staged |-> {}, stashes |-> <<>>, fixes |-> {}, merging |-> {}, unmerged |-> FALSE, cur |-> Main,
                     branches |-> [x \in {Main, b} |-> IF x = Main THEN {0} ELSE {0, 1}], trees |-> {}, made |-> n,
                     remote |-> [x \in {Main} |-> {0}], tracked |-> [x \in {Main} |-> {0}]]
    /\ gitCalls = [c \in GitUsers |-> [pc |-> "idle", job |-> NoGitJob, saw |-> FALSE, young |-> FALSE, how |-> "", out |-> ""]]
    /\ gitAudit = {} /\ timeouts = 0

To(c, pc) == gitCalls' = [gitCalls EXCEPT ![c].pc = pc]
GitEnd(c, out) == gitCalls' = [gitCalls EXCEPT ![c].pc = "end", ![c].out = out]

BeginGit(c) ==
    /\ gitCalls[c].pc = "idle"
    /\ \E j \in GitWanted : gitCalls' = [gitCalls EXCEPT ![c].job = j,
            ![c].pc = IF Refused(j) \/ ~Granted(j) THEN "end" ELSE First(j),
            ![c].out = IF Refused(j) THEN "error" ELSE IF Granted(j) THEN "" ELSE "confirmation_required"]
    /\ UNCHANGED <<repo, gitAudit, timeouts>>

\* git_switch_branch up to the stash.
Status(c) ==
    LET j == gitCalls[c].job
        dirty == Changes(repo) # {} \/ repo.unmerged IN
    /\ gitCalls[c].pc = "status"
    /\ IF dirty /\ ~Opt(j, "stash_first") THEN GitEnd(c, "git_dirty") ELSE To(c, IF dirty THEN "stash" ELSE "go")
    /\ UNCHANGED <<repo, gitAudit, timeouts>>

Stash(c) ==
    /\ gitCalls[c].pc = "stash"
    /\ \E o \in GitStash(repo) : /\ repo' = o.r
                                 /\ IF o.ok THEN gitCalls' = [gitCalls EXCEPT ![c].pc = "go", ![c].saw = TRUE] ELSE GitEnd(c, "error")
    /\ UNCHANGED <<gitAudit, timeouts>>

\* Mutant of LookForBranch: the branch is not looked for.
LookAwayFromBranch(c) ==
    LET there == gitCalls[c].job.br \in DOMAIN repo.branches
        prepare == gitCalls[c].job.tool = "prepare" IN
    /\ gitCalls[c].pc = "look"
    /\ IF prepare /\ gitCalls[c].job.dry THEN GitEnd(c, "ok") ELSE gitCalls' = [gitCalls EXCEPT ![c].pc = "go", ![c].young = ~there]
    /\ UNCHANGED <<repo, gitAudit, timeouts>>

\* prepare_task_worktree: the branch must not exist yet.
LookForBranch(c) ==
    LET there == gitCalls[c].job.br \in DOMAIN repo.branches
        prepare == gitCalls[c].job.tool = "prepare" IN
    /\ gitCalls[c].pc = "look"
    /\ IF prepare /\ there THEN GitEnd(c, "error") ELSE IF prepare /\ gitCalls[c].job.dry THEN GitEnd(c, "ok")
       ELSE gitCalls' = [gitCalls EXCEPT ![c].pc = "go", ![c].young = ~there]
    /\ UNCHANGED <<repo, gitAudit, timeouts>>

\* What follows the command of a tool.
After(c, o) ==
    LET k == gitCalls[c]
        t == k.job.tool IN
    IF t = "push" /\ ~k.job.dry THEN gitCalls' = [gitCalls EXCEPT ![c].pc = "audit", ![c].saw = o.ok]
    ELSE IF o.ok THEN GitEnd(c, "ok")
    ELSE IF t = "pull" \/ t = "revert" \/ (t = "merge" /\ ~Opt(k.job, "abort")) THEN gitCalls' = [gitCalls EXCEPT ![c].pc = "inspect", ![c].how = o.how]
    ELSE IF t = "switch" /\ k.saw THEN To(c, "unstash")
    ELSE IF t = "prepare" THEN To(c, "undo")
    ELSE GitEnd(c, "error")

\* The command; a network command may time out with its work done or not.
Go(c) ==
    LET k == gitCalls[c] IN
    /\ k.pc = "go" /\ (k.job.tool = "revert" /\ ~Opt(k.job, "no_commit") => repo.made < Commits) /\ UNCHANGED gitAudit
    /\ \/ \E o \in Command(repo, k.job) : repo' = o.r /\ After(c, o) /\ UNCHANGED timeouts
       \/ /\ k.job.tool \in {"fetch", "pull", "push"} /\ timeouts < Timeouts /\ timeouts' = timeouts + 1
          /\ \E o \in Command(repo, k.job) \union Not(repo) : repo' = o.r
          /\ IF k.job.tool = "pull" THEN To(c, "inspect") ELSE GitEnd(c, "timeout")

\* git status after a failure: a merge is left to the caller, a pull and a revert are aborted.
Inspect(c) ==
    LET k == gitCalls[c] IN
    /\ k.pc = "inspect"
    /\ IF ~Conflicted(repo) /\ k.how # "conflict" THEN GitEnd(c, "error")
       ELSE IF k.job.tool = "merge" THEN GitEnd(c, "conflict") ELSE To(c, "abort")
    /\ UNCHANGED <<repo, gitAudit, timeouts>>

\* Mutant of Abort: a pull ends a rebase as if it had been a merge.
AbortMerge(c) ==
    LET j == gitCalls[c].job IN
    /\ gitCalls[c].pc = "abort" /\ GitEnd(c, "conflict")
    /\ \E o \in GitAbort(repo, IF j.tool = "revert" THEN "revert" ELSE "merge") : repo' = o.r
    /\ UNCHANGED <<gitAudit, timeouts>>

Abort(c) ==
    LET j == gitCalls[c].job IN
    /\ gitCalls[c].pc = "abort" /\ GitEnd(c, "conflict")
    /\ \E o \in GitAbort(repo, IF j.tool = "revert" THEN "revert" ELSE IF Opt(j, "rebase") THEN "rebase" ELSE "merge") : repo' = o.r
    /\ UNCHANGED <<gitAudit, timeouts>>

\* Mutant of Unstash: the entry is dropped and not applied.
UnstashByDrop(c) ==
    /\ gitCalls[c].pc = "unstash" /\ GitEnd(c, "error")
    /\ repo' = [repo EXCEPT !.stashes = IF @ = <<>> THEN @ ELSE Tail(@)]
    /\ UNCHANGED <<gitAudit, timeouts>>

Unstash(c) ==
    /\ gitCalls[c].pc = "unstash" /\ GitEnd(c, "error")
    /\ \E o \in GitUnstash(repo, FALSE) : repo' = o.r
    /\ UNCHANGED <<gitAudit, timeouts>>

\* Mutant of AuditPush: only a push that went through is written down.
AuditPushDone(c) ==
    /\ gitCalls[c].pc = "audit" /\ gitAudit' = (IF gitCalls[c].saw THEN gitAudit \union {c} ELSE gitAudit)
    /\ GitEnd(c, IF gitCalls[c].saw THEN "ok" ELSE "rejected")
    /\ UNCHANGED <<repo, timeouts>>

AuditPush(c) ==
    /\ gitCalls[c].pc = "audit" /\ gitAudit' = gitAudit \union {c}
    /\ GitEnd(c, IF gitCalls[c].saw THEN "ok" ELSE "rejected")
    /\ UNCHANGED <<repo, timeouts>>

\* Mutant of UndoBranch: the reference is removed whether it is checked out or not.
UndoByReference(c) ==
    /\ gitCalls[c].pc = "undo" /\ GitEnd(c, "error")
    /\ repo' = [repo EXCEPT !.branches = Restrict(@, DOMAIN @ \ {gitCalls[c].job.br})]
    /\ UNCHANGED <<gitAudit, timeouts>>

\* prepare_task_worktree after a failure: the branch goes, whoever made it.
UndoBranch(c) ==
    /\ gitCalls[c].pc = "undo" /\ GitEnd(c, "error")
    /\ \E o \in GitBranchDelete(repo, gitCalls[c].job.br) : repo' = o.r
    /\ UNCHANGED <<gitAudit, timeouts>>

\* The owner edits a file, one that conflicts or another, stages it, and commits what is staged, and
\* so ends what is under way; somebody pushes.
GitOwner ==
    /\ UNCHANGED <<gitCalls, gitAudit, timeouts>>
    /\ \/ \E e \in OwnerEdits \ (Changes(repo) \union UNION Range(repo.stashes)) :
            repo' \in {[repo EXCEPT !.edits = @ \union {e}, !.fixes = @ \union F] : F \in IF repo.unmerged THEN {{}, {e}} ELSE {{}}}
       \/ \E e \in repo.edits : \E o \in Settling([repo EXCEPT !.staged = @ \union {e}, !.edits = @ \ {e}]) : repo' = o.r
       \/ /\ repo.made < Commits /\ (repo.staged # {} \/ Busy(repo))
          /\ repo' = [Committed(repo) EXCEPT !.merging = {}, !.unmerged = FALSE, !.edits = @ \ repo.fixes, !.staged = {}, !.fixes = {}]
       \/ /\ repo.made < Commits
          /\ repo' = [repo EXCEPT !.made = @ + 1, !.remote = Setting(@, Main, @[Main] \union {repo.made + 1})]

GitNext ==
    \/ GitOwner
    \/ \E c \in GitUsers : \/ BeginGit(c) \/ Status(c) \/ Stash(c) \/ LookForBranch(c) \/ Go(c) \/ Inspect(c)
                        \/ Abort(c) \/ Unstash(c) \/ AuditPush(c) \/ UndoBranch(c)

GitSpec == GitInit /\ [][GitNext]_gitVars

-----------------------------------------------------------------------------
\* The repository is one git could have, and a call is where its code can be.
GitTypeOK ==
    /\ Changes(repo) \union repo.fixes \union UNION Range(repo.stashes) \subseteq OwnerEdits \union {Reverted}
    /\ repo.cur \in DOMAIN repo.branches /\ repo.trees \subseteq DOMAIN repo.branches \ {repo.cur} /\ DOMAIN repo.branches \subseteq Branches
    /\ \A b \in DOMAIN repo.branches : repo.branches[b] \subseteq 0..Commits
    /\ repo.merging \subseteq {"merge", "rebase", "revert"}
    /\ gitAudit \subseteq GitUsers /\ repo.made \in 0..Commits /\ timeouts \in 0..Timeouts
    /\ \A c \in GitUsers : gitCalls[c].pc \in {"idle", "status", "stash", "look", "go", "inspect", "abort", "unstash", "audit", "undo", "end"}

Steps(c) == gitCalls'[c] # gitCalls[c]
KeptEdits == Changes(repo) \union UNION Range(repo.stashes)

\* What somebody edited is in the tree, in the index, in a stash or in a commit.  It goes only in a
\* confirmed call whose purpose is to discard, in a confirmed pull that ends a rebase, or when a call
\* ends a merge or a revert: then only what was staged, or changed where it conflicted, goes with it.
EditsNotLost ==
    [][\A e \in KeptEdits \ KeptEdits' :
          \/ e \in repo.staged \union repo.fixes /\ repo'.made # repo.made
          \/ \E c \in GitUsers : LET j == gitCalls[c].job IN
                /\ Steps(c)
                /\ \/ (j.confirmed \/ FullAccess) /\ (j.tool \in {"restore", "stash"} \/ Opt(j, "hard"))
                   \/ (j.confirmed \/ FullAccess) /\ j.tool = "pull" /\ Opt(j, "rebase") /\ "rebase" \in repo.merging
                   \/ j.tool \in {"merge", "pull", "revert"} /\ repo.merging # {} /\ e \in repo.staged \union repo.fixes]_gitVars

\* A pull that ran into a conflict leaves no merge and no rebase of its own behind, unless git
\* refuses to end it over a file that was staged and changed again meanwhile.
PullLeavesNone ==
    [][\A c \in GitUsers : gitCalls[c].pc = "abort" /\ gitCalls[c].how = "conflict" /\ Steps(c) /\ gitCalls[c].job.tool = "pull" =>
          IF Opt(gitCalls[c].job, "rebase") THEN "rebase" \notin repo'.merging
          ELSE "merge" \notin repo'.merging \/ (repo' = repo /\ repo.staged # {} /\ repo.edits \ repo.fixes # {})]_gitVars

\* git_workflow_tools.py:437 "On conflict, aborts the in-progress merge/rebase automatically and
\* returns {...} so the repo is left clean": whatever was in progress.
PullLeavesClean ==
    [][\A c \in GitUsers : Steps(c) /\ gitCalls[c].job.tool = "pull" /\ gitCalls'[c].out = "conflict" => ~repo'.unmerged]_gitVars

\* The remote changes only by a confirmed push that is no preview, or by others; commits leave it
\* only under ALLOW_FORCE_PUSH and only when this clone had seen them.
RemoteGuarded ==
    [][repo'.remote # repo.remote /\ repo'.made = repo.made =>
        \E c \in GitUsers : LET j == gitCalls[c].job IN
            /\ Steps(c) /\ j.tool = "push" /\ ~j.dry /\ (j.confirmed \/ FullAccess)
            /\ \A b \in DOMAIN repo.remote :
                  repo.remote[b] \subseteq repo'.remote[b] \/ (AllowForce /\ Opt(j, "force") /\ repo.remote[b] \subseteq repo.tracked[b])]_gitVars

\* Only a branch that prepare_task_worktree did not find when it looked is removed by it again.
OnlyYoungBranchesGo ==
    [][\A b \in DOMAIN repo.branches : b \notin DOMAIN repo'.branches =>
          \E c \in GitUsers : Steps(c) /\ gitCalls[c].job.tool = "prepare" /\ gitCalls[c].job.br = b /\ gitCalls[c].young]_gitVars

\* Every real push that was answered is in the audit log, also one the remote refused.
AnswersAudited ==
    \A c \in GitUsers : gitCalls[c].pc = "end" /\ gitCalls[c].job.tool = "push" /\ ~gitCalls[c].job.dry
        /\ gitCalls[c].out \in {"ok", "rejected"} => c \in gitAudit

\* git_workflow_tools.py:520 "Every real (non-dry-run) push is written to the audit log": also one
\* that ran out of time.
PushesAudited ==
    \A c \in GitUsers : gitCalls[c].pc = "end" /\ gitCalls[c].job.tool = "push" /\ ~gitCalls[c].job.dry
        /\ gitCalls[c].out \in {"ok", "rejected", "timeout"} => c \in gitAudit
=============================================================================
