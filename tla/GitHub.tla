------------------------------- MODULE GitHub -------------------------------
(***************************************************************************)
(* github_tools.py: every tool is a plan: the gate, the check that gh is   *)
(* ready, the confirmation, and gh commands, each behind the same probe    *)
(* and lease.  What the tools do on GitHub is the set hubActs, by call;    *)
(* gh may refuse, fail, be killed, be cut short or run out of time, with   *)
(* its act done or not.                                                    *)
(***************************************************************************)
EXTENDS Naturals, Sequences, FiniteSets

CONSTANTS
    HubUsers,       \* requests, one each
    HubWanted,      \* what they ask: [tool, opts], opts of "confirmed", "dry", "reply", ...
    Enabled,        \* github_tools_enabled
    HubFullAccess,  \* full access, as the GitHub tools see it
    Turns           \* bound: times the owner acts

VARIABLES
    gh,             \* [installed, login]
    branch,         \* [upstream, ahead] of the branch a pull request is made of
    hubActs,        \* [by, nth, stale]: what calls did on GitHub
    hubAudit,       \* [by, ok]: the audit log
    hubCalls,       \* [pc, job, plan, out, ok, tried]
    turns

hubVars == <<gh, branch, hubActs, hubAudit, hubCalls, turns>>

When(o, x, plan) == IF x \in o THEN plan ELSE <<>>

\* The plans.  A command named "x?" may fail without failing the call; the answer of "x=" is used
\* as it is, that of any other is parsed, and must be whole for that.
GhStatus(o) == <<"gate", "ready", "rate_limit?">>
PrCreate(o) == <<"gate", "ready", "pushed">> \o (IF "dry" \in o THEN <<>> ELSE <<"confirm", "act", "audit">>)
PrView(o) == <<"gate", "view">> \o When(o, "diff", <<"diff?">>)
PrComment(o) == <<"gate", "ready", "confirm">> \o When(o, "reply", <<"repo">>) \o <<"act", "audit">>
PrMerge(o) == <<"gate", "method", "ready", "confirm", "act", "audit">>
Checks(o) == <<"gate", "target">> \o (IF "pr" \in o THEN <<"checks=">> ELSE <<"repo", "check-runs">>)
RunView(o) == <<"gate">> \o (IF "run" \in o THEN <<>> ELSE <<"list">>) \o <<"view">> \o When(o, "failed", <<"log?">>)
RunRerun(o) == <<"gate", "ready", "confirm", "act", "audit">>
Listing(o) == <<"gate", "list">>
IssueView(o) == <<"gate", "view">>

HubPlan(j) ==
    CASE j.tool = "gh_status" -> GhStatus(j.opts) [] j.tool = "gh_pr_create" -> PrCreate(j.opts)
      [] j.tool = "gh_pr_view" -> PrView(j.opts) [] j.tool = "gh_pr_comment" -> PrComment(j.opts)
      [] j.tool = "gh_pr_merge" -> PrMerge(j.opts) [] j.tool = "gh_checks" -> Checks(j.opts)
      [] j.tool = "gh_run_view" -> RunView(j.opts) [] j.tool = "gh_run_rerun" -> RunRerun(j.opts)
      [] j.tool \in {"gh_pr_list", "gh_issue_list"} -> Listing(j.opts) [] OTHER -> IssueView(j.opts)

Writes(j) == j.tool \in {"gh_pr_create", "gh_pr_comment", "gh_pr_merge", "gh_run_rerun"}
Optional(x) == x \in {"rate_limit?", "diff?", "log?"}
HubCommand(x) == Optional(x) \/ x \in {"act", "view", "list", "repo", "checks=", "check-runs"}
Confirmed(j) == "confirmed" \in j.opts \/ HubFullAccess
Head1(c) == Head(hubCalls[c].plan)

NoHubJob == [tool |-> "", opts |-> {}]

HubInit ==
    /\ gh \in [installed : BOOLEAN, login : BOOLEAN] /\ branch \in [upstream : BOOLEAN, ahead : BOOLEAN]
    /\ hubActs = {} /\ hubAudit = {} /\ turns = 0
    /\ hubCalls = [c \in HubUsers |-> [pc |-> "idle", job |-> NoHubJob, plan |-> <<>>, out |-> "", ok |-> FALSE, tried |-> FALSE]]

HubEnd(c, out) == hubCalls' = [hubCalls EXCEPT ![c].pc = "end", ![c].out = out, ![c].plan = <<>>]
\* The next step of the plan, or the answer after the last.
On(c, ok) ==
    LET rest == Tail(hubCalls[c].plan) IN
    hubCalls' = [hubCalls EXCEPT ![c].plan = rest, ![c].ok = ok, ![c].tried = FALSE,
                           ![c].pc = IF rest = <<>> THEN "end" ELSE "plan",
                           ![c].out = IF rest # <<>> THEN @ ELSE IF ok THEN "ok" ELSE "failed"]
AtStep(c, x) == hubCalls[c].pc = "plan" /\ Head1(c) = x

Ask(c) ==
    /\ hubCalls[c].pc = "idle"
    /\ \E j \in HubWanted : hubCalls' = [hubCalls EXCEPT ![c].job = j, ![c].plan = HubPlan(j), ![c].pc = "plan"]
    /\ UNCHANGED <<gh, branch, hubActs, hubAudit, turns>>

\* _guard.
Gate(c) ==
    /\ AtStep(c, "gate")
    /\ IF Enabled THEN On(c, TRUE) ELSE HubEnd(c, "github_tools_disabled")
    /\ UNCHANGED <<gh, branch, hubActs, hubAudit, turns>>

\* The arguments that two tools check.
Argument(c) ==
    /\ AtStep(c, "method") \/ AtStep(c, "target")
    /\ IF "bad" \in hubCalls[c].job.opts THEN HubEnd(c, "bad_argument") ELSE On(c, TRUE)
    /\ UNCHANGED <<gh, branch, hubActs, hubAudit, turns>>

\* _require_gh_ready: before the confirmation is asked for.
Ready(c) ==
    /\ AtStep(c, "ready")
    /\ IF ~gh.installed THEN HubEnd(c, "gh_unavailable") ELSE IF ~gh.login THEN HubEnd(c, "gh_not_authenticated") ELSE On(c, TRUE)
    /\ UNCHANGED <<gh, branch, hubActs, hubAudit, turns>>

\* Mutant of Pushed: a branch without an upstream counts as pushed.
PushedOrNew(c) ==
    /\ AtStep(c, "pushed")
    /\ IF branch.upstream /\ branch.ahead THEN HubEnd(c, "branch_not_pushed") ELSE On(c, TRUE)
    /\ UNCHANGED <<gh, branch, hubActs, hubAudit, turns>>

\* _branch_push_status.
Pushed(c) ==
    /\ AtStep(c, "pushed")
    /\ IF ~branch.upstream \/ branch.ahead THEN HubEnd(c, "branch_not_pushed") ELSE On(c, TRUE)
    /\ UNCHANGED <<gh, branch, hubActs, hubAudit, turns>>

Confirm(c) ==
    /\ AtStep(c, "confirm")
    /\ IF Confirmed(hubCalls[c].job) THEN On(c, TRUE) ELSE HubEnd(c, "confirmation_required")
    /\ UNCHANGED <<gh, branch, hubActs, hubAudit, turns>>

\* Mutant of CommandFailed: an act that failed is tried once more, as the checks are.
CommandFailedRetry(c, out) ==
    IF Optional(Head1(c)) THEN On(c, TRUE)
    ELSE IF Head1(c) \in {"checks=", "act"} /\ ~hubCalls[c].tried THEN hubCalls' = [hubCalls EXCEPT ![c].pc = "plan", ![c].tried = TRUE]
    ELSE IF Head1(c) = "act" THEN On(c, FALSE) ELSE HubEnd(c, out)

\* A command failed: what failed is audited, and the checks are asked once more, without --json.
CommandFailed(c, out) ==
    IF Head1(c) = "act" THEN On(c, FALSE)
    ELSE IF Optional(Head1(c)) THEN On(c, TRUE)
    ELSE IF Head1(c) = "checks=" /\ ~hubCalls[c].tried THEN hubCalls' = [hubCalls EXCEPT ![c].pc = "plan", ![c].tried = TRUE]
    ELSE HubEnd(c, out)

\* _json_or_error: an answer that was cut short cannot be parsed.
Parsed(c, whole) ==
    IF whole \/ Head1(c) \in {"act", "checks="} \/ Optional(Head1(c)) THEN On(c, TRUE)
    ELSE HubEnd(c, IF Head1(c) = "repo" THEN "no_github_remote" ELSE "gh_output_truncated")

\* _run_gh: the probe, ...
Probe(c) ==
    /\ hubCalls[c].pc = "plan" /\ HubCommand(Head1(c))
    /\ IF gh.installed THEN hubCalls' = [hubCalls EXCEPT ![c].pc = "lease"] ELSE CommandFailed(c, "gh_unavailable")
    /\ UNCHANGED <<gh, branch, hubActs, hubAudit, turns>>

\* ... the lease, whose refusal is an exception that leaves it, and the tool, before gh runs, ...
Lease(c) ==
    /\ hubCalls[c].pc = "lease"
    /\ hubCalls' = [hubCalls EXCEPT ![c].pc = "run"] \/ HubEnd(c, "raised")
    /\ UNCHANGED <<gh, branch, hubActs, hubAudit, turns>>

ActOnHub(c) ==
    IF Head1(c) = "act"
    THEN hubActs' = hubActs \union
            {[by |-> c, nth |-> Cardinality({a \in hubActs : a.by = c}), stale |-> ~branch.upstream]}
    ELSE UNCHANGED hubActs

\* ... and gh: an answer, an error, or no answer in time.  One that was killed failed, although it
\* may have acted before; no GitHub tool can be cancelled, and run_bounded raises nothing for it.
Run(c) ==
    /\ hubCalls[c].pc = "run"
    /\ \/ gh.login /\ (\E whole \in BOOLEAN : Parsed(c, whole)) /\ ActOnHub(c)
       \/ /\ CommandFailed(c, IF gh.login THEN "gh_command_failed" ELSE "gh_not_authenticated")
          /\ UNCHANGED hubActs \/ (gh.login /\ ActOnHub(c))
       \/ CommandFailed(c, "gh_timeout") /\ (UNCHANGED hubActs \/ (gh.login /\ ActOnHub(c)))
    /\ UNCHANGED <<gh, branch, hubAudit, turns>>

\* Mutant of AuditAct: what failed is not written down.
AuditActDone(c) ==
    /\ AtStep(c, "audit")
    /\ hubAudit' = (IF hubCalls[c].ok THEN hubAudit \union {[by |-> c, ok |-> TRUE]} ELSE hubAudit) /\ On(c, hubCalls[c].ok)
    /\ UNCHANGED <<gh, branch, hubActs, turns>>

\* _audit_gh.
AuditAct(c) ==
    /\ AtStep(c, "audit")
    /\ hubAudit' = hubAudit \union {[by |-> c, ok |-> hubCalls[c].ok]} /\ On(c, hubCalls[c].ok)
    /\ UNCHANGED <<gh, branch, hubActs, turns>>

\* The owner installs gh, logs in or out, commits or pushes.
HubOwner ==
    /\ turns < Turns /\ turns' = turns + 1 /\ UNCHANGED <<hubActs, hubAudit, hubCalls>>
    /\ \/ gh' \in {[gh EXCEPT !.installed = TRUE], [gh EXCEPT !.login = ~@]} /\ UNCHANGED branch
       \/ branch' \in {[branch EXCEPT !.ahead = TRUE], [upstream |-> TRUE, ahead |-> FALSE]} /\ UNCHANGED gh

HubNext ==
    \/ HubOwner
    \/ \E c \in HubUsers : \/ Ask(c) \/ Gate(c) \/ Argument(c) \/ Ready(c) \/ Pushed(c) \/ Confirm(c)
                         \/ Probe(c) \/ Lease(c) \/ Run(c) \/ AuditAct(c)

HubSpec == HubInit /\ [][HubNext]_hubVars

-----------------------------------------------------------------------------
\* What a call did on GitHub is in the audit log once it is answered, and the log calls nothing
\* done that was not.
ActsAudited ==
    /\ \A a \in hubActs : hubCalls[a.by].pc = "end" => \E e \in hubAudit : e.by = a.by
    /\ \A e \in hubAudit : e.ok => \E a \in hubActs : a.by = e.by

\* A call acts at most once, although it may end unknown and other commands are tried again; only
\* after it was confirmed, never as a preview, and for no pull request of a branch without upstream.
ActsAsGranted ==
    \A a \in hubActs : LET j == hubCalls[a.by].job IN
        /\ a.nth = 0 /\ Writes(j) /\ Confirmed(j) /\ Enabled
        /\ (j.tool = "gh_pr_create" => "dry" \notin j.opts /\ ~a.stale)
=============================================================================
