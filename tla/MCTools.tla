------------------------------ MODULE MCTools ------------------------------
(***************************************************************************)
(* The tools that change what outlives a request, for TLC: edits, git,     *)
(* GitHub, downloads, shared screenshots, and the computer tools with the  *)
(* host that they call.  They share no state, so one run explores each of  *)
(* them with the others at rest.                                           *)
(***************************************************************************)
EXTENDS Tools, MCComputerHost, EditJobs, GitJobs, TLC

CONSTANTS c1, c2

VARIABLE part

Interchangeable == Permutations({c1, c2})

\* What requests ask of github_tools.
ToHub(tool, opts) == [tool |-> tool, opts |-> opts]
HubAsked ==
    {ToHub("gh_status", {}), ToHub("gh_pr_view", {"diff"}), ToHub("gh_pr_comment", {"reply", "confirmed"}),
     ToHub("gh_pr_create", {"confirmed"}), ToHub("gh_pr_create", {"dry"}), ToHub("gh_pr_create", {}),
     ToHub("gh_pr_merge", {"bad", "confirmed"}), ToHub("gh_checks", {"pr"}), ToHub("gh_checks", {}),
     ToHub("gh_run_view", {"failed"}), ToHub("gh_run_rerun", {"confirmed"}), ToHub("gh_issue_list", {}),
     ToHub("gh_issue_view", {})}

vars == <<
    part, editVars, gitVars, hubVars, downloadVars, shareVars, hostVars>>

Init ==
    /\ part \in {"editing", "git", "hub", "download", "share", "host"}
    /\ EditInit /\ (part # "editing" => disk = [b |-> <<"a">>, f |-> TwoLines])
    /\ GitInit /\ (part # "git" => repo.made = 0)
    /\ HubInit /\ (part # "hub" => gh = [installed |-> TRUE, login |-> TRUE] /\ branch = [upstream |-> TRUE, ahead |-> FALSE])
    /\ DownloadInit /\ (part # "download" => target = "none")
    /\ ShareInit
    /\ HostInit /\ focus = "w1" \* or the other way round
       /\ (part # "host" => ~wayland /\ ~control)

Next ==
    /\ UNCHANGED part
    /\ \/ part = "editing" /\ EditNext
          /\ UNCHANGED <<gitVars, hubVars, downloadVars, shareVars, hostVars>>
       \/ part = "git" /\ GitNext
          /\ UNCHANGED <<editVars, hubVars, downloadVars, shareVars, hostVars>>
       \/ part = "hub" /\ HubNext
          /\ UNCHANGED <<editVars, gitVars, downloadVars, shareVars, hostVars>>
       \/ part = "download" /\ DownloadNext
          /\ UNCHANGED <<editVars, gitVars, hubVars, shareVars, hostVars>>
       \/ part = "share" /\ ShareNext
          /\ UNCHANGED <<editVars, gitVars, hubVars, downloadVars, hostVars>>
       \/ part = "host" /\ HostNext
          /\ UNCHANGED <<editVars, gitVars, hubVars, downloadVars, shareVars>>

Spec == Init /\ [][Next]_vars
=============================================================================
