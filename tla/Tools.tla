------------------------------- MODULE Tools --------------------------------
(***************************************************************************)
(* The tools that change what outlives a request: edits, git, GitHub, and  *)
(* the transfer of files.  They share no state: what each promises, as one *)
(* promise of the server.                                                  *)
(***************************************************************************)
EXTENDS Edits, GitWorkflow, GitHub, Transfers

\* edit_tools.py: what is rolled back is as before, what a hash names is what is edited, and every
\* operation is reported.
EditsSafe == UndoneIsAsBefore /\ MadeOfTheNamedText /\ ReportsAll

\* The repository stays one git could have, pushes and acts on GitHub that were answered are
\* audited, and no act on GitHub is done twice or without its confirmation.
RemoteSafe == GitTypeOK /\ AnswersAudited /\ ActsAudited /\ ActsAsGranted

\* What no step of a tool may do: lose an edit that nobody confirmed to discard, leave a pull half
\* done, move the remote unasked, remove a branch that was there before, write in a preview, or
\* replace a file by a download.
NothingIsLost ==
    /\ EditsNotLost /\ PullLeavesNone /\ RemoteGuarded /\ OnlyYoungBranchesGo
    /\ PreviewsChangeNothing /\ NeverOverwritten
=============================================================================
