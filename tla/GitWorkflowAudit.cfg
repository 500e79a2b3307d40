\* One push that runs out of time.
CONSTANTS
    GitUsers = {"c1"}
    GitWanted <- GitAsked
    Branches = {"main", "task"}
    Main = "main"
    Protected = {"main"}
    Secrets = {}
    FullAccess = FALSE
    AllowForce = TRUE
    AllowHard = TRUE
    OwnerEdits = {"e"}
    Commits = 2
    Timeouts = 1
SPECIFICATION GitSpec
CHECK_DEADLOCK FALSE
INVARIANT PushesAudited
