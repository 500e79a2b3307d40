\* Each part with two requests of every kind, and one failure, timeout or restart; the computer
\* host also with one change of focus.
CONSTANTS
    c1 = c1
    c2 = c2
    Editors = {c1, c2}
    EditsWanted <- EditsAsked
    Files = {"f", "g", "b"}
    Folders = {"d"}
    FolderOf <- ParentOf
    Barred = {"b"}
    InitDisks <- EditDisks
    Fragments <- EditFragments
    MaxLen = 6
    MaxOps = 4
    RequireHash = FALSE
    MayMove = TRUE
    Faults = 1
    GitUsers = {c1, c2}
    GitWanted <- GitAsked
    Branches = {"main", "task"}
    Main = "main"
    Protected = {"main"}
    Secrets = {}
    FullAccess = FALSE
    AllowForce = TRUE
    AllowHard = TRUE
    OwnerEdits = {"e"}
    Commits = 2
    Timeouts = 1
    HubUsers = {c1, c2}
    HubWanted <- HubAsked
    Enabled = TRUE
    HubFullAccess = FALSE
    Turns = 2
    Loaders = {c1, c2}
    MaxChunks = 1
    Sharers = {c1, c2}
    Keeper = "keeper"
    ShareIds = {"s1", "s2", "s3"}
    MaxShares = 1
    TTL = 1
    Restarts = 1
    Callers = {c1, c2}
    NoCaller = "nobody"
    Windows = {"w1", "w2"}
    NoWindow = "no window"
    MaxSnapshots = 2
    MaxSteps = 2
    Wanted <- HostAsked
    Asks = 2
    Upsets = 1
    Switches = 1
    Looks = 3
SPECIFICATION Spec
SYMMETRY Interchangeable
INVARIANTS TextsSafe EditsSafe RemoteSafe TransfersSafe HostSafe
PROPERTIES NothingIsLost
CHECK_DEADLOCK FALSE
