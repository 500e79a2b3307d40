\* Two calls and two clients; a job and a command that share a quota for one artifact, with one failure.
CONSTANTS
    c1 = c1
    c2 = c2
    k1 = k1
    k2 = k2
    Calls = {c1, c2}
    Clients = {k1, k2}
    Capacity = 1
    Kinds = {"command", "search", "bounded", "terminal"}
    NoCall = "no call"
    Jobs = {"j1"}
    Commands = {"m1"}
    Old = {}
    NoId = "no id"
    Streams <- TwoStreams
    Quota = 5
    ArtifactMax = 1
    Chunks = 1
    Faults = 1
SPECIFICATION ResourcesSpec
SYMMETRY Interchangeable
INVARIANTS TypeOK LeasesSafe CapturesSafe AccountsSafe
PROPERTIES ImplementsPool OwnedKept
CHECK_DEADLOCK FALSE
