\* One job, and a close that fails.
CONSTANTS
    c1 = c1
    c2 = c2
    k1 = k1
    k2 = k2
    Calls = {c1}
    Clients = {}
    Capacity = 1
    Kinds = {"bounded"}
    NoCall = "no call"
    Jobs = {"j1"}
    Commands = {}
    Old = {}
    NoId = "no id"
    Streams <- TwoStreams
    Quota = 5
    ArtifactMax = 1
    Chunks = 1
    Faults = 1
SPECIFICATION ResourcesSpec
INVARIANT JobKeepsManifest
CHECK_DEADLOCK FALSE
