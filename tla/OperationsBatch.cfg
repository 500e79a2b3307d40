\* A batch and one of its calls, cancelled by a client and abandoned.
SPECIFICATION FairSpec
CONSTANTS
    r1 = r1
    c1 = c1
    t1 = t1
    Requests = {r1}
    Children = {c1}
    Detached = {}
    Owner = r1
    Parent <- MCParent
    Uncancellable = {}
    Clients = {t1}
    MaxHistory = 1
INVARIANTS
    FinishedMeansStopped
    ActiveIsListed
    NewestKept
PROPERTIES
    CancellationsEnd
