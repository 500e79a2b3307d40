\* One request with a process of its own, cancelled by two clients and abandoned.
SPECIFICATION Spec
CONSTANTS
    r1 = r1
    t1 = t1
    t2 = t2
    Requests = {r1}
    Children = {}
    Detached = {}
    Owner = r1
    Parent <- MCParent
    Uncancellable = {}
    Clients = {t1, t2}
    MaxHistory = 1
INVARIANTS
    TypeOK
    AuditMatchesRecord
    CancellationsHold
    CancelIsVisible
PROPERTIES
    FinishedIsFinal
