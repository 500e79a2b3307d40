\* A batch call that succeeds before the cancellation.
SPECIFICATION Spec
CONSTANTS
    r1 = r1
    c1 = c1
    t1 = t1
    Requests = {r1}
    Children = {c1}
    Detached = {}
    Owner = r1
    Parent <- MCParent
    Uncancellable = {}
    Clients = {t1}
    MaxHistory = 1
INVARIANTS
    LateCancelKeepsChildSuccess
