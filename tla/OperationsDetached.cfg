\* A launcher and the job it leaves behind, one client.
SPECIFICATION Spec
CONSTANTS
    r1 = r1
    d1 = d1
    t1 = t1
    Requests = {r1}
    Children = {}
    Detached = {d1}
    Owner = r1
    Parent <- MCParent
    Uncancellable = {}
    Clients = {t1}
    MaxHistory = 1
INVARIANTS
    DetachedSurvives
