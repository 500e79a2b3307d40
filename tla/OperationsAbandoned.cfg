\* A request without a safe interruption point, abandoned.
SPECIFICATION Spec
CONSTANTS
    r1 = r1
    Requests = {r1}
    Children = {}
    Detached = {}
    Owner = r1
    Parent <- MCParent
    Uncancellable = {r1}
    Clients = {}
    MaxHistory = 1
INVARIANTS
    AbandonedIsNotFinished
