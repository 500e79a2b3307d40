\* An artifact opened while a job finishes.
SPECIFICATION Spec
CONSTANTS
  j1 = j1
  o1 = o1
  NoJob = NoJob
  Jobs = {j1}
  Keyed = {}
  Capacity = 1
  Cancellers = {}
  Getters = {}
  Openers = {o1}
  Leftovers = {"none"}
  Faults = 0
  Restarts = 0
INVARIANT FinishedNotReconciled
CHECK_DEADLOCK FALSE
