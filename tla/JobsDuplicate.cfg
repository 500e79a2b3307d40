\* Two starts with one key at the same time.
SPECIFICATION Spec
CONSTANTS
  j1 = j1
  j2 = j2
  NoJob = NoJob
  Jobs = {j1, j2}
  Keyed = {j1, j2}
  Capacity = 2
  Cancellers = {}
  Getters = {}
  Openers = {}
  Leftovers = {"none"}
  Faults = 0
  Restarts = 0
INVARIANT NoDuplicate
CHECK_DEADLOCK FALSE
