\* Two jobs on one lease and one lock, with one failure and one crash or exit.
SPECIFICATION Spec
CONSTANTS
  j1 = j1
  j2 = j2
  NoJob = NoJob
  Jobs = {j1, j2}
  Keyed = {j1, j2}
  Capacity = 1
  Cancellers = {}
  Getters = {}
  Openers = {}
  Leftovers = {"none"}
  Faults = 1
  Restarts = 1
INVARIANT HeavyBound
INVARIANT RunningIsLeased
PROPERTY ShutdownStops
SYMMETRY JobSymmetry
CHECK_DEADLOCK FALSE
