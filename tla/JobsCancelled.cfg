\* A cancelled job polled.
SPECIFICATION Spec
CONSTANTS
  j1 = j1
  c1 = c1
  g1 = g1
  NoJob = NoJob
  Jobs = {j1}
  Keyed = {}
  Capacity = 1
  Cancellers = {c1}
  Getters = {g1}
  Openers = {}
  Leftovers = {"none"}
  Faults = 0
  Restarts = 0
PROPERTY CancelledStays
CHECK_DEADLOCK FALSE
