\* One job, a canceller and a poller; every thread runs on.
SPECIFICATION FairSpec
CONSTANTS
  j1 = j1
  c1 = c1
  g1 = g1
  NoJob = NoJob
  Jobs = {j1}
  Keyed = {j1}
  Capacity = 1
  Cancellers = {c1}
  Getters = {g1}
  Openers = {}
  Leftovers = {"none", "piped"}
  Faults = 0
  Restarts = 0
INVARIANT TypeOK
PROPERTY JobEnds
CHECK_DEADLOCK FALSE
