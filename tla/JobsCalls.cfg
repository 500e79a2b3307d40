\* One job cancelled, polled and met by the opening of an artifact, with one write or
\* capture that fails.
SPECIFICATION Spec
CONSTANTS
  j1 = j1
  c1 = c1
  g1 = g1
  o1 = o1
  NoJob = NoJob
  Jobs = {j1}
  Keyed = {}
  Capacity = 1
  Cancellers = {c1}
  Getters = {g1}
  Openers = {o1}
  Leftovers = {"none", "silent", "piped"}
  Faults = 1
  Restarts = 0
INVARIANT NoEarlyVerdict
INVARIANT VerdictHasCause
PROPERTY TimeoutReported
CHECK_DEADLOCK FALSE
