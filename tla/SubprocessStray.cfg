\* A descendant in a session of its own keeps the pipes.
SPECIFICATION FairSpec
CONSTANTS
  Systems = {"posix"}
  StraySystems = {"posix"}
  Slow = FALSE
  Chunks = 1
  Faults = 0
PROPERTY Returns
CHECK_DEADLOCK FALSE
