\* Both systems; a descendant leaves the group on Windows only.
SPECIFICATION FairSpec
CONSTANTS
  Systems = {"posix", "nt"}
  StraySystems = {"nt"}
  Slow = TRUE
  Chunks = 1
  Faults = 1
INVARIANTS TypeOK CallSafe
PROPERTY Returns
CHECK_DEADLOCK FALSE
