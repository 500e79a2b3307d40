\* Two sessions for one place, two leases and two descriptors; one closer, one writer, and a shell
\* that leaves processes on its terminal.
SPECIFICATION FairSpec
CONSTANTS
  Sessions = {s1, s2}
  Closers = {k1}
  Writers = {w1}
  MaxSessions = 1
  Capacity = 2
  FdCount = 2
  Forking = {s1}
  NoSession = NoSession
INVARIANTS SessionsSafe
PROPERTY SessionsEnd
CHECK_DEADLOCK FALSE
