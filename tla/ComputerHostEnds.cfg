\* Two calls of two threads, one failure and one change of focus: every call that the host took
\* ends, and the lock of the client is free again.
CONSTANTS
    Callers = {c1, c2}
    NoCaller = NoCaller
    Windows = {w1, w2}
    NoWindow = NoWindow
    MaxSnapshots = 2
    MaxSteps = 2
    Wanted <- FewAsked
    Asks = 2
    Upsets = 1
    Switches = 1
    Looks = 3
SPECIFICATION FairHostSpec
INVARIANTS HostTypeOK
PROPERTIES CallsEnd
CHECK_DEADLOCK FALSE
