\* One message, one failing call, one failing handler, s1 may stop or crash: liveness.
SPECIFICATION FairSpec
CONSTANTS
    s1 = s1
    s2 = s2
    p1 = p1
    p2 = p2
    Subs = {s1, s2}
    Procs = {p1, p2}
    ProcOf <- MCProcOf
    Stoppable = {s1}
    CrashProcs = {p1}
    Concurrent = 1
    Count = 2
    MaxLen = 0
    MaxMsg = 1
    MaxFaults = 1
    MaxFails = 1
    MaxCounted = 1
    NoConsumer = NoConsumer
PROPERTIES
    EventuallyDone
CHECK_DEADLOCK FALSE
