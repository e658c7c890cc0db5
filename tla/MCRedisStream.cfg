\* Two processes, s1 may unsubscribe or crash at any step, s2 goes on.
SPECIFICATION Spec
CONSTANTS
    s1 = s1
    s2 = s2
    p1 = p1
    p2 = p2
    Subs = {s1, s2}
    Procs = {p1, p2}
    ProcOf <- MCProcOf
    Stoppable = {s1}
    CrashProcs = {p1}
    Concurrent = 1
    Count = 2
    MaxLen = 1
    MaxMsg = 2
    MaxFaults = 0
    MaxFails = 1
    MaxCounted = 1
    NoConsumer = NoConsumer
INVARIANTS
    TypeOK
    UnsettledStaysPending
    ClosedOwnsNothing
PROPERTIES
    OnlyOfflineConsumersDeleted
    KeepsPromise
CHECK_DEADLOCK FALSE
