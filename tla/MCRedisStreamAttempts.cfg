\* One subscription, a page of one message, two messages that handlers left pending.
SPECIFICATION MCOldestSpec
CONSTANTS
    s1 = s1
    s2 = s2
    p1 = p1
    p2 = p2
    Subs = {s1}
    Procs = {p1, p2}
    ProcOf <- MCSingle
    Stoppable = {}
    CrashProcs = {}
    Concurrent = 1
    Count = 1
    MaxLen = 0
    MaxMsg = 2
    MaxFaults = 0
    MaxFails = 3
    MaxCounted = 2
    NoConsumer = NoConsumer
INVARIANTS
    RedeliveryIsCounted
CHECK_DEADLOCK FALSE
