\* One message that fails once, and a subscription that unsubscribes.
SPECIFICATION Spec
CONSTANTS
    s1 = s1
    s2 = s2
    p1 = p1
    p2 = p2
    Subs = {s1}
    Procs = {p1, p2}
    ProcOf <- MCSingle
    Stoppable = {s1}
    CrashProcs = {}
    Concurrent = 1
    Count = 1
    MaxLen = 0
    MaxMsg = 1
    MaxFaults = 0
    MaxFails = 2
    MaxCounted = 2
    NoConsumer = NoConsumer
INVARIANTS
    RetrySurvivesUnsubscribe
CHECK_DEADLOCK FALSE
