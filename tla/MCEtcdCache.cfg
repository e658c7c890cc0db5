\* Two goroutines on one client, its watch, other writers of the key.
SPECIFICATION FairSpec
CONSTANTS
    k1 = k1
    k2 = k2
    c1 = c1
    Clients = {c1}
    Callers = {k1, k2}
    ClientOf <- MCClientOf
    MaxRev = 2
    MaxCalls = 1
    MaxFaults = 1
    Nobody = Nobody
INVARIANTS
    TypeOK
    NeverBehindDelivered
PROPERTIES
    CacheFollows
    CallsReturn
CHECK_DEADLOCK FALSE
