\* A Get and a Put of two goroutines, without a watch.
SPECIFICATION Spec
CONSTANTS
    k1 = k1
    k2 = k2
    c1 = c1
    Clients = {c1}
    Callers = {k1, k2}
    ClientOf <- MCClientOf
    MaxRev = 2
    MaxCalls = 1
    MaxFaults = 0
    Nobody = Nobody
INVARIANTS
    PutIsConsistent
CHECK_DEADLOCK FALSE
