\* Two goroutines serve the requests of one user agent.
SPECIFICATION Spec
CONSTANTS
    t1 = t1
    t2 = t2
    Threads = {t1, t2}
    NoId = NoId
    Expiring = TRUE
    MaxId = 8
    MaxRequests = 3
    MaxFaults = 1
SYMMETRY ThreadSymmetry
INVARIANTS
    TypeOK
    LivingPairIsLinked
    SpentStaysDead
    LogoutEndsLogin
CHECK_DEADLOCK FALSE
