\* A login and a RefreshSession without a refresh token.
SPECIFICATION Spec
CONSTANTS
    Threads = {t1}
    NoId = NoId
    Expiring = FALSE
    MaxId = 5
    MaxRequests = 2
    MaxFaults = 0
INVARIANTS
    RefusedRefreshKeepsSession
CHECK_DEADLOCK FALSE
