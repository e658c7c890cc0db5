\* Two subscriptions of one reader each, s1 may unsubscribe or crash, s2 goes on.
SPECIFICATION FairSpec
CONSTANTS
    Subs = {s1, s2}
    Stoppable = {s1}
    Crashable = {s1}
    Concurrent = 1
    Parts = {p1}
    MaxMsg = 2
    MaxFaults = 1
    MaxFails = 1
INVARIANTS
    TypeOK
    HandledIsPrefix
    CommitFollowsHandling
PROPERTIES
    EventuallyHandled
    KeepsPromise
CHECK_DEADLOCK FALSE
