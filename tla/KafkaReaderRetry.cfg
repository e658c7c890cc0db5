\* One reader of one partition, one handler call that fails.
SPECIFICATION Spec
CONSTANTS
    Subs = {s1}
    Stoppable = {}
    Crashable = {}
    Concurrent = 1
    Parts = {p1}
    MaxMsg = 2
    MaxFaults = 0
    MaxFails = 1
INVARIANTS
    RetryBlocksPartition
CHECK_DEADLOCK FALSE
