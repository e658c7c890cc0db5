\* One behaviour of one part each.
SPECIFICATION MCSpec
CONSTANTS
    Clients = {"a", "b", "c"}
    MaxWaits = 1
    MaxLost = 1
    Threads = {"t1", "t2", "u"}
    Subscribers = {"r", "s"}
    SubOf <- MCSubOf
    MaxAttempts = 2
    MaxMsgs = 1
    MaxNsqCrashes = 1
    Subscriptions = {"s", "r"}
    MaxPublish = 2
    Runs = {"a", "b", "c"}
    HandlerRuns = {"a", "b"}
    Wraps = 2
    Requests = {"a", "b"}
    Shared = {"unauthorized"}
    Components <- MCComponents
    Loki = TRUE
    LogCap = 3
    MaxRequests = 2
    Programs = {"p", "q"}
    Keys = {"env", "http"}
    Needs <- MCNeeds
    MaxEdits = 1
    MaxCrashes = 1
INVARIANTS
    TypeOK
    HoldersExclude
    RemovedIsSettled
    RunIsItsOwn
    AnsweredAtReturn
    OperatorIsKept
PROPERTIES
    OrphanIsFreed
    EveryMessageLeaves
    PublishReturns
    StartReturns
    StartsInTheEnd
CHECK_DEADLOCK FALSE
