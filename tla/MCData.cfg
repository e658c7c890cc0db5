\* One behaviour of one part each; two goroutines wherever a part has several.
SPECIFICATION MCSpec
CONSTANTS
    a = a
    b = b
    Threads = {a, b}
    Limits = 2
    Period <- MCPeriod
    Quota <- MCQuota
    Slack = 2
    CleanEvery = 1
    MaxTime = 5
    MaxCalls = 3
    MaxStall = 1
    MaxFaults = 1
    Readers = {a, b}
    Writers = {"w"}
    Keys = {"k"}
    MaxUpdates = 2
    MaxVersions = 2
    MaxStoreFaults = 1
    Instances = {"old", "new", "new2"}
    Known <- MCKnown
    HasPre = {"old"}
    MaxStarts = 2
    Requests = {a, b}
    Lifetime = 1
    MaxSessions = 2
    MaxIds = 3
    MaxSessionTime = 2
    Checkers = {"c"}
    Removers = {"r"}
    Pool <- MCPool
    User = "u"
    Resource = "f"
    Groups = {"g"}
    Callers = {"c"}
    MaxSize = 2
    DefaultSize = 1
    Asked = {1, 3}
    MaxRows = 3
    MaxWalks = 1
    RequestTypes = {"A", "B"}
    Declarations <- MCDeclarations
    ProperPrefixes <- MCPrefixes
    Types = {"A", "B", "C"}
    Name <- MCName
    Sources <- MCSources
    RootSets <- MCRootSets
    Generated = {"List", "User"}
    Accessor = "User"
    MaxEdits = 3
    MaxKills = 1
    MaxRuns = 3
    MaxRewrites = 2
    Methods <- MCMethods
SYMMETRY Symmetry
INVARIANTS
    TypeOK
    QuotaIsKept
    FreshAfterInvalidKey
    MigrationsInOrder
    RetiredIdIsDead
    DenyIsObeyed
    PagesShowTheLiving
    ReadersAgree
    RefsResolve
    FinishedIsComplete
CHECK_DEADLOCK FALSE
