CONSTANTS
    Parts = {"paths"}
    k1 = k1
    k2 = k2
    k3 = k3
    c1 = c1
    c2 = c2
    c3 = c3
    c4 = c4
    Counters = 2
    Millis = 16
    LastWall = 3
    MaxIds = 7
    Writers = {"w1", "w2"}
    Declared <- MCDeclared
    Paths <- MCPaths
    Scalars = {1}
    Null = null
    Obj = obj
    Default = 1
    Engines = {"pg", "sqlite"}
    MaxVersion = 2
    Fields = {"n", "b", "t"}
    TypeOf <- MCTypeOf
    Ranks = {0, 1}
    Indexed <- MCIndexed
    Names = {"a", "b", "c"}
    Values = {1, 2}
    Capacity = 2
    TTL = 1
    LastTick = 3
    Callers = {c1, c2, c3, c4}
    Keys = {k1, k2, k3}
    NoKey = NoKey
    Quota <- MCQuota
    Max = 2
    Scan = 2
    Second = 2
    MaxTime = 3
    Requests = {c1, c2}
    Entries = {"e"}
    Declined = "none"
    NoRun = none
    MaxBody = 1
    MaxChunks = 2
    ServedFor = 1
    Horizon = 2
    Calls = {c1, c2}
    Endpoint <- MCEndpoint
    Sessions = {"s1"}
    UserOf <- MCUserOf
    NoSession = "nobody"
    Addresses = {"i1"}
    Allowed = 1
    MaxChanges = 1
    Pages <- MCPages
    Rank <- MCRank
    Urls <- MCUrls
    Servers = {c3, c4}
    Loads = {c1, c2}
    Contents = {"x", "y"}
    NoFile = "none"
    HashOf <- MCHashOf
    SizeOf <- MCSizeOf
    Shrinks = {"x"}
    Plain = "plain"
    MaxEdits = 2
SPECIFICATION BackendSpec
CHECK_DEADLOCK FALSE
PROPERTY
    RemovedKeysAreGone
