SPECIFICATION EndsSpec
CONSTANTS
    Parts = {"cache", "coalescing", "sync"}
    r1 = r1
    c1 = c1
    c2 = c2
    w1 = w1
    Replicas = {r1}
    Readers = {c1, c2}
    Writers = {w1}
    Homes <- MCOneHome
    Slots = {"s1"}
    Adapters = {"versioned"}
    SharedStore = SharedStore
    NoCall = NoCall
    MaxCommits = 1
    MaxWrites = 1
    MaxRestarts = 0
    MaxPanics = 1
    MaxBumpErrors = 1
    Requests = {"q1", "q2"}
    Keys = {"k1"}
    None = None
    MaxBody = 1
    MaxChunks = 2
    MaxOps = 3
    MaxLost = 1
CHECK_DEADLOCK FALSE
INVARIANTS
    OneLeaderPerKey
    AnswersAreWhole
    CookiesAreOwn
PROPERTY
    CallsEnd
    QueueDrains
