CONSTANTS
    Parts = {"columns"}
    i1 = i1
    i2 = i2
    c1 = c1
    c2 = c2
    c3 = c3
    p1 = p1
    p2 = p2
    Ids = {i1, i2}
    Calls = {c1, c2, c3}
    DocIds = {i1, i2}
    NoRow = NoRow
    None = None
    PatchAttempts = 2
    BulkWriters = {TRUE, FALSE}
    Chains <- MCChains
    Requests <- MCRequests
    Prefix <- MCPrefix
    Letters <- MCLetters
    MinSize = 4
    Fields = {"f", "g"}
    Values = {"d"}
    Zero <- MCZero
    Reported = {"f"}
    Procs = {p1, p2}
    Builds <- MCBuilds
    NoBuild = NoBuild
    NoDoc = NoDoc
    Backends = {"sqlite", "memdb"}
    MaxFaults = 1
    MaxGuards = 2
    MaxOps = 2
    SensitiveWords <- MCSecrets
    Identifiers = {"id", "id2"}
    Addresses = {"address"}
    Documents <- MCDocuments
    Spelt <- MCSpelt
    MaxRendered = 10
    MaxElements = 2
    MaxDepth = 2
SPECIFICATION ServerSpec
CHECK_DEADLOCK FALSE
INVARIANT
    SkippedColumnsDegrade
