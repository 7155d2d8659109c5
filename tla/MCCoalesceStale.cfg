CONSTANTS
    k1 = k1
    k2 = k2
    r1 = r1
    r2 = r2
    r3 = r3
    Requests = {r1, r2}
    Keys = {k1}
    None = None
    MaxBody = 1
    MaxChunks = 2
    MaxWrites = 1
SPECIFICATION CoalesceSpec
CHECK_DEADLOCK FALSE
INVARIANT
    NeverStale
