SPECIFICATION CachedSpec
CONSTANTS
    r1 = r1
    r2 = r2
    c1 = c1
    c2 = c2
    w1 = w1
    w2 = w2
    s1 = s1
    s2 = s2
    Replicas = {r1, r2}
    Readers = {c1, c2}
    Writers = {w1, w2}
    Homes <- MCHomes
    Slots = {s1, s2}
    Adapters = {"process", "plain", "versioned"}
    SharedStore = SharedStore
    NoCall = NoCall
    MaxCommits = 2
    MaxRestarts = 1
    MaxPanics = 0
    MaxBumpErrors = 1
INVARIANTS
    WritesAreSeen
    OneQueryPerKey
