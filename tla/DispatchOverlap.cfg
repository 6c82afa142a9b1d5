SPECIFICATION Spec
CONSTANTS
    w1 = w1  w2 = w2
    e1 = e1  e2 = e2  e3 = e3
    t1 = t1  t2 = t2  t3 = t3
    Webhooks = {w1}
    Events = {e1, e2}
    Threads = {t1, t2}
    HighTier = {e2}
    ObservedAt <- MCObservedAt
    IdRank <- MCIdRank
    Wanted <- MCWanted
    MaxDigest = 1
    BurstCap = 1
    AutoDisable = 1
    Window = 0
    MinTtl = 1
    Horizon = 0
    MaxPending = 1
    MaxFailures = 1
    None = None
INVARIANTS BurstOverrunBounded
PROPERTIES KeepsPromise
SYMMETRY MCSymmetry
