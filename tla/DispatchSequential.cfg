SPECIFICATION Spec
CONSTANTS
    w1 = w1  w2 = w2
    e1 = e1  e2 = e2  e3 = e3
    t1 = t1  t2 = t2  t3 = t3
    Webhooks = {w1}
    Events = {e1, e2, e3}
    Threads = {t1}
    HighTier = {e3}
    ObservedAt <- MCObservedAt
    IdRank <- MCIdRank
    Wanted <- MCWanted
    MaxDigest = 2
    BurstCap = 1
    AutoDisable = 2
    Window = 1
    MinTtl = 2
    Horizon = 0
    MaxPending = 1
    MaxFailures = 3
    None = None
INVARIANTS BatchNotBehindCursor FailuresCountTheStreak
PROPERTIES ClearedWasSent
