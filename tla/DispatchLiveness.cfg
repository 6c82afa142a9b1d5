SPECIFICATION HealthySpec
CONSTANTS
    w1 = w1  w2 = w2
    e1 = e1  e2 = e2  e3 = e3
    t1 = t1  t2 = t2  t3 = t3
    Webhooks = {w1}
    Events = {e1, e2, e3}
    Threads = {t1}
    HighTier = {e1}
    ObservedAt <- MCObservedAt
    IdRank <- MCIdRank
    Wanted <- MCWanted
    MaxDigest = 2
    BurstCap = 1
    AutoDisable = 1
    Window = 1
    MinTtl = 2
    Horizon = 1
    MaxPending = 1
    MaxFailures = 0
    None = None
PROPERTIES EventuallySent
