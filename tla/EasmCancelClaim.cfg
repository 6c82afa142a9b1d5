SPECIFICATION SteadySpec
CONSTANTS
    s1 = s1  s2 = s2  s3 = s3
    t1 = t1  t2 = t2
    c1 = c1  c2 = c2  c3 = c3
    Scans = {s1, s2}
    ProjectOf <- MCProjectOf
    Workers = {t1, t2}
    Containers = {c1, c2}
    Limit = 2
    History = 1
    MaxDrift = 2
    None = None
PROPERTIES
    CancelledNeverRuns
CHECK_DEADLOCK FALSE
