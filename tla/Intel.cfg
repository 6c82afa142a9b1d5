SPECIFICATION IntelSpec
CONSTANTS
    e1 = e1  c1 = c1
    Calls = {e1, c1}
    Kind <- MCKind
    Estimate <- MCEstimate
    Answers = {0, 6}
    Flat = 1
    Cap = 9
    LastDay = 1
    MaxCrashes = 2
    f1 = f1  f2 = f2  p1 = p1  i1 = i1  i2 = i2
    Sources = {f1, f2}
    Pollers = {w1, w2}
    BoundTo <- MCBoundTo
    Legacy = Legacy
    Indicators = {i1, i2}
    Mentions <- MCMentions
    MaxItems = 3
    MaxPolls = 3
    Window = 1
    SourceIds = {f1, f2}
    AdminRequests = {r1, r2}
    Intervals = {10, 60}
    NoJob = 0
    MaxWaiting = 2
    MaxFaults = 1
    EnrichJobs = {j1, j2}
    Verdicts = {"clean"}
    NoVerdict = NoVerdict
    MinuteCap = 1
    DailyCap = 2
    BreakerThreshold = 2
    LastMinute = 2
    MinutesPerDay = 3
    MaxEnrichCrashes = 1
    Watched = {f1}
    AlertCap = 1
    Sla = 0
    HourTicks = 2
    MaxClock = 2
    MaxWindows = 1
    Detonators = {d1, d2}
    PollAttempts = 2
    MaxSightings = 2
    MaxReportRows = 2
    MaxDeaths = 1
SYMMETRY MCSymmetry
INVARIANTS
    IntelTypeOK
    BudgetHolds
    NothingSkipped
    JobsFollowSources
    CallsWithinCaps
    AlertsBounded
    ReportsFollowed
CHECK_DEADLOCK FALSE
