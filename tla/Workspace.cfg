SPECIFICATION Spec
CONSTANTS
    Handlers = {r1, r2}
    Slots = {s1, s2}
    NoSlot = NoSlot
    Processes = {p1}
    MaxVersion = 2
    Logins = {l1, l2}
    Threshold = 2
    FailsTtl = 2
    LockTtl = 4
    MaxFails = 5
    Users = {u1, u2}
    Admin = admin
    MemberRequests = {r1, r2}
    Names = {"n1", "n2"}
    Scopes = {w1}
    Feeds = {f1, f2}
    EditRequests = {r1, r2}
    Batches = 2
    Threads = {t1, t2}
    MaxPuts = 2
    MaxAsks = 1
    MaxCrashes = 3
    MaxInAll = 4
    Profiles = {a1}
    Scenarios = {c1}
    NoProfile = NoProfile
    OtherProfile = OtherProfile
    MinProfiles = 1
    MinSelected = 1
    MaxScenarios = 1
    Editors = {e1}
    Exporters = {x1, x2}
    MaxExports = 2
    MaxRetries = 1
    Terms = {"acme.com", "Ann"}
    TermType <- MCTermType
    Hits <- MCHits
    Broad <- MCBroad
    NoiseThreshold = 1
    ScanRetries = 1
    Monitors = {w1}
    MaxTicks = 2
    MaxEdits = 2
    Assets = {t1, t2}
    Allowed = {t1}
    Graded = {t2}
    Contents = {"x"}
    History = 1
    MaxScans = 3
    MaxReports = 2
    MaxTriage = 1
    Suggestions = {g1, g2}
    Reviewers = {h1, h2}
    PushRetries = 1
    MaxDecisions = 2
INVARIANTS
    WorkspaceTypeOK
    SessionsHold
    CounterHarmless
    LeadKept
    SettingsHold
    ScoresSettle
    DocumentsHold
    DecisionsStand
    SeenIsNotGone
    DecidedAsAsked
CHECK_DEADLOCK FALSE
