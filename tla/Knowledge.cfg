SPECIFICATION KnowledgeSpec
CONSTANTS
    p1 = p1
    IocProjects = {p1}
    Global = Global
    IocRequests = {w1, w2}
    Confidences = {"0.5", "0.7"}
    NoWord = NoWord
    Values = {"a", "b"}
    Files <- MCFiles
    Uploads = {u1, u2}
    Importers = {w1, w2}
    RowCap = 3
    Batch = 2
    ImportRetries = 1
    MaxDisturbed = 1
    EventIds = {1, 2, 3, 4}
    Page = 2
    MaxArchived = 1
    Feed = {1, 2, 3, 4}
    Facts <- MCFacts
    Times = {1, 2}
    Weights = {0, 2, 4}
    Kept <- MCKept
    FeedSources = {"s1", "s2"}
    ScopeRows = {"r1", "r2"}
    Hits <- MCHits
    Queries <- MCQueries
    Limit = 1
    MaxFeedChanges = 1
    Cases = {k1}
    Campaigns = {g1}
    SeenEvents = {v1}
    SeenIocs = {x1}
    DossierRequests = {w1, w2, a3}
    n1 = n1  n2 = n2  n3 = n3
    GraphEvents = {n1, n2, n3}
    Techniques = {T1, T2}
    StixRefs = {"actor", "malware", "x"}
    Displayable = {"actor", "malware"}
    StixOf <- MCStixOf
    HomeOf <- MCHomeOf
    Shown = {n1, n2, n3}
    NodeCap = 5
    EdgeCap = 6
    MaxGraphChanges = 1
    Detections = {"sel", "flt"}
    ItemsOf <- MCItemsOf
    FieldOf <- MCFieldOf
    MaxTerms = 3
    MaxNots = 1
    Posts = {"c1", "c2", "c3", "d1"}
    ObservedAt <- MCObservedAt
    ProjectOf <- MCProjectOf
    Alike <- MCAlike
    Sweepers = {w1, w2}
    RecentFor = 2
    MaxPosts = 3
    MinCluster = 3
    LockTtl = 1
    LastTime = 2
    MaxSweepFaults = 1
    Ranked = {"e1", "e2", "e3"}
    ScoreOf <- MCScoreOf
    Adjustments <- MCAdjustments
    Breaker = 2
    Rerankers = {w1, w2}
    RerankRetries = 1
    MaxSent = 2
    MaxAiFaults = 1
INVARIANTS
    KnowledgeTypeOK
    AnalystsDecide
    JobsReadAll
    WalkComplete
    DossiersTraced
    GraphFaithful
    DetectorsHold
SYMMETRY KnowledgeSymmetry
CHECK_DEADLOCK FALSE
