SPECIFICATION BrandSpec
CONSTANTS
    Terms = {"acme.com", "Ann"}
    TermType <- MCTermType
    Hits <- MCHits
    Broad <- MCBroad
    NoiseThreshold = 1
    ScanRetries = 1
    Monitors = {w1}
    MaxTicks = 1
    MaxEdits = 1
INVARIANT HighMatchesFire
CHECK_DEADLOCK FALSE
