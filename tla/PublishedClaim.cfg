SPECIFICATION ReportsSpec
CONSTANTS
    Profiles = {a1}
    Scenarios = {c1}
    NoProfile = NoProfile
    OtherProfile = OtherProfile
    MinProfiles = 1
    MinSelected = 1
    MaxScenarios = 1
    Editors = {e1}
    Exporters = {x1}
    MaxExports = 0
    MaxRetries = 0
PROPERTIES PublishedIsImmutable
CHECK_DEADLOCK FALSE
