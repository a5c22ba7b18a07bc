SPECIFICATION Spec
CONSTANTS
    k1 = k1
    k2 = k2
    Reports = {k1, k2}
    Spaces = {1}
    Summaries = {1}
    ClusterOf <- AgentToo
    InitialPast <- ExistingPair
    InitialReleases <- OneRelease
    ReportStates <- UpOrGrown
    SummaryStates <- DeployStates
    Bundles <- GrowingBundle
    MaxReleases = 2
    MaxChanges = 1
    MaxWithdrawn = 0
    Faults = {}
    MaxFaults = 0
    NoCluster = NoCluster
    NoSpace = NoSpace
    NoProfile = NoProfile
    Absent = Absent
    None = None
    NoRelease = NoRelease
    NoStatus = NoStatus
    NoSig = NoSig
    NoMatch = NoMatch
    NotRead = NotRead
CHECK_DEADLOCK FALSE
INVARIANTS
    MatchIsWhatRuns
