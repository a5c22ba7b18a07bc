SPECIFICATION Spec
CONSTANTS
    k1 = k1
    k2 = k2
    Reports = {k1, k2}
    Spaces = {1}
    Summaries = {1}
    ClusterOf <- OneCluster
    InitialPast <- ExistingPair
    InitialReleases <- OneRelease
    ReportStates <- UpOrGrown
    SummaryStates <- DeployStates
    Bundles <- GrowingBundle
    MaxReleases = 2
    MaxChanges = 1
    MaxWithdrawn = 0
    Faults = {"lost", "hide"}
    MaxFaults = 1
    NoCluster = NoCluster
    NoSpace = NoSpace
    NoProfile = NoProfile
    Absent = Absent
    None = None
    NoRelease = NoRelease
    NoStatus = NoStatus
    NoSig = NoSig
    NoMatch = NoMatch
    NotRead = NotRead
SYMMETRY ReportSymmetry
CHECK_DEADLOCK FALSE
INVARIANTS
    TypeOK
    NoLostSveltosUpdate
    MatchIsNewest
