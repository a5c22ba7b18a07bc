SPECIFICATION FairSpec
CONSTANTS
    k1 = k1
    k2 = k2
    Reports = {k1}
    Spaces = {1, 2}
    Summaries = {1}
    ClusterOf <- OneCluster
    InitialPast <- JustOne
    InitialReleases <- OneRelease
    ReportStates <- UpOrTwo
    SummaryStates <- DeployStates
    Bundles <- WebBundles
    MaxReleases = 2
    MaxChanges = 1
    MaxWithdrawn = 1
    Faults = {"failure", "restart"}
    MaxFaults = 1
    NoCluster = NoCluster
    NoSpace = NoSpace
    NoProfile = NoProfile
    Absent = Absent
    None = None
    NoRelease = NoRelease
    NoStatus = NoStatus
    NoSig = NoSig
    NoMatch = NoMatch
    NotRead = NotRead
CHECK_DEADLOCK FALSE
PROPERTIES
    SveltosConverges
    ImplementsSveltosFeed
INVARIANTS
    UnchangedIsNotWritten
