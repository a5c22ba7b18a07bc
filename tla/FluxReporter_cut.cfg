SPECIFICATION FairSpec
CONSTANTS
    k1 = k1
    k2 = k2
    KustOrder <- TwoKusts
    Source = Source
    Digests = {"a", "b"}
    MaxReleases = 2
    NamesFit = 1
    CutShort <- NoNames
    CutName = CutName
    CutNamespace = CutNamespace
    Garbled = Garbled
    LongTexts = {}
    BrokenTexts = {}
    Absent = Absent
    NoRelease = NoRelease
    NoStatus = NoStatus
    KustStates <- Moves
    SourceStates <- PulledOnly
    InitialReleases <- TwoReleases
    MaxChanges = 5
    MaxFailures = 0
    CanHide = FALSE
    MaxWithdrawn = 0
    MaxRestarts = 0
CHECK_DEADLOCK FALSE
PROPERTIES
    StaleIsReplaced
