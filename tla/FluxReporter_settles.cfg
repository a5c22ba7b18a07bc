SPECIFICATION FairSpec
CONSTANTS
    k1 = k1
    k2 = k2
    KustOrder <- OneKust
    Source = Source
    Digests = {"a", "b"}
    MaxReleases = 2
    NamesFit = 2
    CutShort <- NoNames
    CutName = CutName
    CutNamespace = CutNamespace
    Garbled = Garbled
    LongTexts = {}
    BrokenTexts = {}
    Absent = Absent
    NoRelease = NoRelease
    NoStatus = NoStatus
    KustStates <- Moves
    SourceStates <- PulledOnly
    InitialReleases <- Earlier
    MaxChanges = 3
    MaxFailures = 1
    CanHide = TRUE
    MaxWithdrawn = 1
    MaxRestarts = 0
CHECK_DEADLOCK FALSE
PROPERTIES
    FluxSettles
    StaleIsReplaced
