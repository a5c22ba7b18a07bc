SPECIFICATION Spec
CONSTANTS
    k1 = k1
    k2 = k2
    KustOrder <- TwoKusts
    Source = Source
    Digests = {"a", "b"}
    MaxReleases = 2
    NamesFit = 1
    CutShort <- SecondIsCutShort
    CutName = CutName
    CutNamespace = CutNamespace
    Garbled = Garbled
    LongTexts = {"No file"}
    BrokenTexts = {"No file"}
    Absent = Absent
    NoRelease = NoRelease
    NoStatus = NoStatus
    KustStates <- Mixed
    SourceStates <- RepoStates
    InitialReleases <- EarlierOrNone
    MaxChanges = 3
    MaxFailures = 1
    CanHide = FALSE
    MaxWithdrawn = 0
    MaxRestarts = 1
CHECK_DEADLOCK FALSE
INVARIANTS
    TypeOK
    NoLostFluxUpdate
    PlanIsStable
PROPERTIES
    FailureIsKept
