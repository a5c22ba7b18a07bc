SPECIFICATION FairSpec
CONSTANTS
    a1 = a1
    p1 = p1
    p2 = p2
    Words <- MCWords
    Apps = {a1}
    NameOf <- OneName
    Objects <- MoveObjects
    Absent = Absent
    Spaces = {p1}
    Slugs = {"orders"}
    SlugOf <- OneSlug
    Digests = {"d1", "d2"}
    MaxReleases = 2
    Null = Null
    NoRelease = NoRelease
    NoStatus = NoStatus
    LoseAnswers = FALSE
    MaxChanges = 2
    MaxFailures = 1
    MaxRestarts = 0
    None = None
    NoSig = NoSig
CHECK_DEADLOCK FALSE
INVARIANTS
    SuppressedIsCurrent
PROPERTIES
    LiveStatusConverges
