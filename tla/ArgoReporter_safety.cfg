SPECIFICATION Spec
CONSTANTS
    a1 = a1
    p1 = p1
    p2 = p2
    Words <- MCWords
    Apps = {a1}
    NameOf <- OneName
    Objects <- SyncObjects
    Absent = Absent
    Spaces = {p1, p2}
    Slugs = {"orders"}
    SlugOf <- MCSlugOf
    Digests = {"d1", "d2"}
    MaxReleases = 2
    Null = Null
    NoRelease = NoRelease
    NoStatus = NoStatus
    LoseAnswers = TRUE
    MaxChanges = 2
    MaxFailures = 1
    MaxRestarts = 1
    None = None
    NoSig = NoSig
CHECK_DEADLOCK FALSE
INVARIANTS
    TypeOK
    NoLostUpdate
PROPERTIES
    ImplementsFeed
