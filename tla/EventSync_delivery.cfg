SPECIFICATION Spec
CONSTANTS
    t1 = t1
    t2 = t2
    Procs = {"old", "new"}
    Targets = {t1, t2}
    NamePart <- MCNamePart
    Bare = {t1, t2}
    Slugs = {"orders"}
    SourceSlugs <- MCSourceSlugs
    KeepsAnnotation = FALSE
    NoOne = NoOne
    MaxEvents = 2
    MaxFailures = 1
    MaxLosses = 1
    MaxTargetChanges = 1
CHECK_DEADLOCK FALSE
INVARIANTS
    TypeOK
    ConsumedMeansTried
