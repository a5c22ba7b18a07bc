SPECIFICATION FairSpec
CONSTANTS
    t1 = t1
    t2 = t2
    Procs = {"old"}
    Targets = {t1, t2}
    NamePart <- MCNamePart
    Bare = {t1, t2}
    Slugs = {"orders"}
    SourceSlugs <- MCSourceSlugs
    KeepsAnnotation = FALSE
    NoOne = NoOne
    MaxEvents = 2
    MaxFailures = 0
    MaxLosses = 0
    MaxTargetChanges = 0
CHECK_DEADLOCK FALSE
PROPERTIES
    PublishedIsSynced
