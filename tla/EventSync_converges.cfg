SPECIFICATION FairSpec
CONSTANTS
    t1 = t1
    t2 = t2
    Procs = {"old", "new"}
    Targets = {t1, t2}
    NamePart <- MCNamePart
    Bare = {t1}
    Slugs = {"orders"}
    SourceSlugs <- MCSourceSlugs
    KeepsAnnotation = TRUE
    NoOne = NoOne
    MaxEvents = 2
    MaxFailures = 1
    MaxLosses = 1
    MaxTargetChanges = 0
CHECK_DEADLOCK FALSE
PROPERTIES
    PublishedIsSynced
