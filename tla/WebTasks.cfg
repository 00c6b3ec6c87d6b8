SPECIFICATION TasksSpec
CONSTANTS
    t1 = t1
    t2 = t2
    p1 = p1
    p2 = p2
    Tasks = {t1, t2}
    Kinds = {"single", "fal"}
    MaxAuto = 1
    MaxReloads = 1
    Imports = {"running", "done"}
    Backup = {t2}
    Orderly = TRUE
    Pictures = {p1, p2}
    Viewers <- MCViewers
    MaxConcurrent = 2
    MaxCached = 1
    MaxQueued = 1
    MaxBackground = 1
    MaxPicks = 2
    MaxJobs = 1
INVARIANTS
    TasksTypeOK
    ReferencedImagesStored
    RowsFollowList
    QueueIsServed
PROPERTIES
    SettledStays
CHECK_DEADLOCK FALSE
