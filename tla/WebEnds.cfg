SPECIFICATION EndsSpec
CONSTANTS
    a1 = a1
    t1 = t1
    Tasks = {t1}
    Kinds = {"single", "fal"}
    MaxAuto = 1
    MaxReloads = 1
    Imports = {}
    Backup = {}
    Orderly = TRUE
    Assets = {a1}
    Uploads = 1
    MaxPolls = 2
    MaxReviews = 1
    MaxRounds = 2
    MaxRuns = 1
    MaxTurns = 2
    MaxToolCalls = 2
    Streams = TRUE
    OneAtATime = TRUE
PROPERTIES
    TasksEnd
    StoppedRunEnds
CHECK_DEADLOCK FALSE
