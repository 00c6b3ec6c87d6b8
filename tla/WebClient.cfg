SPECIFICATION ClientSpec
CONSTANTS
    a1 = a1
    a2 = a2
    Assets = {a1, a2}
    Uploads = 1
    MaxPolls = 2
    MaxReviews = 2
    MaxRounds = 3
    MaxRuns = 2
    MaxTurns = 2
    MaxToolCalls = 1
    Streams = TRUE
    OneAtATime = TRUE
    Convs = {2, 3}
    Texts = {"x"}
    PersistInput = TRUE
    MaxLoads = 1
    QuietStart = TRUE
    Counts = {1, 2}
    EveryItemHasImage = TRUE
    MaxItems = 2
    MaxRepolls = 1
INVARIANTS
    ClientTypeOK
    ShownWasServers
    RunningIsExecuted
    RoundsAreATree
    TypedIsKept
    ConversationsAreStored
    ImagesKeepTheirPrompts
CHECK_DEADLOCK FALSE
