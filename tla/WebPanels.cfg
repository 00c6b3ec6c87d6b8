SPECIFICATION PanelsSpec
CONSTANTS
    a1 = a1
    t1 = t1
    Rows = {1, 2}
    CampaignOf <- MCCampaignOf
    Matching = {2}
    PageSize = 1
    MaxListed = 2
    MaxRequests = 2
    Hasty = FALSE
    Images = {a1}
    MaxCalls = 2
    MaxVerdicts = 2
    Workspaces = {"w1", "w2"}
    Projects = {"p1"}
    Campaigns = {"c1", "c2"}
    ParentOf <- MCParentOf
    DefaultWorkspace = "ws"
    DefaultProject = "ps"
    DefaultCampaign = "cs"
    MaxActs = 3
    OfProject <- MCOfProject
    CharacterIds = {"A", "B"}
    RecipeIds = {"R"}
    Slug <- MCSlug
    Requests = {1, 2}
    MaxSaves = 1
    Earlier <- MCEarlier
    CollectionIds = {"A", "B"}
    CollectionNames = {"x"}
    FavoriteTasks = {t1}
    Saved <- MCSaved
    Deletions = {1, 2}
    MaxClicks = 3
    InputPictures = {"a", "b", "w"}
    Copied <- MCCopied
    LostPictures = {}
    Reusable <- MCReusable
    MaxImages = 2
    MaxReading = 2
    MaxMentions = 1
    MaxInputActs = 6
    InMemory = TRUE
    Retyped = FALSE
    Pointers = {"p", "q", "r"}
    MaxHistory = 2
    MaxStrokes = 5
    OneHand = TRUE
    CustomProviders = {"c"}
    Standard <- MCStandard
    TypedConnections = {"x", ""}
    Imports <- MCImports
    MaxProfiles = 3
    MaxEdits = 5
    ScopeParent <- MCScopeParent
    Served = {"w1", "p1", "c1", "w2"}
    Creatable = {"p2", "c2"}
    Typable = {"w2"}
    Sample <- MCSample
    MaxManaged = 7
INVARIANTS
    PanelsTypeOK
    ListedIsAsked
    PendingIsAwaited
    CleanupIsPreviewed
    OneBindingPerUse
    FavoritesRefer
    MentionsFollowImages
    HistoryIsOneLine
    

    
CHECK_DEADLOCK FALSE
