SPECIFICATION FairSpec
CONSTANTS
    Requests = {"a1", "a2", "b1"}
    Process <- MCProcess
    Goals <- MCGoals
    Cost <- MCCost
    RawRetention = 2
    TargetRounds = 1
    ExtraRounds = 1
    MaxRecentTokens = 2
    Facts = {"tea", "sugar"}
    MaxEntries = 1
    MaxIds = 3
    Replies <- MCReplies
    MaxInput = 3
    MaxOutput = 2
    MaxTotal = 4
    PromptSize <- MCPromptSize
    RepairSize = 1
    MaxRepairs = 1
    HasRouter = TRUE
    HasModel = TRUE
    AllowAutoTasks = TRUE
    KnownFact = "sugar"
    HasSummarizer = TRUE
    HostChars = {0, 100, 10000}
    SkillChars = {0, 5000}
    TurnChars = 1500
    SummaryChars = 3000
    EntryChars = 80
    MaxChars = 6000
    MaxCrashes = 1
    MaxPins = 1
INVARIANTS
    TypeOK
    SummarySkipsNone
    ContextAccounts
    RecordedIsStored
    ConversationIsShown
    SpendWithinBudget
PROPERTIES
    MemoryKept
    RequestEnds
CHECK_DEADLOCK FALSE
