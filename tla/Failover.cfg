SPECIFICATION MCSpec
CONSTANTS
    Ids = {1, 2}
    MaxFailures = 2
    Priorities = {1, 2}
    ThrottleTicks = 2
    RateTicks = 1
    MaxSuccess = 2
    Requests = {r1, r2}
    Kinds = {"chat", "mcp"}
    BadAnswers = {"unknown_endpoint", "quota", "auth", "auth_bearer", "suspicious", "rate_limit"}
    BadTokens = {"ok", "error", "invalid"}
    GoodAnswers = {"success"}
    GoodTokens = {"ok"}
    StartMode = "priority"
    FreeIds = {}
    Answers <- MCAnswers
    TokenResults <- MCTokens
    RetriesPerCredential = 3
    MaxTotalRetries = 30
    SwitchOn429 = TRUE
    ThrottleFailover = TRUE
    MaxReloads = 1
    SlowThreads = FALSE
    AdminActs = FALSE
INVARIANTS
    FailoverServes
PROPERTIES
    ImplementsPool
SYMMETRY MCSymmetry
