SPECIFICATION MCSpec
CONSTANTS
    Ids = {1, 2}
    MaxFailures = 2
    Priorities = {1, 2}
    ThrottleTicks = 1
    RateTicks = 1
    MaxSuccess = 2
    Requests = {r1, r2}
    Kinds = {"chat", "mcp"}
    BadAnswers = {"auth", "rate_limit", "suspicious", "gateway_timeout", "success"}
    BadTokens = {"ok", "invalid"}
    GoodAnswers = {"auth", "quota", "success", "validation", "network"}
    GoodTokens = {"ok"}
    StartMode = "priority"
    FreeIds = {}
    Answers <- MCAnswers
    TokenResults <- MCTokens
    RetriesPerCredential = 2
    MaxTotalRetries = 30
    SwitchOn429 = TRUE
    ThrottleFailover = TRUE
    MaxReloads = 0
    SlowThreads = TRUE
    AdminActs = FALSE
INVARIANTS
    OnlyAuthFailuresDisable
PROPERTIES
    OnlyFailuresHeal
SYMMETRY MCSymmetry
