SPECIFICATION MCFairSpec
CONSTANTS
    Ids = {1}
    MaxFailures = 2
    Priorities = {1}
    ThrottleTicks = 1
    RateTicks = 1
    MaxSuccess = 1
    Requests = {r1}
    Kinds = {"opus", "chat"}
    BadAnswers = {"auth", "auth_bearer", "rate_limit", "transient", "success"}
    BadTokens = {"ok", "error", "invalid"}
    GoodAnswers = {"rate_limit", "transient", "bad_request", "success"}
    GoodTokens = {"ok"}
    StartMode = "balanced"
    FreeIds = {}
    Answers <- MCAnswers
    TokenResults <- MCTokens
    RetriesPerCredential = 2
    MaxTotalRetries = 30
    SwitchOn429 = FALSE
    ThrottleFailover = FALSE
    MaxReloads = 1
    SlowThreads = TRUE
    AdminActs = TRUE
PROPERTIES
    RequestsEnd
