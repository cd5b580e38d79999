SPECIFICATION Spec
CONSTANTS
    Capacity = 3
    ShortTtl = 1
    LongTtl = 2
    MaxTime = 0
    NoSession = NoSession
    Reqs = {1}
    Candidates <- OneOfEach
    MaxRounds = 2
    ChunkContents <- TwoSearches
    MaxChunks = 2
    ChannelSize = 1
    MaxRestarts = 1
PROPERTIES RequestsEnd LoopOutlivesClient
CHECK_DEADLOCK FALSE
