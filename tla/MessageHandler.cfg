SPECIFICATION SafetySpec
CONSTANTS
    Capacity = 3
    ShortTtl = 1
    LongTtl = 2
    MaxTime = 1
    NoSession = NoSession
    Reqs = {1, 2}
    Candidates <- MCCandidates
    MaxRounds = 1
    ChunkContents <- MCChunkContents
    MaxChunks = 1
    ChannelSize = 1
    MaxRestarts = 1
INVARIANTS AccountedOnce EndsWithVerdict SearchesPaired UsageTruthful
PROPERTIES ImplementsMetering
CHECK_DEADLOCK FALSE
