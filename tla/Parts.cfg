SPECIFICATION PartsSpec
CONSTANTS
    p1 = p1
    p2 = p2
    p3 = p3
    Direct = Direct
    Inherit = Inherit
    Proxies <- ThreeProxies
    Updates <- OneCall
    Lookups <- TwoCalls
    Cap = 2
    admin = admin
    c1 = c1
    c2 = c2
    FrameSets <- ThreeFrames
    Garbage = {0, 3, 5}
    ChunkSizes = {1, 2, 4, 9}
    PreludeSize = 2
    MinMessage = 3
    MaxMessage = 6
    MaxErrors = 4
    MaxBuffer = 10
    Callers <- OneCall
    Values = {0, 1}
    MaxRestarts = 1
    MaxKeys = 2
    MaxAdmitted = 2
    MaxBoots = 1
    RetentionDays = 2
    DayBuckets = 2
    FlushEvery = 2
    Retentions = {1, 2}
    MaxDay = 4
    MaxRecords = 3
    Urls = {urlA, urlB}
    MaxProbeFailures = 2
    Checks <- TwoCalls
    MaxAdds = 2
    MaxUnsaved = 1
    Calls <- TwoCalls
    MaxVersion = 3
    Sessions = {1}
    Imported = 9
    MaxId = 2
SYMMETRY Symmetric
INVARIANTS
    CacheInv  IntactFramesKept SettersPersist
    TotalsTrue ChartMatchesLog ProbesKeepToTheirProxy KnownGoodKept CodeUsedOnce 
PROPERTY RevokedRefused
CHECK_DEADLOCK FALSE
