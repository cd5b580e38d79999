SPECIFICATION FairSpec
CONSTANTS
    c1 = c1
    c2 = c2
    Calls <- TwoCalls
    None = None
    MaxIssued = 2
    MaxVersions = 1
    MaxFailures = 2
    Mishaps <- AllMishaps
INVARIANTS RefreshSendsLiveToken FileAgrees
PROPERTY CallsEnd
CHECK_DEADLOCK FALSE
