SPECIFICATION Spec
CONSTANTS
    c1 = c1
    c2 = c2
    Calls <- TwoCalls
    None = None
    MaxIssued = 1
    MaxVersions = 0
    MaxFailures = 1
    Mishaps <- IdeOnly
PROPERTY OnlyDeadTokenDisables
CHECK_DEADLOCK FALSE
