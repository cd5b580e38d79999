SPECIFICATION Spec
CONSTANTS
    Ids = {1}
    MaxFailures = 3
    Priorities = {0, 1}
    ThrottleTicks = 2
    RateTicks = 1
    MaxSuccess = 2
INVARIANTS
    TypeOK
    ReasonIffDisabled
    EnabledBelowLimits
    HealableBelowRefreshLimit
CHECK_DEADLOCK FALSE
