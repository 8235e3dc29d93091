SPECIFICATION Spec
CONSTANTS
    k1 = k1
    p1 = p1
    p2 = p2
    Keys = {k1}
    NegativeKeys = {k1}
    LocalKeys = {k1}
    NegativeTTL = 1
    ThresholdPct = 50
    RetryAfter = 1
    RenewAhead = TRUE
    Permits = {p1, p2}
    Settings <- MCSettings
    MaxRepairs = 1
    MaxTimers = 1
    MaxNow = 3
INVARIANT NothingForgotten
PROPERTY DeadEntriesGo
CHECK_DEADLOCK FALSE
