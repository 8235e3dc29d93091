SPECIFICATION Spec
CONSTANTS
    a = a
    b = b
    Servers = {a, b}
    Listings <- MCListings
    FailureThreshold = 2
    SuccessThreshold = 2
    CounterMax = 2
    MaxFlips = 2
    MaxReloads = 2
INVARIANT VerdictFollowsRuns
PROPERTY RotationFollows
