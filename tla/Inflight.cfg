SPECIFICATION InflightSpec
CONSTANTS
    Queries = {q1, q2, q3}
    CacheKeys = {k1}
    Valid = {v1}
    Unvalidated = {b1}
    NoQuery = NoQuery
INVARIANTS NoStrandedFollower NoUnvalidatedHit
PROPERTIES
    EveryQueryReturns
    ImplementsSingleFlight
CHECK_DEADLOCK FALSE
