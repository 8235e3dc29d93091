SPECIFICATION Spec
CONSTANTS
    Mixes <- MCMixes
    Hits <- MCHits
    Builtin <- MCBuiltin
    Slugs <- MCSlugs
    Unstarred <- MCUnstarred
    ValidPatterns <- MCValid
    Names <- MCNames
    MaxBits = 63
    RoutedGroups = {}
    UnsafeItems = {}
    Ips = {"i1", "i2", "i3", "i9"}
    Cidrs = {"c1", "c2"}
    MaxRefreshes = 1
    Clock = {0, 1}
CHECK_DEADLOCK FALSE
INVARIANTS
    IndexIsCurrent
    EngineFollowsTables
    ServiceRulesMatch
    OverridesTracked
    PreviewsAgree
