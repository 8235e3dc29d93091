SPECIFICATION ValidationSpec
CONSTANTS
    a = a
    b = b
    c = c
    g1 = g1
    g2 = g2
    PoolSets <- MCPoolSets
    Names <- MCNames
    Groups = {g1, g2}
    NoGroup = NoGroup
    Hash <- MCHash
    IterationCap = 2
    Wrap = 16
    Supported = {8, 13}
    Validators = {1, 2}
    TrustAnchors <- MCAnchors
    Ttl = 1
    MaxNegativeTtl = 1
    MaxWalks = 3
    MaxEntries = 3
    Epoch = 14
    Scenarios <- MCScenarios
    Zones <- MCZones
    SigLife = 4
INVARIANTS
    WalkIsSound
    SecureIsGenuine
    VerdictsEarned
CHECK_DEADLOCK FALSE
