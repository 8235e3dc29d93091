SPECIFICATION SpecLinks
CONSTANTS
    h1 = h1
    h2 = h2
    Hosts = {h1, h2}
    Addrs = {a1, a2}
    NoAddr = NoAddr
    Configs <- MCConfigs
    MaxReloads = 2
    MaxMoves = 1
    MaxFailures = 1
    Users = {1, 2}
    Scenes <- MCScenes
    Ports = {p1, p2}
    NoAddress = NoAddr
    MAX_PER_SERVER = 1
    TOTAL_LIMIT = 1
    ROTATION = 2
    MAX_IDLE = 1
    MaxMishaps = 1
INVARIANTS
    SetInStep
    AnswersMatch
    LinksServe
PROPERTY AddressesFollow
