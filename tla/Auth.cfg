SPECIFICATION Spec
CONSTANTS
    Mixes <- MCMixes
    Clients <- MCClients
    Peer <- MCPeer
    Admin = "root"
    Others = {"bob"}
    Passwords = {"pw", "new", "x"}
    TooShort = "x"
    Tokens = {"key"}
    MaxFailures = 1
    WindowTicks = 1
    ChallengeTtl = 1
    SessionTtl = 1
    c1 = c1
    c2 = c2
SYMMETRY Symmetry
CHECK_DEADLOCK FALSE
INVARIANTS
    FactorUsedOnce
    FailuresBounded
    NothingOutlivesUser
    PasswordChangeHolds
