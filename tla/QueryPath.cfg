CONSTANTS
    Milli = 2
    Qps = 1
    Burst = 1
    NxQps = 1
    SlipRatio = 2
    StaleTtl = 1
    Rotation = 1
    MaxConns = 2
    RateLimitPerApex = 1
    UniqueLimit = 1
    DgaRate = 1
    TunnelingThreshold = 60
    DgaThreshold = 65
    DgaHotThreshold = 70
    Window = 2
    EntryTtl = 1
    DefaultGroup = 1
    DecisionTtl = 1
    ChainTtl = 2
    GroupTtl = 1
    UpstreamSlots = 1
    FallbackSlots = 1
    EventRoom = 2
    Workers = {1, 2}
    MinuteSecs = 2
    HourSecs = 4
    CloseLag = 1
    ChannelCapacity = 2
    MaxBatchSize = 2
    RowsPerChunk = 1
    DeleteBatch = 1
    MaxHoursPerRun = 3
    PageLimit = 1
    SnapshotLimit = 9
    HistorySecs = 4
    HistoryBuckets = 3
    Subnet <- MCSubnet
    Whitelist = {"vip"}
    Apex <- MCApex
    Sub <- MCSub
    NameSignals <- MCNameSignals
    Mixes <- MCMixes
SPECIFICATION Spec
INVARIANTS
    VerdictsFresh
    GroupsFresh
    FastPathAgrees
    RationsHold
    TimerFollowsLastRequest
    LogTellsReply
CHECK_DEADLOCK FALSE
