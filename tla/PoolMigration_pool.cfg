CONSTANTS
    Pages <- MCPages
    N_SOCKETS = 3
    CXO = 100
    INVAL_OWNER = 9999
    SHARER_THRESHOLD = 2
    MANY_SHARERS = 3
    POOL_FRACTION = 2
    MIGRATION_LIMIT = 3
    PHASES_PER_MIGRATION = 2
    Phases <- MCPhases
    MaxPhases = 3
    SOCKETS_PER_GROUP = 2
SPECIFICATION ProgramSpec
INVARIANTS
    TypeOK
    PoolWithinCapacity
    EvictionFindsCandidate
    MigrationLimited
    ReportCoversMoves
    PingPongBounded
    MovedPagesAreInPool
    HopsMatchSavedMap
    TrafficAddsUp
CHECK_DEADLOCK FALSE
