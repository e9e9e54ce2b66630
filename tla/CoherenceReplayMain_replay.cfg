CONSTANTS
    N_SOCKETS = 2
    NUM_WAYS = 2
    NUM_SETS = 1
    Lines <- MCLines
    Timestamps <- MCTimestamps
    MaxInsts = 16
    N_THR = 3
    THREADS_PER_SOCKET = 2
    StartMark = 5
    EndMark = 6
    Traces <- MCTraces
SPECIFICATION FairMainSpec
INVARIANT
    MissAccounting
PROPERTIES
    EvictsThreadsOldest
    ReplayEnds
CHECK_DEADLOCK FALSE
