CONSTANTS
    N_SOCKETS = 3
    NUM_WAYS = 2
    NUM_SETS = 1
    Lines <- MCThreeLines
    Timestamps = {0}
    MaxInsts = 1000
SPECIFICATION Spec
VIEW ProtocolState
INVARIANTS
    TypeOK
    DirectoryMatchesCaches
    EntriesMatchDirectory
    SharersMatchState
    SingleWriter
    NoAssertFails
PROPERTIES
    WriteBackAccounting
    ImplementsCoherentSockets
