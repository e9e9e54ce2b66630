CONSTANTS
    Threads <- MCThreads
    ChampSimThreads = {0}
    Instructions <- MCInstructions
    Lines = {1}
    TBUF_SIZE = 2
    MARK_INTERVAL = 2
    PHASE_INTERVAL = 4
    champsim_traceins = 1
    KILL_AFTER = 4
    MaxInsts <- MCMaxInsts
    MaxAccesses <- NoAccesses
SPECIFICATION Spec
INVARIANT BuffersGoToFile
CHECK_DEADLOCK FALSE
