SPECIFICATION Spec
CONSTANTS
    Lines = {1, 2, 3, 4}
    NUM_SETS <- MCNumSets
    NUM_WAYS <- MCNumWays
    ALLOCATION <- MCAllocation
    MaxSpan = 2
    InitialTs <- MCInitialTs
    MaxTime = 1000
VIEW ContentsView
CHECK_DEADLOCK FALSE
PROPERTY WriteBacksMatchDirtyLines
