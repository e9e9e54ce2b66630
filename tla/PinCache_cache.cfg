SPECIFICATION Spec
CONSTANTS
    Lines = {1, 2, 3, 4}
    NUM_SETS <- MCNumSets
    NUM_WAYS <- MCNumWays
    ALLOCATION <- MCAllocation
    MaxSpan = 1
    InitialTs <- MCInitialTs
    MaxTime = 1000
VIEW ContentsView
CHECK_DEADLOCK FALSE
INVARIANT TypeOK
PROPERTIES
    WriteBacksMatchDirtyLines
    FillsAreRead
    AnswersTracerExpects
