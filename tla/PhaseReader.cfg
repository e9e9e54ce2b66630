CONSTANTS
    N_THR = 3
    Pages = {1, 2}
    PHASE_CYCLES = 4
    MARK_INTERVAL = 2
    Inputs <- MCInputs
    Cuts <- MCCuts
    MaxPhases = 3
SPECIFICATION Spec
INVARIANTS
    TypeOK
    PhaseCountsExact
    PhaseTotalsExact
    EndsWithShortest
PROPERTIES
    ReadingEnds
