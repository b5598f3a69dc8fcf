SPECIFICATION Spec
CONSTANTS
    Procs = {p1, p2}
    HighPrio = {}
    Nobody = nobody
    NTracks = 2
    NBlocks = 2
    MaxCalls = 1
    Requests <- GoodRequests
SYMMETRY Symmetry
INVARIANTS
    CompleteMeansIdle
CHECK_DEADLOCK FALSE
