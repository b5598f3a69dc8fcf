SPECIFICATION Spec
CONSTANTS
    Procs = {p1, p2}
    HighPrio = {p1}
    Nobody = nobody
    NTracks = 2
    NBlocks = 2
    MaxCalls = 2
    Requests <- GoodRequests
INVARIANTS
    ExactTransfer
CHECK_DEADLOCK FALSE
