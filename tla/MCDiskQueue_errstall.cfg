SPECIFICATION FairSpec
CONSTANTS
    Procs = {p1, p2}
    HighPrio = {}
    Nobody = nobody
    NTracks = 2
    NBlocks = 2
    MaxCalls = 1
    Requests <- AllRequests
PROPERTIES
    EveryCallReturns
CHECK_DEADLOCK FALSE
