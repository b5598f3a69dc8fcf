SPECIFICATION FairSpec
CONSTANTS
    Procs = {p1, p2, p3}
    HighPrio = {}
    Nobody = nobody
    NTracks = 3
    NBlocks = 1
    MaxCalls = 2
    Requests <- TrackRequests
PROPERTIES
    OrderKept
    ServesForever
CHECK_DEADLOCK FALSE
