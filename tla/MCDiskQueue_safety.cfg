SPECIFICATION Spec
CONSTANTS
    Procs = {p1, p2, p3}
    HighPrio = {}
    Nobody = nobody
    NTracks = 2
    NBlocks = 2
    MaxCalls = 2
    Requests <- AllRequests
SYMMETRY Symmetry
INVARIANTS
    TypeOK
    NodeLifetime
    OnlyHeadStarted
    OneInFlight
    NoStall
    ExactTransfer
    HonestAnswer
PROPERTIES
    HeadStable
    ImplementsService
CHECK_DEADLOCK FALSE
