SPECIFICATION FairSpec
CONSTANTS
    d0 = d0
    d1 = d1
    u1 = u1
    u2 = u2
    Procs <- Processes
    HighPrio <- Daemons
    Getter = getter
    Nobody = nobody
    CallLists <- Calls
    Size <- Sizes
INVARIANTS
    TypeOK
    MutualExclusion
    LockHolderRuns
    NodesLive
    NoneForgotten
PROPERTIES
    RightCount
    UnslicedReturns
CHECK_DEADLOCK FALSE
