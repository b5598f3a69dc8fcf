SPECIFICATION FairSpec
CONSTANTS
    Procs = {p1, p2, p3}
    HighPrio = {p1}
    Nobody = nobody
    MaxTime = 20
    Seconds <- Lengths
    TicksPerSecond = 2
    MaxCalls = 2
INVARIANTS
    TypeOK
    NodeLifetime
    NoneLost
    TailSorted
PROPERTIES
    NeverEarly
    NeverPutOff
    EverySleeperWakes
CHECK_DEADLOCK FALSE
