SPECIFICATION Spec
CONSTANTS
    Procs = {p1, p2}
    HighPrio = {}
    Nobody = nobody
    MaxTime = 16
    Seconds <- Lengths
    TicksPerSecond = 2
    MaxCalls = 1
PROPERTIES
    OnTime
CHECK_DEADLOCK FALSE
