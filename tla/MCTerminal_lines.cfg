SPECIFICATION FairSpec
CONSTANTS
    Procs = {p1, p2}
    Chars = {"a", "b"}
    NL = NL
    NUL = NUL
    Nothing = Nothing
    Keys = {"a", NL, NUL}
    Texts <- TextsMC
    MaxLine = 2
    MaxBuffers = 1
    MaxInput = 3
    MaxCalls = 3
INVARIANTS
    TypeOK
    LineShape
    LinesAreInput
    OutputReady
PROPERTIES
    ImplementsLineOutput
    EveryWriterReturns
CHECK_DEADLOCK FALSE
