SPECIFICATION FairSpec
CONSTANTS
    Tests <- AllTests
    Main <- StartMC
    Texts <- TextsMC
    NTracks <- TracksMC
    NBlocks = 16
    NTerms = 4
    MaxLine = 4
    Input <- InputMC
    Pools <- PoolsMC
    Short = 2
    Rounds = 2
    Few = 2
    Turns = 5
    Sleepers = 2
INVARIANTS
    TypeOK
    ChecksHold
    NeverDangling
PROPERTIES
    PoolKept
    TestEnds
CHECK_DEADLOCK FALSE
