SPECIFICATION FairSpec
CONSTANTS
    CX = CX
    ZC = ZC
    Channels = {CX, ZC}
    BLOCK = 2
    MAX_BUFFER_DEPTH = 0
    MayStop = TRUE
    MaxUnits = 5
    MaxFailures = 1
INVARIANTS
    PassedIsWhole
    PassedInOrder
    NothingLost
PROPERTIES
    CloseEnds
CHECK_DEADLOCK FALSE
