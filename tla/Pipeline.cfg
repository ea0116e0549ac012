SPECIFICATION FairSpec
CONSTANTS
    WB = WB
    NB = NB
    c1 = c1
    c2 = c2
    Free = free
    Channels = {WB, NB}
    Clients = {c1, c2}
    MAX_BUFFER_DEPTH = 0
    FRAMES = 1
    MaxBlocks <- FewBlocks
    Slow = {c1}
    MaxCommands = 1
INVARIANTS
    TypeOK
    OnlyTheQueueLoses
    NoCircle
    SomeoneGoesOn
PROPERTIES
    InOrderOnce
    BacklogDrains
    CommandEnds
CHECK_DEADLOCK FALSE
