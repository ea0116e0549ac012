SPECIFICATION FairSpec
CONSTANTS
    c1 = c1
    c2 = c2
    c3 = c3
    Consumers = {c1, c2, c3}
    MAX_BUFFER_DEPTH = 2
    MaxPush = 5
INVARIANTS
    TypeOK
    NoLostWakeup
PROPERTIES
    ImplementsFifo
    ServesLikeFifo
CHECK_DEADLOCK FALSE
