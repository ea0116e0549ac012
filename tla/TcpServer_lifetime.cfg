SPECIFICATION Spec
CONSTANTS
    s1 = s1
    s2 = s2
    wb = wb
    nb = nb
    nosession = nosession
    free = free
    Sessions = {s1, s2}
    DataThreads = {wb, nb}
    SlowPeers = {}
    NoSession = nosession
    Free = free
    PacketLen = 1
    MaxBroadcasts = 2
    MaxCommands = 1
SYMMETRY Symmetry
INVARIANTS
    NoUseAfterDestroy
    SameOrderEverywhere
    Registered
PROPERTIES
    ImplementsBroadcast
CHECK_DEADLOCK FALSE
