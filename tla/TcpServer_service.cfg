SPECIFICATION FairSpec
CONSTANTS
    s1 = s1
    s2 = s2
    wb = wb
    nb = nb
    nosession = nosession
    free = free
    Sessions = {s1}
    DataThreads = {wb}
    SlowPeers = {s1}
    NoSession = nosession
    Free = free
    PacketLen = 3
    MaxBroadcasts = 2
    MaxCommands = 1
INVARIANTS
    WholePackets
PROPERTIES
    StoppedIsReaped
    BroadcastEnds
CHECK_DEADLOCK FALSE
