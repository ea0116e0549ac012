SPECIFICATION Spec
CONSTANTS
    s1 = s1
    s2 = s2
    wb = wb
    nb = nb
    nosession = nosession
    free = free
    Sessions = {s1}
    DataThreads = {wb}
    SlowPeers = {}
    NoSession = nosession
    Free = free
    PacketLen = 1
    MaxBroadcasts = 1
    MaxCommands = 1
PROPERTIES
    StopIsObeyed
CHECK_DEADLOCK FALSE
