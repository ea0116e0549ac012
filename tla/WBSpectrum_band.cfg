SPECIFICATION Spec
CONSTANTS
    s1 = s1
    s2 = s2
    NaN = NaN
    Junk = Junk
    Sessions = {s1}
    Commands <- TwoOrders
    MaxCommands = 1
    MaxBlocks = 1
INVARIANTS
    BandAsDocumented
CHECK_DEADLOCK FALSE
