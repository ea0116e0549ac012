SPECIFICATION Spec
CONSTANTS
    s1 = s1
    s2 = s2
    NaN = NaN
    Junk = Junk
    Sessions = {s1, s2}
    Commands <- ManyCommands
    MaxCommands = 3
    MaxBlocks = 1
SYMMETRY Symmetry
INVARIANTS
    TypeOK
    FramesFit
    OneHeaderPerBlock
    AgreeAfterCommand
CHECK_DEADLOCK FALSE
