SPECIFICATION Spec
CONSTANTS
    s1 = s1
    s2 = s2
    NaN = NaN
    Junk = Junk
    None = None
    Pulse = Pulse
    Sessions = {s1, s2}
    Commands <- FewCommands
    ULL = 16384
    UINT = 32768
    ZC_CH_NUM = 2
    PACKS = 2
    MaxEvents = 6
SYMMETRY Symmetry
INVARIANTS
    TypeOK
    AgreeAfterCommand
    TunedAfterCommand
    FrameIsRun
    UniformFrame
    HeaderFitsSamples
CHECK_DEADLOCK FALSE
