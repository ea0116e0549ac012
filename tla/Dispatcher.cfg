SPECIFICATION Spec
CONSTANTS
    s1 = s1
    s2 = s2
    Nobody = nobody
    Junk = junk
    Leftovers <- FewLeftovers
    Sessions = {s1, s2}
    Commands <- FewCommands
    Fields <- TwoFields
    WriteOf <- TheirWrites
    Values = {1, 2}
    BUFFER = 3
    CMD = 2
    WBWrites = 2
    NBWrites = 1
    MaxSent = 2
SYMMETRY Symmetry
INVARIANTS
    TypeOK
    OneByOneIsSafe
    AnswersInOrder
    AcceptedIsWritten
    InquiryReportsDevice
PROPERTIES
    InOrderOnce
CHECK_DEADLOCK FALSE
