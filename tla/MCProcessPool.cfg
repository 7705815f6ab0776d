SPECIFICATION FairSpec
CONSTANTS
    Num = 3
    Codes = {a, b}
    Cnt = 5
    PipeCap = 1
    MayFail = TRUE
    Parent = Parent
    None = None
INVARIANTS
    TypeOK
    RunsWhatWasSent
    Balanced
PROPERTIES
    StopReaps
CHECK_DEADLOCK FALSE
