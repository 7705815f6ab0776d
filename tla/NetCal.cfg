SPECIFICATION FairSpec
CONSTANTS
    Calls = 2
    PackageLen = 2
    RecvSize = 3
    MayQuit = FALSE
PROPERTIES
    IncompleteReadsOn
CHECK_DEADLOCK FALSE
