SPECIFICATION FairSpec
CONSTANTS
    Workers = {w1, w2}
    Clients = {c1, c2}
    Tasks = {t1, t2}
    MayFail = TRUE
    None = None
INVARIANTS
    TypeOK
    NoLostWakeup
    FrontExists
    DrainedOnExit
PROPERTIES
    RefusalWindow
    EarlyTasksRun
    StopDrains
