SPECIFICATION Spec
CONSTANTS
    Kinds = {"select", "poll", "epoll"}
    c1 = c1
    c2 = c2
    c3 = c3
    Clients = {c1, c2, c3}
    Sends <- MCSends
    RecvSize = 1
    Size = 3
    SetSize = 3
    MaxEvents = 2
    Limits = {2, 3, 5}
    StdFds = 1
    None = none
CHECK_DEADLOCK FALSE
INVARIANTS
    TypeOK
    WatchesTheOpen
    NeverBlocks
PROPERTIES
    EveryoneHeard
