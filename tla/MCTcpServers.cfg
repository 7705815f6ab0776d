CONSTANTS
    Kinds = {"netcal", "http", "echo", "rewrite", "stub", "session", "hello"}
    Peers = {c1, c2}
    MaxAsks = 2
    FdLimits = {2, 3}
    PoolThreads = 1
SPECIFICATION Spec
CHECK_DEADLOCK FALSE
INVARIANT SocketsOwned
PROPERTIES AcceptsAgain WaitingEnds
