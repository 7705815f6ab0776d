SPECIFICATION FairSpec
CONSTANTS
    c1 = c1
    c2 = c2
    Clients = {c1, c2}
    Readers = {c1}
    Stream <- MCStream
    Listen = 3
    Fds = {5, 6}
    RecvSize = 1
    SndCap = 1
    RecvsSize = 2
    None = None
    Inherited = Inherited
INVARIANTS
    TypeOK
    NoInputForgotten
    NoOutputForgotten
    RepliesMatchRequests
    BatchCurrent
PROPERTIES
    RequestsAnswered
    GoneForgotten
CHECK_DEADLOCK FALSE
