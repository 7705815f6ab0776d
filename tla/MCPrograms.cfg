CONSTANTS
    LogServers = {s1, s2}
    LogClients = {c1}
    Lines = {a, b, c}
    ExitLine = exit
    QueueMax = 2
    MaxLine = 1
    MaxIds = 2
    MaxTime = 1
    Nothing = Nothing
    Rounds = 2
    ShmServers = {s1, s2}
    ShmClients = {c1, c2}
    Alphabet = 3
    Memory = 4
    PipeKinds = {"fifo", "fifo_OOP"}
    PipeWriters = {c1, c2}
    Texts = 2
    PipeSize = 2
    ReadSize = 2
    Pages = {"picture"}
    Home = "index"
    Page404 = "404"
    Routes = {"login"}
    Largest = 2
    MaxChanges = 1
    Browsers = {b1, b2}
    Ids = {"i1", "i2"}
    MaxRequests = 2
    MaxRestarts = 1
    Width = 3
    Base = 2
    RecvSize = 10
    UdpClients = {"c1", "c2"}
    Words = {"w1", "w2"}
    MaxAsks = 2
    MaxDups = 1
    ChatPeers = {p1, p2}
    ChatWorkers = {w1, w2}
    MaxArgv = 3
    MaxOrders = 2
    BufferSize = 3
    MaxWrites = 2
    Loggers = {t1, t2}
    FirstOne = t1
    Levels = {"Info"}
    MaxLines = 2
    MaxCalls = 5
    MaxInputs = 2
    MaxDatagrams = 2
    Tickets = 3
    MaxSignals = 3
    MaxSent = 2
    UnblockRound = 2
    MaxRings = 2
    NUM = 5
    Registered = 3
    MaxChars = 4
SPECIFICATION Spec
CHECK_DEADLOCK FALSE
INVARIANTS SharedDataWhole LinesKept AnswersWhole OutputKept ThreadsOrdered
PROPERTY Ends
