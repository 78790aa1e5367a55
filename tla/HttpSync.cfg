SPECIFICATION Spec
CONSTANTS
    a = a
    b = b
    f1 = f1
    f2 = f2
    Clients = {a, b}
    Idents = {a, b}
    Null = Null
    Shutdown = Shutdown
    MaxRequestLen = 2
    DivertLen = 1
    Fds = {f1, f2}
    Listener = Listener
    IdentOf <- OwnIdent
    Stream <- Bodies
    Mode = "sync"
    Outcomes = {"ok", "close", "chunked", "null", "http", "exc"}
    Env = {"pipeline", "fin"}
    SndBuf = 1
    MaxPending = 2
SYMMETRY FdSymmetry
INVARIANTS TypeOK PollListInSync AnsweredInOrder HandledAsSent
PROPERTY ImplementsService
