SPECIFICATION FairSpec
CONSTANTS
    a = a
    b = b
    f1 = f1
    f2 = f2
    Clients = {a, b}
    Idents = {a, b}
    Null = Null
    Shutdown = Shutdown
    MaxRequestLen = 2
    DivertLen = 1
    Fds = {f1, f2}
    Listener = Listener
    IdentOf <- OwnIdent
    Stream <- TwoAndOne
    Mode = "async"
    Outcomes = {"ok"}
    Env = {"shutdown"}
    SndBuf = 1
    MaxPending = 2
PROPERTIES EveryRequestAnswered ShutdownExits
CHECK_DEADLOCK FALSE
