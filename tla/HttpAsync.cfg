SPECIFICATION Spec
CONSTANTS
    a = a
    b = b
    f1 = f1
    f2 = f2
    Clients = {a, b}
    Idents = {a, b}
    Null = Null
    Shutdown = Shutdown
    MaxRequestLen = 2
    DivertLen = 1
    Fds = {f1}
    Listener = Listener
    IdentOf <- OwnIdent
    Stream <- Stray
    Mode = "async"
    Outcomes = {"ok", "close", "null", "exc"}
    Env = {"pipeline", "splitBody", "reset", "listenErr", "shutdown"}
    SndBuf = 1
    MaxPending = 2
INVARIANTS ResponsesFramed AnsweredOnce
PROPERTY ClosingIsFinal
CHECK_DEADLOCK FALSE
