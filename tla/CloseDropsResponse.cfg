SPECIFICATION Spec
CONSTANTS
    a = a
    b = b
    f1 = f1
    f2 = f2
    Clients = {a, b}
    Idents = {a, b}
    Null = Null
    Shutdown = Shutdown
    MaxRequestLen = 2
    DivertLen = 1
    Fds = {f1, f2}
    Listener = Listener
    IdentOf <- OwnIdent
    Stream <- OneClose
    Mode = "sync"
    Outcomes = {"ok"}
    Env = {}
    SndBuf = 2
    MaxPending = 2
PROPERTY CloseAfterTransmitting
