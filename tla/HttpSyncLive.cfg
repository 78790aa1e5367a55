SPECIFICATION FairSpec
CONSTANTS
    a = a
    b = b
    f1 = f1
    f2 = f2
    Clients = {a, b}
    Idents = {a, b}
    Null = Null
    Shutdown = Shutdown
    MaxRequestLen = 2
    DivertLen = 1
    Fds = {f1, f2}
    Listener = Listener
    IdentOf <- OwnIdent
    Stream <- OneEach
    Mode = "sync"
    Outcomes = {"ok"}
    Env = {"fin"}
    SndBuf = 1
    MaxPending = 2
PROPERTIES EveryRequestAnswered HungUpReaped QueuedAccepted
