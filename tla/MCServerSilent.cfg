SPECIFICATION FairSpec
CONSTANTS
    w1 = w1
    w2 = w2
    c1 = c1
    c2 = c2
    Workers = {w1, w2}
    Clients = {c1, c2}
    NoClient = NoClient
PROPERTY SignalEndsServer
CHECK_DEADLOCK FALSE
