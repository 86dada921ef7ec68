SPECIFICATION ServingSpec
CONSTANTS
    w1 = w1
    w2 = w2
    c1 = c1
    c2 = c2
    Workers = {w1, w2}
    Clients = {c1, c2}
    NoClient = NoClient
INVARIANTS
    TypeOK
    StoreOpenInSessions
    OneWorkerPerSession
    StopDrains
PROPERTIES
    SignalEndsServer
    SessionsStart
CHECK_DEADLOCK FALSE
