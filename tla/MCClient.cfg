SPECIFICATION Spec
CONSTANTS
    Clients = {c1, c2}
    Others = {c2}
    Values = {v1, v2}
    NoValue = NoValue
    Bytes = {0, 251}
    MaxKey = 5
    BusyKey <- MCBusyKey
    Threads = 1
    MaxCalls = 3
SYMMETRY Symmetry
INVARIANTS
    ReturnsItsAnswer
    ServedOnce
    KeyArrives
CHECK_DEADLOCK FALSE
