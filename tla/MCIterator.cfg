SPECIFICATION IteratorFairSpec
CONSTANTS
    k1 = k1
    k2 = k2
    k3 = k3
    k4 = k4
    v1 = v1
    Keys = {k1, k2, k3, k4}
    Values = {v1}
    RemovedKeys = {k1, k2, k4}
    NoValue = NoValue
    HASH_BITS = 2
    Hash <- MCHash
    KeySize <- MCKeySize
    ValueSize <- MCValueSize
    Offered <- MCOffered
    BUCKET_SIZE = 4072
    MaxBuckets = 6
    MaxHeads = 4
    MaxCalls = 3
    Parsed = {0, 1031, 4072}
INVARIANTS
    IteratorInBounds
    VisitsEachOnce
PROPERTY EndsUnlessAdrift
