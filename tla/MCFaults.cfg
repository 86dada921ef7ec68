SPECIFICATION FaultsSpec
CONSTANTS
    k1 = k1
    k2 = k2
    k3 = k3
    k4 = k4
    k5 = k5
    k6 = k6
    k7 = k7
    v1 = v1
    Keys = {k1, k2, k3, k4, k5, k6, k7}
    Values = {v1}
    RemovedKeys = {k7}
    NoValue = NoValue
    HASH_BITS = 5
    Hash <- MCHash
    KeySize <- MCKeySize
    ValueSize <- MCValueSize
    Offered <- MCOffered
    BUCKET_SIZE = 4072
    MaxBuckets = 10
    MaxHeads = 4
    MaxFaults = 1
    MaxCalls = 3
SYMMETRY MCSymmetry
INVARIANTS
    FaultsConfined
    ChainsDisjoint
