SPECIFICATION FairSpec
CONSTANTS
    k1 = k1
    k2 = k2
    k3 = k3
    k4 = k4
    k5 = k5
    k6 = k6
    k7 = k7
    v1 = v1
    v2 = v2
    Keys = {k1, k2, k3, k4, k5, k6, k7}
    Values = {v1, v2}
    RemovedKeys = {k3, k6}
    NoValue = NoValue
    HASH_BITS = 3
    Hash <- MCHash
    KeySize <- MCKeySize
    ValueSize <- MCValueSize
    Offered <- MCOffered
    BUCKET_SIZE = 4072
    MaxBuckets = 12
    MaxHeads = 8
INVARIANTS
    TypeOK
    NoLeak
    InMapping
    DirectoryAligned
    RecordsPlaced
    GetAsserts
PROPERTIES
    ImplementsKVMap
    MethodsReturn
