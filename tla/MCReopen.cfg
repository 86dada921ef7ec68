SPECIFICATION ReopenSpec
CONSTANTS
    k1 = k1
    k2 = k2
    v1 = v1
    Keys = {k1, k2}
    Values = {v1}
    RemovedKeys = {}
    NoValue = NoValue
    HASH_BITS = 2
    Hash <- MCHash
    KeySize <- MCKeySize
    ValueSize <- MCValueSize
    Offered <- MCOffered
    BUCKET_SIZE = 4072
    MaxBuckets = 4
    MaxHeads = 4
INVARIANT PersistedDataReadable
