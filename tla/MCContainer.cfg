SPECIFICATION ContainerFairSpec
CONSTANTS
    k1 = k1
    k2 = k2
    k3 = k3
    v1 = v1
    Keys = {k1, k2, k3}
    Values = {v1}
    NoValue = NoValue
    HASH_BITS = 3
    Hash <- MCHash
    KeySize <- MCKeySize
    ValueSize <- MCValueSize
    BUCKET_SIZE = 4072
    MaxBuckets = 8
    MaxHeads = 3
    RemovedKeys = {k2, k3}
INVARIANTS
    ContainerTypeOK
    NoSharing
    Packed
    SplitAsserts
    Bit0HasRoom
PROPERTIES
    ImplementsBucketStore
    CallsReturn
