SPECIFICATION Spec
CONSTANTS
    t1 = t1
    t2 = t2
    k1 = k1
    k2 = k2
    k3 = k3
    v1 = v1
    v2 = v2
    Threads = {t1, t2}
    Keys = {k1, k2, k3}
    Values = {v1, v2}
    NoValue = NoValue
    NoThread = NoThread
    NumShards = 2
    ShardOf <- MCShardOf
SYMMETRY Symmetry
INVARIANTS
    TypeOK
    NoRace
    KeysCoherent
PROPERTY Linearizable
