SPECIFICATION Spec
CONSTANTS
    Keys = {k1, k2}
    Values = {v1, v2}
    NoValue = NoValue
    Objects = {o1, o2}
    Iterators = {i1}
    MaxMaps = 3
INVARIANT UsesOpenMaps
