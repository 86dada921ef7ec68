SPECIFICATION Spec
CONSTANTS
    HASH_BITS = 3
    BlockIds = {1}
INVARIANTS
    TypeOK
    LoopsInBounds
    FindsItsPrefix
PROPERTY ImplementsDirectory
