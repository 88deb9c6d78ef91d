CONSTANTS
    Keys = {k1, k2, k3}
    NoKey = NoKey
    MAX_ARENA_SLOTS = 2
    MaxVersion = 3
SPECIFICATION Spec
INVARIANTS
    TypeOK
    ServesCurrentBlock
    SlotsAccounted
PROPERTY ImplementsStore
