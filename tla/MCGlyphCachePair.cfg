CONSTANTS
    Clients = {c1, c2}
    NoClient = NoClient
    Codepoints = {0, 1}
    BLOCK_SIZE = 2
    WRITE_BATCH_SIZE = 1
    MaxLives = 2
SPECIFICATION Spec
SYMMETRY Symmetry
VIEW Matters
CONSTRAINT Bounded
INVARIANTS
    FilesComplete
    LockedMergeIsCurrent
CHECK_DEADLOCK FALSE
