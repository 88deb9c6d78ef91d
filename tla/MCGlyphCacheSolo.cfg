CONSTANTS
    Clients = {c1}
    NoClient = NoClient
    Codepoints = {0, 1, 2}
    BLOCK_SIZE = 2
    WRITE_BATCH_SIZE = 2
    MaxLives = 2
SPECIFICATION Spec
VIEW Matters
CONSTRAINT OneSpoiled
INVARIANTS
    TypeOK
    ManifestBacked
PROPERTY RecordsKept
CHECK_DEADLOCK FALSE
