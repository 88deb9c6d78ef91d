CONSTANTS
    Codepoints = {0, 1, 3, 6}
    DataSize <- MCDataSize
    BLOCK_SIZE = 4
    WRITE_BATCH_SIZE = 3
SPECIFICATION Spec
INVARIANTS
    TypeOK
    ManifestReadable
    SortedAndIndexed
PROPERTIES
    MergeIsUnion
    DuplicatesOnlyFromPending
