\* Results of up to two chunks of two batches; vectors of two rows.
SPECIFICATION FairSpec
CONSTANTS
    VectorSize = 2
    MaxChunks = 2
    MaxBatches = 2
    MaxLength = 3
INVARIANTS
    TypeOK
    RowsInOrder
    EndIsReal
    ValidatedFirst
PROPERTIES
    ScanReturns
