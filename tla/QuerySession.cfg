\* Any service: two query ids and three pages, so that a chain of pages can close, and can
\* go beyond the three chunks allowed.  Two rows of one column reach the limit on rows
\* and one row of three columns that on cells; a third row or a second one exceeds it, and
\* not the other.  Empty replies let polling go on, and one of two bytes uses up the budget.
SPECIFICATION FairSpec
CONSTANTS
    QueryIds = {q1, q2}
    Pages = {1, 2, 3}
    Overall = 2
    RequestTimeout = 1
    PollInterval = 1
    MaxTime = 3
    Word = 8
    MaxChunks = 3
    MaxRows = 2
    MaxCells = 3
    MaxColumns = 3
    MaxBytes = 2
    Sizes = {0, 2, 3}
INVARIANTS
    TypeOK
    DeleteIsLast
    RemoteReleased
    ChunksInOrder
    EndIsComplete
    WithinLimits
PROPERTIES
    CallsEnd
