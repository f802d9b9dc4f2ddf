\* The clock passes the deadline between its two readings.
SPECIFICATION Spec
CONSTANTS
    QueryIds = {q1}
    Pages = {1}
    Overall = 2
    RequestTimeout = 1
    PollInterval = 1
    MaxTime = 3
    Word = 8
    MaxChunks = 1
    MaxRows = 1
    MaxCells = 4
    MaxColumns = 2
    MaxBytes = 6
    Sizes = {1, 2}
SYMMETRY Symmetric
INVARIANTS
    DeadlineBoundsRequests
