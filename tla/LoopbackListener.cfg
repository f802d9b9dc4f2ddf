\* Every order of the worker, its canceller and the destructors.
SPECIFICATION FairSpec
CONSTANTS
    Judgements = {"code", "denied", "malformed"}
    Nobody = Nobody
INVARIANTS
    TypeOK
    SyscallsOnOpenSockets
    CallbackReturned
    PortFreed
    DestroyedUnused
PROPERTIES
    WaitEnds
    StopsEnd
