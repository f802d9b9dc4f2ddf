\* Eviction drops the owner of a worker that is still running.
SPECIFICATION Spec
CONSTANTS
    Ids = {i1, i2, i3}
    Conns = {c1, c2}
    Interruptible = {}
    MaxActive = 1
    MaxSessions = 2
    IdCollisions = FALSE
    PromptStart = TRUE
    None = None
SYMMETRY Symmetric
INVARIANTS
    TeardownReaps
