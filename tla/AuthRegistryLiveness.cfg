\* Two connections, two logins, no interrupt and no eviction, under fairness.
SPECIFICATION FairSpec
CONSTANTS
    Ids = {i1, i2}
    Conns = {c1, c2}
    Interruptible = {}
    MaxActive = 1
    MaxSessions = 2
    IdCollisions = FALSE
    PromptStart = TRUE
    None = None
INVARIANTS
    TeardownReaps
PROPERTIES
    CallsReturn
    WorkersEnd
    LoginsEnd
