\* Two connections and two logins at once, interrupts included.
SPECIFICATION Spec
CONSTANTS
    Ids = {i1, i2}
    Conns = {c1, c2}
    Interruptible = {c1, c2}
    MaxActive = 2
    MaxSessions = 3
    IdCollisions = TRUE
    PromptStart = FALSE
    None = None
SYMMETRY Symmetric
INVARIANTS
    PendingCanBeAnswered
    CompletionExclusive
    MaterialByStatus
    PortForLiveLogin
    SingleReaper
PROPERTIES
    OutcomeStands
    LifecycleSpec
