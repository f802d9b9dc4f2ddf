\* An interrupt between the two looks at the interrupt flag.
SPECIFICATION Spec
CONSTANTS
    Ids = {i1}
    Conns = {c1}
    Interruptible = {c1}
    MaxActive = 1
    MaxSessions = 2
    IdCollisions = FALSE
    PromptStart = TRUE
    None = None
INVARIANTS
    CompletionHasOwner
