\* Three logins through a registry that keeps two sessions and admits one at a time.
SPECIFICATION Spec
CONSTANTS
    Ids = {i1, i2, i3}
    Conns = {c1, c2}
    Interruptible = {}
    MaxActive = 1
    MaxSessions = 2
    IdCollisions = FALSE
    PromptStart = TRUE
    None = None
SYMMETRY Symmetric
INVARIANTS
    SessionBounds
    CompletionHasOwner
