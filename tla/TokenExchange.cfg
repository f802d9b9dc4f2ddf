\* Every outcome of both requests with an interrupt at any point; clocks at rest and near
\* the end of their words; host names of up to five characters.
SPECIFICATION Spec
CONSTANTS
    RequestTimeout = 2
    Skew = 1
    DefaultTtl = 3
    MaxTtl = 5
    Ms = 2
    Us = 3
    Word = 64
    Half = 32
    Pause = 1
    Starts = {0, 51}
    Utcs = {0, 20, 31}
    MaxName = 5
    MaxHost = 4
    MaxLabel = 3
INVARIANTS
    SecretsWiped
    CapabilityLifetime
    TenantTrusted
