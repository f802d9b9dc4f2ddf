\* Two completions race for names while a query runs; others change secrets too.
SPECIFICATION Spec
CONSTANTS
    Creds = {k1, k2, k3}
    Names = {n1, n2}
    n1 = n1
    Conns = {c1, c2}
    Queries = {r1}
    MaxCreds = 2
    Stripe <- OwnStripe
    None = None
    Other = Other
SYMMETRY Symmetric
INVARIANTS
    CatalogNamesLive
    CompletedSecretStands
    NoLeftover
    MutexHeldByInstall
    ReauthExplained
