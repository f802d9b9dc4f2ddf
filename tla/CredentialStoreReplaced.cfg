\* A secret is replaced by one of another type.
SPECIFICATION Spec
CONSTANTS
    Creds = {k1, k2}
    Names = {n1}
    n1 = n1
    Conns = {c1}
    Queries = {r1}
    MaxCreds = 2
    Stripe <- OwnStripe
    None = None
    Other = Other
SYMMETRY Symmetric
INVARIANTS
    ReplacedIsDestroyed
