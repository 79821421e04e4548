SPECIFICATION Spec
CONSTANTS
    c1 = c1
    c2 = c2
    n1 = n1
    n2 = n2
    Callers <- MCCallers
    Names <- MCNames
    TTL = 2
    ScrapeTimeout = 1
    MaxVersion = 1
SYMMETRY MCSymmetry
INVARIANTS
    TypeOK
    FreshEnough
    NeverGoesBack
PROPERTY ErrorsKeepTheCache
