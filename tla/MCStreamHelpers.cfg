SPECIFICATION Spec
CONSTANTS
    g1 = g1
    g2 = g2
    Groups <- MCGroups
    MaxCount = 2
    MaxUpsets = 2
    StaleAfter = 2
SYMMETRY MCSymmetry
INVARIANTS
    TypeOK
    NeverUndercounts
    ExactUnlessUpset
    OvercountIsBounded
    BackwardsIsReal
