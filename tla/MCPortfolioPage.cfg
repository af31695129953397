SPECIFICATION Spec
CONSTANTS
    Txn = {t1}
    Content = {c1, c2}
    Date = {d1, d2}
    Task = {k1, k2, k3}
    Profiles <- SomeProfiles
    None = None
INVARIANTS
    RestShowsChosenDate
    ListFollowsLedger
    RestShowsPositions
SYMMETRY Sym
