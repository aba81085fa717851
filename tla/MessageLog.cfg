SPECIFICATION Spec
CONSTANTS
    Rows = {m1, m2, m3}
    Services <- TwoServices
    Reader = "alerts"
    Times <- ThreeTimes
    Limit = 1
SYMMETRY SameRows
INVARIANTS
    TypeOK
    WalksAreExplained
    QuietWalksAreExact
    GoneMeansPruned
CHECK_DEADLOCK FALSE
