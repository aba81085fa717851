SPECIFICATION Spec
CONSTANTS
    Names <- TwoNames
    Lengths <- Boundary
    MaxAlerts = 3
    MaxPosts = 2
INVARIANTS
    WellFormedIsQueued
    MostUrgentIsNamed
    NothingUrgentIsHidden
    RetriesAreTheSame
CHECK_DEADLOCK FALSE
