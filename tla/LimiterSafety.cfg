SPECIFICATION Spec
CONSTANTS
    PerMinute = 2
    Window = 3
    MinNap = 1
    Early = 1
    Late = 1
    MaxTime = 9
    MaxSends = 7
    MaxLives = 3
INVARIANTS
    TypeOK
    BurstBound
    BoundedWait
PROPERTY NoNeedlessNap
