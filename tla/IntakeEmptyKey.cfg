SPECIFICATION Spec
CONSTANTS
    Requests <- EmptyKey
    Handlers <- OneHandler
    FaultKinds <- NoFaults
    MaxFaults = 0
    MaxRows = 3
    Period = 1
    MaxTime = 0
INVARIANTS
    RepeatsAreAnswered
CHECK_DEADLOCK FALSE
