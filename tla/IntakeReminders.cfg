SPECIFICATION Spec
CONSTANTS
    Requests <- Incident
    Handlers <- OneHandler
    FaultKinds <- NoFaults
    MaxFaults = 0
    MaxRows = 6
    Period = 3
    MaxTime = 5
INVARIANTS
    TypeOK
    RemindersArePaced
CHECK_DEADLOCK FALSE
