SPECIFICATION Spec
CONSTANTS
    Requests <- Mixed
    Handlers <- TwoHandlers
    FaultKinds <- AllFaults
    MaxFaults = 1
    MaxRows = 4
    Period = 1
    MaxTime = 0
INVARIANTS
    ReplaysNameTheOriginal
    AnswersAreDurable
    ServerErrorsAreExcused
CHECK_DEADLOCK FALSE
