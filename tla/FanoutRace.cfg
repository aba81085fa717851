SPECIFICATION Spec
CONSTANTS
    Texts <- OneText
    Unnamed <- Nothing
    Rows <- TwoRows
    Subs <- OneSub
    Poison <- Nothing
    Handlers <- TwoHandlers
    MaxDelivery = 2
    BatchLimit = 2
    FaultKinds <- NoFaults
    MaxFaults = 0
    Cap = 6
INVARIANT StoredOnce
