SPECIFICATION FairSpec
CONSTANTS
    Texts <- OneText
    Unnamed <- Nothing
    Rows <- TwoRows
    Subs <- OneSub
    Poison <- Nothing
    Handlers <- TwoHandlers
    MaxDelivery = 2
    BatchLimit = 2
    FaultKinds <- AllFaults
    MaxFaults = 1
    Cap = 3
INVARIANTS
    PostBudget
PROPERTIES
    EveryDeliverySettles
    EveryTextIsStored
