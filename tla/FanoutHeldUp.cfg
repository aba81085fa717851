SPECIFICATION FairSpec
CONSTANTS
    Texts <- OneText
    Unnamed <- Nothing
    Rows <- OneRow
    Subs <- TwoSubs
    Poison <- Dead
    Handlers <- OneHandler
    MaxDelivery = 2
    BatchLimit = 2
    FaultKinds <- NoFaults
    MaxFaults = 0
    Cap = 2
PROPERTY OthersAreNotHeldUp
