SPECIFICATION Spec
CONSTANTS
    Texts <- TwoTexts
    Unnamed <- SecondText
    Rows <- TwoRows
    Subs <- TwoSubs
    Poison <- Dead
    Handlers <- OneHandler
    MaxDelivery = 1
    BatchLimit = 2
    FaultKinds <- AllFaults
    MaxFaults = 1
    Cap = 2
INVARIANTS
    TypeOK
    AckedIsStored
    CopiesNeedOverlap
    NoDeliveryForgotten
    DuplicatesNeedLostAcks
PROPERTIES
    ImplementsInbox
    CancelledIsUnconfigured
