SPECIFICATION RelayFairSpec
CONSTANTS
    Msgs <- TwoMsgs
    Channels <- OnlySms
    MaxAttempts = 1
    FaultKinds <- EveryFault
    MaxFaults = 2
INVARIANTS
    RelayTypeOK
    VerdictsAreTrue
PROPERTIES
    VerdictsArrive
    RelayImplementsOutbox
