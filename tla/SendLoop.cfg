SPECIFICATION FairSpec
CONSTANTS
    Msgs <- TwoMsgs
    Channels <- BothChannels
    MaxAttempts = 2
    FaultKinds <- AllFaults
    MaxFaults = 1
INVARIANTS
    DuplicatesNeedLostAnswers
    RetryBudget
    WrittenAhead
    OrphansNeedFaults
    FailedIsExplained
PROPERTIES
    NoNtfyAfterSms
    SettledIsFinal
    EventuallySettled
    ImplementsOutbox
