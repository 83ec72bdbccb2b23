\* One adapter may stop anywhere, the other keeps running; one command fails; handlers
\* end within min_idle_time.
SPECIFICATION FairSpec
CONSTANTS
    a1 = a1
    a2 = a2
    Nobody = Nobody
    Adapters <- TwoAdapters
    Mortal <- OneOfTwo
    MaxMsg = 1
    MaxDeliveries = 2
    MaxRetries = 2
    ReadCount = 2
    ClaimCount = 1
    PendingCount = 2
    ClaimEnabled = TRUE
    DlqEnabled = TRUE
    PromptHandlers = TRUE
    Malformed <- None
    TrimLens <- NoCap
    MaxFaults = 1
    MaxInFlight = 1
INVARIANT ActiveTracksTasks
PROPERTY EventuallySettled
\* Once all messages are settled and the adapters gone nothing is left to do.
CHECK_DEADLOCK FALSE
