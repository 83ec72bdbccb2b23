\* A handler that runs longer than min_idle_time.
SPECIFICATION Spec
CONSTANTS
    a1 = a1
    a2 = a2
    Nobody = Nobody
    Adapters <- OneAdapter
    Mortal <- None
    MaxMsg = 1
    MaxDeliveries = 2
    MaxRetries = 2
    ReadCount = 2
    ClaimCount = 1
    PendingCount = 2
    ClaimEnabled = TRUE
    DlqEnabled = TRUE
    PromptHandlers = FALSE
    Malformed <- None
    TrimLens <- NoCap
    MaxFaults = 0
    MaxInFlight = 1
INVARIANT ActiveTracksTasks
\* Once all messages are settled and the adapters gone nothing is left to do.
CHECK_DEADLOCK FALSE
