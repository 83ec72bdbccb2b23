\* max_retries = 1, and _dlq_loop is slower than _xclaim_loop.
SPECIFICATION Spec
CONSTANTS
    a1 = a1
    a2 = a2
    Nobody = Nobody
    Adapters <- OneAdapter
    Mortal <- None
    MaxMsg = 1
    MaxDeliveries = 3
    MaxRetries = 1
    ReadCount = 2
    ClaimCount = 1
    PendingCount = 2
    ClaimEnabled = TRUE
    DlqEnabled = TRUE
    PromptHandlers = TRUE
    Malformed <- None
    TrimLens <- NoCap
    MaxFaults = 0
    MaxInFlight = 1
INVARIANT AttemptsBounded
\* Once all messages are settled and the adapters gone nothing is left to do.
CHECK_DEADLOCK FALSE
