\* XADD to the dead letter stream fails once.
SPECIFICATION Spec
CONSTANTS
    a1 = a1
    a2 = a2
    Nobody = Nobody
    Adapters <- OneAdapter
    Mortal <- None
    MaxMsg = 1
    MaxDeliveries = 2
    MaxRetries = 2
    ReadCount = 2
    ClaimCount = 1
    PendingCount = 2
    ClaimEnabled = TRUE
    DlqEnabled = TRUE
    PromptHandlers = TRUE
    Malformed <- None
    TrimLens <- NoCap
    MaxFaults = 1
    MaxInFlight = 1
PROPERTY ErrorReachesDlq
INVARIANT DeadLetteredOnce
\* Once all messages are settled and the adapters gone nothing is left to do.
CHECK_DEADLOCK FALSE
