\* Three messages in one adapter: batches, pages, cursor, trimming, a message without
\* payload; handlers end within min_idle_time.
SPECIFICATION FairSpec
CONSTANTS
    a1 = a1
    a2 = a2
    Nobody = Nobody
    Adapters <- OneAdapter
    Mortal <- None
    MaxMsg = 3
    MaxDeliveries = 3
    MaxRetries = 3
    ReadCount = 2
    ClaimCount = 1
    PendingCount = 2
    ClaimEnabled = TRUE
    DlqEnabled = TRUE
    PromptHandlers = TRUE
    Malformed <- SecondMalformed
    TrimLens <- CapOne
    MaxFaults = 0
    MaxInFlight = 1
INVARIANT IInv
INVARIANT RetriesBeforeDlq
INVARIANT DeadLetteredOnce
PROPERTY EventuallySettled
\* Once all messages are settled and the adapters gone nothing is left to do.
CHECK_DEADLOCK FALSE
