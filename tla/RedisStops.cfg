\* Two adapters, one of which unsubscribes, disconnects or crashes anywhere; one
\* command fails or loses its reply; handlers may outlive min_idle_time.
SPECIFICATION Spec
CONSTANTS
    a1 = a1
    a2 = a2
    Nobody = Nobody
    Adapters <- TwoAdapters
    Mortal <- OneOfTwo
    MaxMsg = 1
    MaxDeliveries = 2
    MaxRetries = 2
    ReadCount = 2
    ClaimCount = 1
    PendingCount = 2
    ClaimEnabled = TRUE
    DlqEnabled = TRUE
    PromptHandlers = FALSE
    Malformed <- None
    TrimLens <- NoCap
    MaxFaults = 1
    MaxInFlight = 1
VIEW ButErrors
INVARIANT IInv
INVARIANT NoLoss
PROPERTY KeepsPromise
PROPERTY QuietAfterStop
\* Once all messages are settled and the adapters gone nothing is left to do.
CHECK_DEADLOCK FALSE
