\* What handlers meet in one adapter that stops, though no command fails. TLC shows the
\* first property it finds refuted; comment it out to see the next.
SPECIFICATION Spec
CONSTANTS
    a1 = a1
    a2 = a2
    Nobody = Nobody
    Adapters <- OneAdapter
    Mortal <- OneAdapter
    MaxMsg = 2
    MaxDeliveries = 2
    MaxRetries = 2
    ReadCount = 2
    ClaimCount = 1
    PendingCount = 2
    ClaimEnabled = TRUE
    DlqEnabled = TRUE
    PromptHandlers = TRUE
    Malformed <- None
    TrimLens <- NoCap
    MaxFaults = 0
    MaxInFlight = 1
INVARIANT HandlersDoneAtUnsubscribe
INVARIANT HandlersDoneAtDisconnect
INVARIANT InFlightBounded
PROPERTY OnlyFailedDeadLettered
\* Once all messages are settled and the adapters gone nothing is left to do.
CHECK_DEADLOCK FALSE
