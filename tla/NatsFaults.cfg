\* A publish or in_progress raises once, or a handler is slow. TLC shows the first property
\* it finds refuted; comment it out to see the next.
SPECIFICATION Spec
CONSTANTS
    Idle = Idle
    MaxMsg = 1
    MaxDeliveries = 3
    MaxAckPending = 2
    MaxRetries = 2
    DlqEnabled = TRUE
    PromptHandlers = FALSE
    DisconnectsLive = FALSE
    FaultKinds <- AllFaults
    MaxFaults = 1
    MaxStops = 0
INVARIANT NoLoss
INVARIANT ActiveTracksTask
INVARIANT DeadLettered
\* Once all messages are settled and the process may not stop again nothing is left to do.
CHECK_DEADLOCK FALSE
