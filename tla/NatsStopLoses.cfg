\* disconnect() without unsubscribe() while a last attempt fails.
SPECIFICATION Spec
CONSTANTS
    Idle = Idle
    MaxMsg = 1
    MaxDeliveries = 3
    MaxAckPending = 2
    MaxRetries = 2
    DlqEnabled = TRUE
    PromptHandlers = TRUE
    DisconnectsLive = TRUE
    FaultKinds <- NoFaults
    MaxFaults = 0
    MaxStops = 1
INVARIANT NoLoss
\* Once all messages are settled and the process may not stop again nothing is left to do.
CHECK_DEADLOCK FALSE
