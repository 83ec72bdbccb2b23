\* unsubscribe() whose drain failed, then disconnect(), while a last attempt fails.
SPECIFICATION Spec
CONSTANTS
    Idle = Idle
    MaxMsg = 1
    MaxDeliveries = 3
    MaxAckPending = 2
    MaxRetries = 2
    DlqEnabled = TRUE
    PromptHandlers = TRUE
    DisconnectsLive = FALSE
    FaultKinds <- DrainFault
    MaxFaults = 1
    MaxStops = 1
INVARIANT NoLoss
\* Once all messages are settled and the process may not stop again nothing is left to do.
CHECK_DEADLOCK FALSE
