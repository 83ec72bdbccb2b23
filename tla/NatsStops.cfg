\* The process unsubscribes or crashes twice, anywhere; one delivery or answer is
\* lost or fails; handlers may outlive ack_wait.
SPECIFICATION Spec
CONSTANTS
    Idle = Idle
    MaxMsg = 2
    MaxDeliveries = 3
    MaxAckPending = 2
    MaxRetries = 2
    DlqEnabled = TRUE
    PromptHandlers = FALSE
    DisconnectsLive = FALSE
    FaultKinds <- QuietFaults
    MaxFaults = 1
    MaxStops = 2
INVARIANT IInv
INVARIANT NoLoss
INVARIANT ActiveTracksTask
PROPERTY KeepsPromise
\* Once all messages are settled and the process may not stop again nothing is left to do.
CHECK_DEADLOCK FALSE
