\* Everything that may fail fails, twice; the process stops once in any way; prompt
\* handlers; max_ack_pending holds back the second message.
SPECIFICATION FairSpec
CONSTANTS
    Idle = Idle
    MaxMsg = 2
    MaxDeliveries = 5
    MaxAckPending = 1
    MaxRetries = 2
    DlqEnabled = TRUE
    PromptHandlers = TRUE
    DisconnectsLive = TRUE
    FaultKinds <- AllFaults
    MaxFaults = 2
    MaxStops = 1
INVARIANT DeadLettered
INVARIANT NotGivenUpEarly
PROPERTY EventuallySettled
\* Once all messages are settled and the process may not stop again nothing is left to do.
CHECK_DEADLOCK FALSE
