\* One channel is subscribed twice: its two deliveries share one active message.
SPECIFICATION Spec
CONSTANTS
    audit = audit
    billing = billing
    Consumers <- TwoConsumers
    Outside = Outside
    Nothing = Nothing
    MaxSubscriptions = 2
    MaxMessages = 1
    MaxUnsubscribes = 1
    MaxConnects = 1
SYMMETRY Symmetric
INVARIANT ActiveTracksHandlers
\* The bounds end every behaviour.
CHECK_DEADLOCK FALSE
