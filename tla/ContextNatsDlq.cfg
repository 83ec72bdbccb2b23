\* The dead letter queue of adapters/nats.py. TLC shows the first
\* property it finds refuted; comment it out to see the next.
SPECIFICATION Spec
CONSTANTS
    None = None
    orders = orders
    dlq = dlq
    shop = shop
    plain = plain
    coded = coded
    Channels <- TwoChannels
    Services <- OneService
    Errors <- TwoErrors
    Coded <- CodedErrors
    DlqOf <- ToDlq
    Origins <- FullAndBare
    OnRedis = FALSE
    ReusesHeaders = FALSE
    MaxContexts = 2
    MaxMessages = 2
    MaxFailing = 1
INVARIANT ContextPropagated
INVARIANT MetaKept
\* The bounds end every behaviour.
CHECK_DEADLOCK FALSE
