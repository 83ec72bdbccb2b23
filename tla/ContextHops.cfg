\* Three contexts, one after another or two requests side by side, three messages, one
\* of them perhaps moved twice; a caller that reuses its headers; the dead letter queue of
\* adapters/redis.py.
SPECIFICATION Spec
CONSTANTS
    None = None
    orders = orders
    dlq = dlq
    shop = shop
    plain = plain
    coded = coded
    Channels <- TwoChannels
    Services <- OneService
    Errors <- TwoErrors
    Coded <- CodedErrors
    DlqOf <- ToDlq
    Origins <- FullOnly
    OnRedis = TRUE
    ReusesHeaders = TRUE
    MaxContexts = 3
    MaxMessages = 3
    MaxFailing = 1
INVARIANT TypeOK
INVARIANT ContextPropagated
INVARIANT MetaKept
INVARIANT ErrorVisible
\* The bounds end every behaviour.
CHECK_DEADLOCK FALSE
