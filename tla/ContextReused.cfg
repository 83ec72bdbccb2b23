\* A caller reuses its headers.
SPECIFICATION Spec
CONSTANTS
    None = None
    orders = orders
    dlq = dlq
    shop = shop
    plain = plain
    coded = coded
    Channels <- TwoChannels
    Services <- OneService
    Errors <- TwoErrors
    Coded <- CodedErrors
    DlqOf <- ToDlq
    Origins <- FullAndBare
    OnRedis = TRUE
    ReusesHeaders = TRUE
    MaxContexts = 3
    MaxMessages = 2
    MaxFailing = 1
INVARIANT NothingStale
\* The bounds end every behaviour.
CHECK_DEADLOCK FALSE
