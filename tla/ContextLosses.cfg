\* What does not arrive over one hop and two moves. TLC
\* shows the first property it finds refuted; comment it out to see the next.
SPECIFICATION Spec
CONSTANTS
    None = None
    orders = orders
    dlq = dlq
    shop = shop
    plain = plain
    coded = coded
    Channels <- TwoChannels
    Services <- OneService
    Errors <- TwoErrors
    Coded <- CodedErrors
    DlqOf <- ToDlq
    Origins <- FullAndBare
    OnRedis = TRUE
    ReusesHeaders = FALSE
    MaxContexts = 3
    MaxMessages = 3
    MaxFailing = 1
INVARIANT TracingKept
INVARIANT HeadersKept
INVARIANT StackReadable
INVARIANT ErrorOfLastAttempt
INVARIANT ErrorUnmixed
\* The bounds end every behaviour.
CHECK_DEADLOCK FALSE
