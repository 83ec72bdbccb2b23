\* Two channels, two messages, one of them perhaps published by a handler of the
\* other; two unsubscribes, from outside or by handlers; the adapter may disconnect anywhere.
SPECIFICATION FairSpec
CONSTANTS
    audit = audit
    billing = billing
    Consumers <- TwoConsumers
    Outside = Outside
    Nothing = Nothing
    MaxSubscriptions = 1
    MaxMessages = 2
    MaxUnsubscribes = 2
    MaxConnects = 1
INVARIANT IInv
INVARIANT ActiveTracksHandlers
INVARIANT SynchronousDelivery
PROPERTY RemovedWhenQuiet
PROPERTY EventuallyReturns
\* The bounds end every behaviour.
CHECK_DEADLOCK FALSE
