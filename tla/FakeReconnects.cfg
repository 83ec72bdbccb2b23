\* As FakeDelivers, with one unsubscribe and a second connect: the channels subscribe
\* again while handlers of the first connection are still at work.
SPECIFICATION FairSpec
CONSTANTS
    audit = audit
    billing = billing
    Consumers <- TwoConsumers
    Outside = Outside
    Nothing = Nothing
    MaxSubscriptions = 1
    MaxMessages = 2
    MaxUnsubscribes = 1
    MaxConnects = 2
INVARIANT IInv
INVARIANT ActiveTracksHandlers
INVARIANT SynchronousDelivery
PROPERTY RemovedWhenQuiet
PROPERTY EventuallyReturns
\* The bounds end every behaviour.
CHECK_DEADLOCK FALSE
