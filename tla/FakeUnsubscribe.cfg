\* One unsubscribe, that times out or finds a task that has not begun. TLC shows the
\* first property it finds refuted; comment it out to see the next.
SPECIFICATION Spec
CONSTANTS
    audit = audit
    billing = billing
    Consumers <- TwoConsumers
    Outside = Outside
    Nothing = Nothing
    MaxSubscriptions = 1
    MaxMessages = 2
    MaxUnsubscribes = 1
    MaxConnects = 1
SYMMETRY Symmetric
INVARIANT DeliveredToAll
INVARIANT NoneAfterUnsubscribe
\* The bounds end every behaviour.
CHECK_DEADLOCK FALSE
