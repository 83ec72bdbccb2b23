\* broker_starting is repeated after one of its subscriptions failed.
SPECIFICATION Spec
CONSTANTS
    dotted = dotted
    scored = scored
    other = other
    stream1 = stream1
    stream2 = stream2
    Untracked = Untracked
    NoChannel = NoChannel
    Channels <- Distinct
    StreamOf <- DistinctStreams
    Recreates = FALSE
    RetriesStart = TRUE
    SelfStops = FALSE
    FaultKinds = {"consumer"}
    MaxFaults = 1
    MaxStarts = 2
    MaxMade = 2
INVARIANT SubscribedOnce
\* The bounds end every behaviour.
CHECK_DEADLOCK FALSE
