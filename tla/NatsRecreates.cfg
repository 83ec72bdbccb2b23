\* A service is created again although it was not stopped.
SPECIFICATION Spec
CONSTANTS
    dotted = dotted
    scored = scored
    other = other
    stream1 = stream1
    stream2 = stream2
    Untracked = Untracked
    NoChannel = NoChannel
    Channels <- Distinct
    StreamOf <- DistinctStreams
    Recreates = TRUE
    RetriesStart = FALSE
    SelfStops = FALSE
    FaultKinds = {}
    MaxFaults = 0
    MaxStarts = 1
    MaxMade = 2
INVARIANT SubscribedOnce
\* The bounds end every behaviour.
CHECK_DEADLOCK FALSE
