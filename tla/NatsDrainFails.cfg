\* drain() raises when a service stops: it goes on getting messages.
SPECIFICATION Spec
CONSTANTS
    dotted = dotted
    scored = scored
    other = other
    stream1 = stream1
    stream2 = stream2
    Untracked = Untracked
    NoChannel = NoChannel
    Channels <- Distinct
    StreamOf <- DistinctStreams
    Recreates = FALSE
    RetriesStart = FALSE
    SelfStops = FALSE
    FaultKinds = {"drain"}
    MaxFaults = 1
    MaxStarts = 1
    MaxMade = 2
INVARIANT StoppedIsQuiet
\* The bounds end every behaviour.
CHECK_DEADLOCK FALSE
