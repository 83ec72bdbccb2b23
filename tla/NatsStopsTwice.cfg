\* service_stopping is called twice: the second call returns at once.
SPECIFICATION Spec
CONSTANTS
    dotted = dotted
    scored = scored
    other = other
    stream1 = stream1
    stream2 = stream2
    Untracked = Untracked
    NoChannel = NoChannel
    Channels <- Distinct
    StreamOf <- DistinctStreams
    Recreates = FALSE
    RetriesStart = FALSE
    SelfStops = FALSE
    FaultKinds = {}
    MaxFaults = 0
    MaxStarts = 1
    MaxMade = 1
INVARIANT EachStopIsQuiet
\* The bounds end every behaviour.
CHECK_DEADLOCK FALSE
