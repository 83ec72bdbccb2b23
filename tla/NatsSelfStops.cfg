\* A handler stops its own service: drain() waits for the handler that waits for it.
SPECIFICATION FairSpec
CONSTANTS
    dotted = dotted
    scored = scored
    other = other
    stream1 = stream1
    stream2 = stream2
    Untracked = Untracked
    NoChannel = NoChannel
    Channels <- Distinct
    StreamOf <- DistinctStreams
    Recreates = FALSE
    RetriesStart = FALSE
    SelfStops = TRUE
    FaultKinds = {}
    MaxFaults = 0
    MaxStarts = 1
    MaxMade = 1
PROPERTY HooksEnd
\* The bounds end every behaviour.
CHECK_DEADLOCK FALSE
