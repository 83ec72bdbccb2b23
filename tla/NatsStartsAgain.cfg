\* The broker is stopped and started again.
SPECIFICATION Spec
CONSTANTS
    dotted = dotted
    scored = scored
    other = other
    stream1 = stream1
    stream2 = stream2
    Untracked = Untracked
    NoChannel = NoChannel
    Channels <- Distinct
    StreamOf <- DistinctStreams
    Recreates = FALSE
    RetriesStart = FALSE
    SelfStops = FALSE
    FaultKinds = {}
    MaxFaults = 0
    MaxStarts = 2
    MaxMade = 2
INVARIANT StartsAgain
\* The bounds end every behaviour.
CHECK_DEADLOCK FALSE
