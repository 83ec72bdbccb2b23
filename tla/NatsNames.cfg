\* Two channels with one stream name.
SPECIFICATION Spec
CONSTANTS
    dotted = dotted
    scored = scored
    other = other
    stream1 = stream1
    stream2 = stream2
    Untracked = Untracked
    NoChannel = NoChannel
    Channels <- Colliding
    StreamOf <- CollidingStreams
    Recreates = FALSE
    RetriesStart = FALSE
    SelfStops = FALSE
    FaultKinds = {}
    MaxFaults = 0
    MaxStarts = 1
    MaxMade = 1
INVARIANT StartsAgain
\* The bounds end every behaviour.
CHECK_DEADLOCK FALSE
