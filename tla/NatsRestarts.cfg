\* Three channels, two of them with one stream name; the broker is started twice;
\* one request of a subscribe or of a delivery fails.
SPECIFICATION FairSpec
CONSTANTS
    dotted = dotted
    scored = scored
    other = other
    stream1 = stream1
    stream2 = stream2
    Untracked = Untracked
    NoChannel = NoChannel
    Channels <- All
    StreamOf <- AllStreams
    Recreates = FALSE
    RetriesStart = FALSE
    SelfStops = FALSE
    FaultKinds = {"stream", "consumer", "progress"}
    MaxFaults = 1
    MaxStarts = 2
    MaxMade = 2
INVARIANT IInv
INVARIANT SubscribedOnce
INVARIANT StoppedIsQuiet
INVARIANT RefusedForAReason
PROPERTY HooksEnd
\* The bounds end every behaviour.
CHECK_DEADLOCK FALSE
