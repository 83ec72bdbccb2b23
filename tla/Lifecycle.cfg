\* Services come and go at any time except while broker_starting subscribes or
\* broker_stopped disconnects; one subscription fails, and one service has a definition that is refused.
SPECIFICATION Spec
CONSTANTS
    s1 = s1
    s2 = s2
    s3 = s3
    c1 = c1
    c2 = c2
    c3 = c3
    c4 = c4
    c5 = c5
    Services <- ThreeServices
    ChannelsOf <- AllSchemas
    Invalid = {c5}
    CreateWhileStarting = FALSE
    StopWhileBusy = FALSE
    MaxStarts = 2
    MaxFaults = 1
INVARIANT IInv
INVARIANT AllSubscribed
INVARIANT LoopsTracked
INVARIANT NothingLeft
\* A broker that stopped for good and services that are gone do nothing.
CHECK_DEADLOCK FALSE
