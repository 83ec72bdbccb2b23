\* A service is created while broker_starting subscribes.
SPECIFICATION Spec
CONSTANTS
    s1 = s1
    s2 = s2
    s3 = s3
    c1 = c1
    c2 = c2
    c3 = c3
    c4 = c4
    c5 = c5
    Services <- TwoServices
    ChannelsOf <- Schemas
    Invalid = {}
    CreateWhileStarting = TRUE
    StopWhileBusy = FALSE
    MaxStarts = 2
    MaxFaults = 0
INVARIANT AllSubscribed
\* A broker that stopped for good and services that are gone do nothing.
CHECK_DEADLOCK FALSE
