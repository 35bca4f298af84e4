SPECIFICATION FairSpec
CONSTANTS
    Resolvers = {wt, quic}
    Renewers = {loop}
    Deployments = {{loop}, {wt, quic}}
    Lifetime = 2
    Threshold = 1
    MaxPolls = 2
    MaxDay = 2
    MaxOrders = 4
    MaxFaults = 2
    SharedFaults = 1
INVARIANTS
    SharedName
    ResolvedIsFresh
PROPERTIES
    CacheIsRenewed
CHECK_DEADLOCK FALSE
