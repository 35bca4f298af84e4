SPECIFICATION FairSpec
CONSTANTS
    InitialWindow = 2
    MinWindow = 1
    MaxWindow = 3
    Deadline = 6
    DrainTicks = 5
    MinRto = 2
    MaxRto = 3
    MAX_RETRIES = 1
    MaxSeq = 3
INVARIANTS
    WindowAccounting
    Conservation
    LossNeverOverstated
PROPERTIES
    EmptyWindowIsFinal
    ImplementsFlow
    Terminates
CHECK_DEADLOCK FALSE
