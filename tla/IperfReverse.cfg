SPECIFICATION FairSpec
CONSTANTS
    MinWindow = 1
    MaxWindow = 2
    Duration = 3
    MinRto = 1
    MaxRto = 1
    MAX_RETRIES = 1
    MaxSeq = 2
    MaxLosses = 1
INVARIANTS
    ReverseInv
PROPERTIES
    AsksAfterOutage
    ImplementsFlow
    BothEnd
CHECK_DEADLOCK FALSE
