SPECIFICATION ProbesSpec
CONSTANTS
    Distance = 2
    MaxHops = 3
    ProbeCounts = {1, 2}
    Count = 2
    Naming = {1}
    MaxRuns = 2
INVARIANTS
    TraceInv
    PingReport
CHECK_DEADLOCK FALSE
