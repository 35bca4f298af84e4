SPECIFICATION FairSpec
CONSTANTS
    Settings <- All
    Pipeline = 2
    Word = 8
    Room = 4
INVARIANTS
    PipelineInv
    WholeObject
PROPERTIES
    FetchEnds
CHECK_DEADLOCK FALSE
