SPECIFICATION MCSpec
CONSTANTS
    Radios <- TwoRadioFaces
    Dongles = {1, 2}
    NamePrefixes <- TwoNames
    NextHops = {{}, {1}}
    Routes0 <- TwoRoutes
    Legacy0 = {1}
    MaxChanges = 1
    Slots = {f1, f2}
    MaxDrops = 3
    MaxTicks = 3
    Spans = {s1, s2, s3}
    BatchSize = 2
    MaxLost = 1
INVARIANTS
    RadiosAreHeld
    DemandIsDecided
    TicksMeanDrops
PROPERTIES
    CognitionFollows
    RadiosStartAndEnd
    CancelStops
CHECK_DEADLOCK FALSE
