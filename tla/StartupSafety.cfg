SPECIFICATION Spec
CONSTANTS
    Configs <- AllConfigs
    UdpIfaces = {eth0}
    EtherIfaces = {eth0}
    Names <- TheNames
    CaPrefix <- Other
    Produced <- ThePrefixes
    PfsPrefix <- MuasGroup
    Apps = {app}
INVARIANTS
    FaceIds
    ConfigRoutesSurvive
    ChildrenInherit
    RoutingIsWired
CHECK_DEADLOCK FALSE
