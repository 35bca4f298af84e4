SPECIFICATION BleSpec
CONSTANTS
    Listeners = {"ws", "wt", "quic", "rtc"}
    Kind <- EachKind
    Peers = {p1, p2}
    Clients = {"app1", "app2"}
    Requests <- FourRequests
    Owner <- TwoClients
    Scheme <- EveryScheme
    Paths = {"token1", "token2"}
    Path <- OneReused
    Stale = {"token1"}
    MaxTasks = 3
    Centrals = {c1, c2}
INVARIANTS
    OneOwned
    FacesOwned
PROPERTIES
    StopIsEffective
CHECK_DEADLOCK FALSE
