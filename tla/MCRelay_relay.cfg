SPECIFICATION Spec
CONSTANTS
    Clients = {1, 2}
    Loads <- RelayLoads
    MaxControl = 2
    ControlCap = 2
    DataCap = 1
    IngressCap = 1
    BufferCap = 2
    RoomCap = 2
    PendingLimit = 1
    Deadlines = {TRUE, FALSE}
    ReqMax = 2
    RespMax = 2
    PipeCap = 1
    Registrars = {1, 2}
    Identities = {1, 2}
    Sockets = {"a", "b"}
    MaxRestart = 1
INVARIANTS
    TypeOK
    RoomIsCoherent
    FramesInOrder
    CleanIsWhole
    IdentityIsKept
PROPERTIES
    GoneIsReleased
    TunnelEnds
CHECK_DEADLOCK FALSE
