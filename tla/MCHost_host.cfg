SPECIFICATION HostSpec
CONSTANTS
    Parts = {"ownership", "osc", "activity", "socket", "close", "runtime", "screen", "mirror", "bridge"}
    Sessions = {"s1"}
    Legacy = {"s1"}
    Ops = {1, 2}
    MaxInc = 3
    CommandMax = 2
    PayloadMax = 2
    FrameEvents = 2
    RuntimeDirs = {"d1", "d2"}
    MaxBind = 2
    MaxTamper = 3
    Caps = {"a", "b"}
    OurCap = "a"
    MaxLink = 3
    MaxAttempt = 2
    Operators = {"d", "e"}
    Attachments = {"a"}
    WindowSizes = {1, 2}
    MaxRestart = 1
    MaxLoss = 2
    MaxCached = 3
    Sizes <- ScreenSizes
    Glyphs = {"a", "w"}
    MaxToken = 4
    MaxEvent = 4
    FrameMax = 2
    MaxResume = 1
    MaxByte = 4
    ReaderChunk = 2
    ChannelMax = 2
    DrainMax = 2
    PumpBuffers = {1, 3}
    TickMax = 2
INVARIANTS
    HostTypeOK
    NoOrphan
    CloseCanResume
    ClosedIsOver
    ActiveIsProjected
    SocketIsRepaired
    CloseIsConfirmed
    
    ScreenIsReplayed
    MirrorIsFed
    OutputIsDelivered
PROPERTIES
    OwnedConverges
    KeepsLedger
    ActivityIsTrue
CHECK_DEADLOCK FALSE
