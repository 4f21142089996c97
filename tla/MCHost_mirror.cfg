SPECIFICATION HostSpec
CONSTANTS
    Parts = {"mirror"}
    Sessions = {"s1"}
    Legacy = {"s1"}
    Ops = {1, 2}
    MaxInc = 3
    CommandMax = 2
    PayloadMax = 2
    FrameEvents = 2
    RuntimeDirs = {"d1", "d2"}
    MaxBind = 2
    MaxTamper = 2
    Caps = {"a", "b"}
    OurCap = "a"
    MaxLink = 3
    MaxAttempt = 2
    Operators = {"d", "e"}
    Attachments = {"a"}
    WindowSizes = {1, 2}
    MaxRestart = 1
    MaxLoss = 2
    MaxCached = 3
    Sizes <- ScreenSizes
    Glyphs = {"a", "w"}
    MaxToken = 4
    MaxEvent = 4
    FrameMax = 2
    MaxResume = 1
    MaxByte = 4
    ReaderChunk = 2
    ChannelMax = 2
    DrainMax = 2
    PumpBuffers = {1, 3}
    TickMax = 2
INVARIANT MirrorIsReplica
CHECK_DEADLOCK FALSE
