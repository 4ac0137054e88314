SPECIFICATION MuxSpec
CONSTANTS
    Streams = {1}
    Workloads <- MCBothWays
    SessionLoads = {}
    Datagrams <- MCNoDatagrams
    Window = 3
    Batch = 1
    OutCap = 1
    CmdCap = 1
    FrameCap = 1
    WireCap = 1
    EventCap = 1
CHECK_DEADLOCK FALSE
INVARIANT NeverMutuallyBlocked
