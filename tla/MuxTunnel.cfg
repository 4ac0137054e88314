SPECIFICATION FairMuxSpec
CONSTANTS
    Streams = {1}
    Workloads <- MCWorkloads
    SessionLoads <- MCSessionLoads
    Datagrams <- MCDatagrams
    Window = 2
    Batch = 1
    OutCap = 1
    CmdCap = 1
    FrameCap = 1
    WireCap = 1
    EventCap = 1
CHECK_DEADLOCK FALSE
INVARIANTS MuxTypeOK NoDataDropped CloseAfterData CreditAccounted MuxEnforced
PROPERTIES OpenAnswered TransferCompletes StreamsForgotten AuthAnswered
