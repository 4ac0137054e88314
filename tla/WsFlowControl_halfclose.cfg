SPECIFICATION FairFlowSpec
CONSTANTS
    Window = 4
    Batch = 2
    MaxChunk = 2
    Total = 9
CHECK_DEADLOCK FALSE
PROPERTY CreditOpensWindow
