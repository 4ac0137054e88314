SPECIFICATION MCSpec
CONSTANTS
    Window = 4
    Batch = 2
    MaxChunk = 2
    Total = 9
    Requests = {r1, r2}
    Serve = serve
    MaxDeaths = 1
    Assocs = {a1, a2}
    Apps = {p1, p2}
    NoAddr = NoAddr
    Loads = {{r1, r2}, {r1, a1}, {a1, a2}}
CHECK_DEADLOCK FALSE
INVARIANTS DriftBounded NeverStarved OncePerGeneration EntryKept
PROPERTIES ImplementsPipe TransferCompletes TunnelRestored RepliesRouted
