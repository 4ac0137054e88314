SPECIFICATION MCSpec
CONSTANTS
    Conns = {c1, c2, c3}
    IPs = {ip1}
    Nonces = {n1, n2, n3}
    AuthWindow = 2
    AuthMax = 2
    CacheMax = 2
    ReplayTtl = 2
    MaxConns = 1
    NoConn = NoConn
    NextHop = TRUE
    MaxRepeats = 2
    MaxDelay = 1
    MaxTime = 2
    Window = 2
    MaxSeq = 8
    MaxIdentities = 3
    MaxCrashes = 2
SYMMETRY Interchangeable
CHECK_DEADLOCK FALSE
INVARIANTS HandshakesBounded ReplayRefused CacheConsistent SlotsConserved AcceptedOnce ReorderedAccepted SeenBounded IdentitySurvives
