SPECIFICATION Spec
CONSTANTS
    Conns = {c1, c2}
    IPs = {ip1}
    Nonces = {n1}
    AuthWindow = 2
    AuthMax = 2
    CacheMax = 1
    ReplayTtl = 2
    MaxConns = 1
    NoConn = NoConn
    NextHop = FALSE
    MaxRepeats = 1
    MaxDelay = 1
    MaxTime = 1
CHECK_DEADLOCK FALSE
INVARIANT FailedAuthCloses
