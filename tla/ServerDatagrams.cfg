SPECIFICATION ServerSpec
CONSTANTS
    Tunnels = {t1, t2}
    IPs = {ip1, ip2}
    Sids = {1, 2}
    Forwards = {f1}
    MaxSessions = 2
    MaxPerIp = 1
    MaxCreated = 3
    Clients = {c1, c2}
    NoHop = NoHop
CHECK_DEADLOCK FALSE
INVARIANTS CountersExact CapsRespected OwnerOnly SlotFilled
PROPERTIES SocketsReleased IdleRemoved
