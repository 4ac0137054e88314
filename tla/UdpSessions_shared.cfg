SPECIFICATION FairSpec
CONSTANTS
    Tunnels = {t1, t2}
    IPs = {ip1, ip2}
    Sids = {1, 2}
    Forwards = {f1}
    MaxSessions = 2
    MaxPerIp = 1
    MaxCreated = 3
CHECK_DEADLOCK FALSE
INVARIANT RepliesReachUser
