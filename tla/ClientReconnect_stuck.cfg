SPECIFICATION FairReconnectSpec
CONSTANTS
    Requests = {r1}
    Serve = serve
    MaxDeaths = 1
CHECK_DEADLOCK FALSE
PROPERTY RetryHappens
