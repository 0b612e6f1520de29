\* An MGET failed as a whole by a BlackHole never reads as done.
CONSTANTS
    c1 = c1  c2 = c2  n1 = n1  n2 = n2  k1 = k1  k2 = k2
    Clients <- MCClients1
    Nodes = {n1, n2}
    Keys = {k1, k2}
    Requests <- MCSplitMget
    NodeOf <- MCNodeOf
    BlackHoles = {n1}
    CHAN_CAP = 1
    MAX_CYCLE = 1
    FRONTEND_MAX_POLL_ERROR = 1
    DOWNSTREAM_MAX_POLL_ERROR = 1
    ClientFaults = {}
    BackendFaults = {}
    Protocol = "redis"
    WIRE_CAP = 2
    RespTimeouts = TRUE
    Auth = FALSE
SPECIFICATION Spec
INVARIANTS FanOutErrorVisible
CHECK_DEADLOCK FALSE
