\* A cluster with an auth password: the AUTH Command connect puts into each channel should be sent first.
CONSTANTS
    c1 = c1  c2 = c2  n1 = n1  n2 = n2  k1 = k1  k2 = k2
    Clients <- MCClients1
    Nodes = {n1, n2}
    Keys = {k1, k2}
    Requests <- MCSingle
    NodeOf <- MCNodeOf
    BlackHoles = {}
    CHAN_CAP = 1
    MAX_CYCLE = 1
    FRONTEND_MAX_POLL_ERROR = 1
    DOWNSTREAM_MAX_POLL_ERROR = 1
    ClientFaults = {}
    BackendFaults = {}
    Protocol = "redis"
    WIRE_CAP = 2
    RespTimeouts = FALSE
    Auth = TRUE
SPECIFICATION Spec
PROPERTIES AuthSent
CHECK_DEADLOCK FALSE
