\* Every Command handed to a Back or a BlackHole is completed while the links stay up.
CONSTANTS
    c1 = c1  c2 = c2  n1 = n1  n2 = n2  k1 = k1  k2 = k2
    Clients <- MCClients2
    Nodes = {n1, n2}
    Keys = {k1, k2}
    Requests <- MCTwoClients
    NodeOf <- MCNodeOf
    BlackHoles = {n2}
    CHAN_CAP = 1
    MAX_CYCLE = 1
    FRONTEND_MAX_POLL_ERROR = 1
    DOWNSTREAM_MAX_POLL_ERROR = 1
    ClientFaults = {"block"}
    BackendFaults = {}
    Protocol = "redis"
    WIRE_CAP = 2
    RespTimeouts = TRUE
    Auth = FALSE
SPECIFICATION Spec
PROPERTIES BackCompletes FifoRefinement
CHECK_DEADLOCK FALSE
