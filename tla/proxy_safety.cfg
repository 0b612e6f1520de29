\* Reply order and reply ownership under client and backend faults.
CONSTANTS
    c1 = c1  c2 = c2  n1 = n1  n2 = n2  k1 = k1  k2 = k2
    Clients <- MCClients1
    Nodes = {n1, n2}
    Keys = {k1, k2}
    Requests <- MCPipeline
    NodeOf <- MCNodeOf
    BlackHoles = {}
    CHAN_CAP = 1
    MAX_CYCLE = 1
    FRONTEND_MAX_POLL_ERROR = 1
    DOWNSTREAM_MAX_POLL_ERROR = 1
    ClientFaults = {"close", "break"}
    BackendFaults = {"reset", "close"}
    Protocol = "redis"
    WIRE_CAP = 1
    RespTimeouts = TRUE
    Auth = TRUE
SPECIFICATION Spec
INVARIANTS TypeOK ReplyOrder ReplyBelongsToCommand DelayedAccounting
CHECK_DEADLOCK FALSE
