\* Two memcached gets to one node: the request encoder fails the Command it drops, and the Back sends it again.
CONSTANTS
    c1 = c1  c2 = c2  n1 = n1  n2 = n2  k1 = k1  k2 = k2
    Clients <- MCClients1
    Nodes = {n1, n2}
    Keys = {k1, k2}
    Requests <- MCSameNode
    NodeOf <- MCNodeOf
    BlackHoles = {}
    CHAN_CAP = 1
    MAX_CYCLE = 1
    FRONTEND_MAX_POLL_ERROR = 1
    DOWNSTREAM_MAX_POLL_ERROR = 1
    ClientFaults = {}
    BackendFaults = {}
    Protocol = "memcache"
    WIRE_CAP = 2
    RespTimeouts = FALSE
    Auth = FALSE
SPECIFICATION Spec
INVARIANTS ReplyBelongsToCommand
CHECK_DEADLOCK FALSE
