SPECIFICATION LinksSpec
INVARIANTS
    QueuesOk
    PathsAgree
    
PROPERTIES
    ServesInTurn
    HandshakeOk
    ConnectionsOk
    PathsTornDown
CHECK_DEADLOCK FALSE
CONSTANTS
    NULL = NULL
    Circs = {c1, c2, c3}
    OrConns = {k1, k2}
    CELL_QUEUE_HIGHWATER_SIZE = 2
    CELL_QUEUE_LOWWATER_SIZE = 1
    OR_CONN_HIGHWATER = 2
    OR_CONN_LOWWATER = 1
    MaxQueued = 3
