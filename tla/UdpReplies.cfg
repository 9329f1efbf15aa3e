SPECIFICATION Spec
CONSTANTS
    a = a
    b = b
    p = p
    q = q
    Services <- MCServices
    Peers <- MCPeers
    MAX_UDP_SESSIONS = 2
    Limit <- MCLimit
    IdleTimeout = 0
    Window = 4
    MaxId = 3
    MaxSeq = 2
    MaxQueue = 2
SYMMETRY Symmetry
INVARIANT RepliesFresh
