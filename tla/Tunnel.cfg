SPECIFICATION Spec
CONSTANTS
    Users = {u1, u2}
    pool_count = 1
    MAX_STREAMS = 2
    MAX_PENDING = 2
    StreamLimit = 2
    PendingLimit = 2
    PerAddress = 2
    MaxConns = 5
    MaxFaults = 1
INVARIANTS
    TypeOK
    EndsHeld
    EndsAgree
    Awaited
PROPERTY ServesUsers
CHECK_DEADLOCK FALSE
