SPECIFICATION Spec
CONSTANTS
    MAX_STREAMS = 2
    MAX_PENDING = 2
    StreamLimit = 2
    PendingLimit = 2
    MAX_INCOMING = 1
    Timeout = 1
    MaxLag = 0
    MaxFd = 7
INVARIANTS
    TypeOK
    WithinLimits
    OneOwner
    NoIdlePair
PROPERTY ClosedTwiceByInit
