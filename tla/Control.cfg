SPECIFICATION Spec
CONSTANTS
    Interval = 2
    Timeout = 5
    Block = 1
    Delay = 1
    MaxQueue = 1
    MaxFaults = 2
INVARIANTS
    TypeOK
    InOrder
    NoFalseTimeout
    NoticedInTime
CHECK_DEADLOCK FALSE
