SPECIFICATION Spec
CONSTANTS
    Cap = 8
    Chunk = 2
    Slack = 2
    Hdr = 1
    Tag = 1
    DataEncryption = TRUE
    Modes = {TRUE, FALSE}
    Backend = "epoll"
    HeaderLen = 0
    PeerChunk = 2
    Faults = {"reset", "truncate", "corrupt"}
    MaxDirect = 2
    MaxWork = 7
INVARIANTS
    HalfCloseOrder
    OnlyAuthentic
