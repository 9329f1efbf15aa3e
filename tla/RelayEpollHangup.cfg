SPECIFICATION Spec
CONSTANTS
    Cap = 8
    Chunk = 2
    Slack = 2
    Hdr = 1
    Tag = 1
    DataEncryption = TRUE
    Modes = {TRUE}
    Backend = "epoll"
    HeaderLen = 0
    PeerChunk = 2
    Faults = {}
    MaxDirect = 6
    MaxWork = 4
INVARIANTS
    Lossless
