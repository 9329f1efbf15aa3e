SPECIFICATION FairSpec
CONSTANTS
    Cap = 8
    Chunk = 2
    Slack = 2
    Hdr = 1
    Tag = 1
    DataEncryption = TRUE
    Modes = {TRUE}
    Backend = "kqueue"
    HeaderLen = 7
    PeerChunk = 2
    Faults = {}
    MaxDirect = 1
    MaxWork = 10
INVARIANTS
    TypeOK
    Conserved
    Lossless
    NoIdleRecord
    ProxyHeaderFirst
PROPERTY Drains
