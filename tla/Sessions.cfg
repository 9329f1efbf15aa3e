SPECIFICATION FairSpec
CONSTANTS
    Clients = {1, 2}
    Authorized = {1, 2}
    ServicesOf <- MCServicesLast
    Allowed <- MCAllowed
    Udp = {"udp"}
    MaxServices = 2
    max_clients = 2
    MAX_INCOMING = 2
    InitialDelay = 1
    MaxDelay = 2
    Conns = {1, 2, 3}
    MaxNotices = 1
    MaxFaults = 1
INVARIANTS
    TypeOK
    RunningServed
    OneListener
PROPERTY Recovers
