\* An IPv6-only build without the work pool and PROXY protocol v1: every kind
\* of unavailable feature is met.
CONSTANTS
  Features = {"SERVER", "CLIENT", "IPV6", "UDP", "DATA_ENCRYPTION",
              "PROXY_PROTOCOL", "PROXY_PROTOCOL_V2", "ENV_OVERRIDE"}
  LogLevels = {"error", "warn"}
  DEFAULT_LOG_LEVEL = "warn"
  MAX_SERVICES = 2
  MAX_CLIENTS = 2
  MAX_STREAMS = 4
  MAX_PENDING_STREAMS = 2
  MAX_PORT_RANGES = 2
  MAX_UDP_SESSIONS = 2
  MAX_UDP_DATAGRAM_SIZE = 1200
  DEFAULT_POOL_COUNT = 0
  DEFAULT_MAX_STREAMS = 2
  DEFAULT_MAX_PENDING_STREAMS = 1
  Strings <- MCStrings
  Numeric4 <- MCNumeric4
  Numeric6 <- MCNumeric6
  ConfigMayHave <- MCConfigMayHave
  ClientsMayHave <- MCClientsMayHave
  Inputs <- MCInputs
  MaxServiceLines = 5
  MaxCommonLines = 1
  MaxClientsLines = 5
SPECIFICATION Spec
INVARIANTS
  Sound
  AsWritten
  RefusedForCause
  AuthorizedAsListed
CHECK_DEADLOCK FALSE
