SPECIFICATION Spec
CONSTANTS
    Tps = 4
    Section <- MCSection
    Word <- MCWord
    Atoi <- MCAtoi
    Bracketed <- MCBracketed
    VirtualName <- MCVirtualName
    CommaSeparated <- MCCommaSeparated
    CONFIG_MAX_HZ = 4
    CONFIG_MIN_RECONNECT_INTERVAL_MS = 4
    CONFIG_MAX_RECONNECT_INTERVAL_MS = 100
    CONFIG_DEFAULT_HZ = 4
    CONFIG_DEFAULT_RECONNECT_INTERVAL_MS = 8
    CONFIG_DEFAULT_PID_FILE <- MCPidFile
    ServerLines <- NoLines
    SerialLines <- DevicePair
    MaxServerLines = 0
    MaxSerialLines = 2
    MaxNow = 40
INVARIANTS
    ReconnectOnTime
