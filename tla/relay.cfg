SPECIFICATION Spec
CONSTANTS
    gps = gps
    usb = usb
    app1 = app1
    app2 = app2
    Client = {gps, app1, app2}
    NoClient = NoClient
    Masters = {gps}
    MasterList <- OneMaster
    VirtualOf <- PairVirtualOf
    VirtualList <- PairVirtualList
    Writers = {app2}
    Reserved = {0}
    EpFd = 0
    NFile = 6
    MaxClients = 6
    NPts = 2
    Hz = 1
    ReconnectInterval = 1000
    Pidfile = "present"
    MaxReads <- DeviceReadTwice
    MaxFaults = 1
INVARIANTS
    TypeOK
    ReadersGetEachChunkOnce
    FanoutComplete
PROPERTIES
    NoBufferOverwrite
    RelaySpec
