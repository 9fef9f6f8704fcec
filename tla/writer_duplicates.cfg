SPECIFICATION Spec
CONSTANTS
    gps = gps
    usb = usb
    app1 = app1
    app2 = app2
    Client = {gps, app1}
    NoClient = NoClient
    Masters = {gps}
    MasterList <- OneMaster
    VirtualOf <- SingleVirtualOf
    VirtualList <- SingleVirtualList
    Writers = {app1}
    Reserved = {0}
    EpFd = 0
    NFile = 4
    MaxClients = 4
    NPts = 1
    Hz = 1
    ReconnectInterval = 2000
    Pidfile = "present"
    MaxReads <- ReadOnce
    MaxFaults = 0
INVARIANTS
    EveryoneGetsEachChunkOnce
