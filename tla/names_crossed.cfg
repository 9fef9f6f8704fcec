SPECIFICATION Spec
CONSTANTS
    gps = gps
    usb = usb
    app1 = app1
    app2 = app2
    Client = {gps, usb, app1, app2}
    NoClient = NoClient
    Masters = {gps, usb}
    MasterList <- TwoMasters
    VirtualOf <- CrossVirtualOf
    VirtualList <- CrossVirtualList
    Writers = {app2}
    Reserved = {0}
    EpFd = 0
    NFile = 7
    MaxClients = 7
    NPts = 2
    Hz = 1
    ReconnectInterval = 1000
    Pidfile = "present"
    MaxReads <- ReadOnce
    MaxFaults = 1
INVARIANTS
    NamesNotCrossed
