SPECIFICATION Spec
CONSTANTS
    gps = gps
    usb = usb
    app1 = app1
    app2 = app2
    Client = {gps, usb, app1, app2}
    NoClient = NoClient
    Masters = {gps, usb}
    MasterList <- TwoMasters
    VirtualOf <- PairVirtualOf
    VirtualList <- BesideVirtualList
    Writers = {app1, app2}
    Reserved = {0}
    EpFd = 0
    NFile = 7
    MaxClients = 5
    NPts = 2
    Hz = 1
    ReconnectInterval = 1000
    Pidfile = "present"
    MaxReads <- WritersRead
    MaxFaults = 2
INVARIANTS
    FdOwnership
    RegistrationConsistent
    HandlerGetsItsLink
    NameLeadsToTerminal
    CleanExit
    RoutingCorrect
