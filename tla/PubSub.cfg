SPECIFICATION MCSpec
CONSTANTS
    Proc = {"a", "b", "c"}
    Topic = {"t"}
    Node = {"n", "m"}
    Handler = {1, 2}
    Anyone = "anyone"
    NoTopic = "none"
    Visible <- VisibleToB
    Advertisable <- AOrC
    Subscribable <- TwoHandlers
    MaxEvents = 5
    MaxLost = 1
    ZHandler = {1, 2}
    NodeOf <- TwoNodeOf
    TypeOf <- TwoTypeOf
    User = {"u", "v"}
    MaxPut = 2
    Request <- ZCalls
    MaxOffers = 2
    MaxFailures = 1
    RProc = {"a1", "a2", "b"}
    HostOf <- AOnHosts
    NetIfaces <- OwnNets
    MaxRelays = 1
    MaxSent = 2
INVARIANTS
    TypeOK
    SocketConnected
    Registered
    Hears
    ZenohHears
    RelaysCarry
PROPERTIES
    Connected
    ZenohCalls
CHECK_DEADLOCK FALSE
