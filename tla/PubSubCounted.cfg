SPECIFICATION SpecCounted
CONSTANTS
    Proc = {"a", "b"}
    Topic = {"t"}
    Node = {"n", "m"}
    Handler = {1, 2}
    Anyone = "anyone"
    NoTopic = "none"
    Visible <- VisibleToAll
    Advertisable <- AAndB
    Subscribable <- OneHandler
    MaxEvents = 4
    MaxLost = 0
    ZHandler = {1, 2}
    NodeOf <- TwoNodeOf
    TypeOf <- TwoTypeOf
    User = {"u", "v"}
    MaxPut = 2
    Request <- ZCalls
    MaxOffers = 2
    MaxFailures = 1
    RProc = {"a1", "a2", "b"}
    HostOf <- AOnHosts
    NetIfaces <- OwnNets
    MaxRelays = 1
    MaxSent = 2
INVARIANTS
    SubscribersCounted
CHECK_DEADLOCK FALSE
