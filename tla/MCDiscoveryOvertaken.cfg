SPECIFICATION MCSpec
CONSTANTS
    Proc = {"a", "b", "c"}
    Host = {"near", "far"}
    HostOf <- MCHostOf
    Topic = {"t"}
    Node = {"n"}
    Advertisable <- OneAll
    Subscribable <- Nobody
    Listers <- Nobody
    SocketBuffer = 2
    InitBeats = 0
    MaxFaults = 0
PROPERTIES
    NoAdvertiseAfterUnadvertise
CHECK_DEADLOCK FALSE
