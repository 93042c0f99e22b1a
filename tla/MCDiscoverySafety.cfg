SPECIFICATION MCSpec
CONSTANTS
    Proc = {"a", "b", "c"}
    Host = {"near", "far"}
    HostOf <- MCHostOf
    Topic = {"t"}
    Node = {"n"}
    Advertisable <- AnyScope
    Subscribable <- Listeners
    Listers <- ListA
    SocketBuffer = 2
    InitBeats = 0
    MaxFaults = 1
INVARIANTS
    TypeOK
    SpeaksForItself
    ScopeRespected
    KnownOnce
    CanExpire
    ClientTold
PROPERTIES
    ByeIsLast
    ImplementsDirectory
CHECK_DEADLOCK FALSE
