SPECIFICATION MCFairSpec
CONSTANTS
    Proc = {"a", "b"}
    Host = {"near", "far"}
    HostOf <- MCHostOf
    Topic = {"t"}
    Node = {"n"}
    Advertisable <- OneAll
    Subscribable <- Nobody
    Listers <- Nobody
    SocketBuffer = 8
    InitBeats = 0
    MaxFaults = 1
PROPERTIES
    Rediscovered
    DeadForgotten
CHECK_DEADLOCK FALSE
