SPECIFICATION MCSpec
CONSTANTS
    User = {"u1", "u2"}
    Reception = "reception"
    Node = {"a", "b"}
    HandlerId = {1, 2, 3}
    Name = {"/t"}
    Topic = {"@p@/t"}
    Remap <- RemapNames
    FullyQualified <- Qualify
    Carried <- Carry
    Publishes <- PublisherOf
    Subscription <- Plain
    MaxSent = 2
    ReceptionThread = "reception"
    PublishingThread = "publish"
    Second = 2
    kUnthrottled = 9
    kGenericMessageType = "any"
    MsgType = "T"
    Setups <- AllSetups
    MaxTime = 5
    MaxBrought = 2
    Thread = {"u1", "u2"}
    Threshold = 2
    DataSize = {1, 2}
    Chunk = {1}
    Free = "free"
    MaxPublished = 2
    Sender = {"a", "b"}
    Skew <- SenderSkew
    Modulus = 16
    MaxClock = 3
    MaxSeq = 3
    Clock = {"x", "y", "z"}
    BaseOf <- ClockBase
    NanoPerSecond = 2
    HalfRange = 2
    Time <- ClockTimes
    MaxSet = 2
    Scenarios = {"order", "leave", "pubs", "subs", "both", "store", "names", "text",
                 "rates", "shm", "counts", "clock"}
INVARIANTS
    AllInOrder
    Silenced
    TablesAgree
    QueriesAgree
    NamesAgree
    PublishKept
    CountsAgree
PROPERTIES
    Reaches
    ImplementsPublisherSet
CHECK_DEADLOCK FALSE
