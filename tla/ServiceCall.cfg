SPECIFICATION MCSpec
CONSTANTS
    Proc = {"a", "b", "c"}
    Topic = {"s"}
    Node = {"n"}
    Type = {"T", "E"}
    OneWay = {"E"}
    Visible <- VisibleToAll
    Offerable <- Responders3
    Request <- Requests3
    MaxEvents = 3
    MaxLost = 1
    Call <- ParamCalls
    Known <- FactoryTypes
    Providers <- FourOffers
    Creatable <- TypesMade
    Spelled <- Spelling
    Empty = "Empty"
    Arguments <- CommandArguments
    MaxChanges = 2
    Peer = {"p", "q"}
    Samples = 3
    Signal = {"SIGINT", "SIGTERM"}
    Command <- TopicUses
    Patience = 2
    MaxMessages = 8
    MaxTopicEvents = 3
INVARIANTS
    NoneLeft
    ToldRight
PROPERTIES
    ImplementsCalls
    Replied
CHECK_DEADLOCK FALSE
