SPECIFICATION MCSpec
CONSTANTS
    Thread = {"t1", "t2"}
    Lengths = {0, 1}
    BufferSizes = {0, 2}
    DefaultBufferSize = 2
    MaxMessages = 4
    Keys <- ThreeKeys
    Times = {1, 2}
    Period = 1
    MaxTime = 4
    MaxRows = 3
    Received <- ThreeTimes
    StepSizes = {1}
    Offsets = {1}
    MsgWaiting = TRUE
    PlayMaxTime = 2
    MaxCalls = 3
    Scenarios = {"record", "topics", "choose", "play", "file", "failing", "query"}
INVARIANTS
    InOrder
    NothingLost
    StopDrains
    LossBounded
    LogAnswers
PROPERTIES
    Written
    LaterTopicsAdded
    Paced
    PlaybackEnds
CHECK_DEADLOCK FALSE
