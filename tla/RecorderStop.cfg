SPECIFICATION FairSpec
CONSTANTS
    Thread = {"t1"}
    Lengths = {1}
    BufferSizes = {3}
    DefaultBufferSize = 3
    MaxMessages = 2
PROPERTIES
    StopReturns
