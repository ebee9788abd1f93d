SPECIFICATION FairSpec
CONSTANTS
    Ids = {w1}
    ChanCap = 1
    MaxMsgs = 3
    MaxTokens = 1
    MaxFaults = 1
INVARIANTS
    PublishedInOrder
    OneGeneration
    NoSendOnClosed
    NothingForgotten
PROPERTIES
    EventuallyPublished
    RotationCompletes
CHECK_DEADLOCK FALSE
