SPECIFICATION FairSpec
CONSTANTS
    Ids = {w1}
    ChanCap = 1
    MaxMsgs = 2
    MaxTokens = 1
    MaxFaults = 0
PROPERTIES
    PublishingResumes
CHECK_DEADLOCK FALSE
