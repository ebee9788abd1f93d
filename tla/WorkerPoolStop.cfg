SPECIFICATION Spec
CONSTANTS
    Ids = {w1}
    ChanCap = 1
    MaxMsgs = 1
    MaxTokens = 1
    MaxFaults = 0
INVARIANTS
    StopLeavesNoWorker
CHECK_DEADLOCK FALSE
