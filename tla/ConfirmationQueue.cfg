SPECIFICATION FairSpec
CONSTANTS
    Producers = {p1, p2}
    Consumers = {c1, c2}
    NoProc = NoProc
    MaxInMemory = 3
    LowWaterMark = 2
    MaxMsgs = 8
INVARIANTS
    FirstInFirstOut
    Accounted
    SizeCountsEverything
    NoLostWakeup
PROPERTIES
    CrashLossBounded
    ImplementsFifo
    EventuallyDequeued
