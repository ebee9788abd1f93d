SPECIFICATION FairSpec
CONSTANTS
    MaxMsgs = 5
    Bad = {3}
    Prefetch = 3
    Batch = 2
    ChanCap = 1
    Binds = FALSE
    MaxFaults = 2
INVARIANTS
    SettledRightly
    AcksKnownTags
    RepeatsBounded
PROPERTIES
    EverySettled
    StopReleases
CHECK_DEADLOCK FALSE
