SPECIFICATION FairSpec
CONSTANTS
    MaxMsgs = 2
    MaxFaults = 3
INVARIANTS
    FaultsExplainDelivery
PROPERTIES
    FollowsSessionLink
    RecoversUnlessHung
    PushReturnsUnlessHung
CHECK_DEADLOCK FALSE
