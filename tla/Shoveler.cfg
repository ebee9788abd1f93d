SPECIFICATION FairSpec
CONSTANTS
    MaxPackets = 4
    DestUdp = 2
    MaxFaults = 3
INVARIANTS
    RelayedInOrder
    EveryPacketAccounted
PROPERTIES
    EventuallyRelayed
CHECK_DEADLOCK FALSE
