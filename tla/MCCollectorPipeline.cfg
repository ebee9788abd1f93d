SPECIFICATION FairSpec
CONSTANTS
    Feed <- MCFeed
    Sources = {"udp", "file", "follow"}
    Workers = {w1, w2}
    GStreamWorkers = {g1}
    InputCap = 2
    GStreamCap = 1
    Capacity = 2
    PageSize = 2
    ResultsCap = 1
    WLCGEnabled = TRUE
    WLCGVOs = {"cms"}
    WLCGPaths = {"/store"}
    GStreamPaths = {"/store"}
    DropVOs = {"test"}
    DropPaths = {}
    StampVO = "osg"
INVARIANTS
    PagesConsistent
    NothingVanishes
    ClosedInOrder
    RoutedByOwnVO
PROPERTIES
    EventuallySettled
    ShutdownCompletes
CHECK_DEADLOCK FALSE
