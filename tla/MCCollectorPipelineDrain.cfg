SPECIFICATION Spec
CONSTANTS
    Feed <- MCFeed
    Sources = {"file"}
    Workers = {w1, w2}
    GStreamWorkers = {g1}
    InputCap = 2
    GStreamCap = 1
    Capacity = 2
    PageSize = 2
    ResultsCap = 1
    WLCGEnabled = TRUE
    WLCGVOs = {"cms"}
    WLCGPaths = {"/store"}
    GStreamPaths = {"/store"}
    DropVOs = {"test"}
    DropPaths = {}
    StampVO = "osg"
INVARIANTS
    StopDrains
CHECK_DEADLOCK FALSE
