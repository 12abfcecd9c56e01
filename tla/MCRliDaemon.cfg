SPECIFICATION FairSpec
CONSTANTS
    WORKERS = 3
    NAreas = 6
    Setups <- SomeSetups
    Cols = 2
    PromptOpen = TRUE
    FaultKinds = {}
    MaxFaults = 0
INVARIANTS TypeOK NoneLeft RasterShowsResults
PROPERTIES Implements WaitReturnsTarget Returns
CHECK_DEADLOCK FALSE
