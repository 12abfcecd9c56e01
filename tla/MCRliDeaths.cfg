SPECIFICATION Spec
CONSTANTS
    WORKERS = 3
    NAreas = 5
    Setups <- AllAreas
    Cols = 1
    PromptOpen = FALSE
    FaultKinds = {"start", "die"}
    MaxFaults = 2
INVARIANTS OneJobEach AtMostOnce OutIsFinal
CHECK_DEADLOCK FALSE
