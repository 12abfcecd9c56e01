SPECIFICATION Spec
CONSTANTS
    NRows = 5
    NullRowsInMem = 2
    MaxPuts = 5
    FaultKinds = {"null"}
    MaxFaults = 1
INVARIANT RowsHaveTheirNulls
CHECK_DEADLOCK FALSE
