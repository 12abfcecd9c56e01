SPECIFICATION System
CONSTANTS
    NRows = 5
    NullRowsInMem = 2
    MaxPuts = 6
    FaultKinds = {"row", "null", "openNull", "moveNull", "pointers", "format", "moveData", "read"}
    MaxFaults = 2
    RowMaps <- SomeRowMaps
    ReadFrom = {"closed"}
    MaxReads = 3
INVARIANTS TypeOK NullsBelongToRows CommittedFilesAreWhole NewDataNeverOldNulls HeaderComesLast ReadsWhatWasPut
CHECK_DEADLOCK FALSE
