SPECIFICATION ClientSpec
CONSTANTS
    NRows = 1
    NCols = 5
    SRows = 1
    SCols = 2
    NSeg = 2
    Values = {0, 1}
    Zero = 0
    Junk = Junk
    NoWrite = NoWrite
    FaultKinds = {"evict", "row"}
    MaxFaults = 1
    MaxAge = 3
INVARIANTS CleanSlotsMatchFile FlushedFileIsWhole
PROPERTIES ImplementsMatrix LastSelectedIsKept
