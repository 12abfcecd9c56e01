SPECIFICATION Spec
CONSTANTS
    NRows = 3
    NCols = 1
    SRows = 1
    SCols = 1
    NSeg = 2
    Values = {0, 1}
    Zero = 0
    Junk = Junk
    NoWrite = NoWrite
    FaultKinds = {"evict", "read", "flush", "row"}
    MaxFaults = 2
    MaxAge = 4
INVARIANTS TypeOK OneSlotPerSegment
