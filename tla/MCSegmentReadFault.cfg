SPECIFICATION ClientSpec
CONSTANTS
    NRows = 2
    NCols = 1
    SRows = 1
    SCols = 1
    NSeg = 1
    Values = {0, 1}
    Zero = 0
    Junk = Junk
    NoWrite = NoWrite
    FaultKinds = {"read"}
    MaxFaults = 1
    MaxAge = 2
INVARIANT ReturnsReadValues
