CHECK_DEADLOCK FALSE
SPECIFICATION Spec
CONSTANTS
    NTiles = 2
    NElts = 1
    Values = {1}
    Null = 0
    Junk = Junk
    Unwritten = Unwritten
    Minima = {1}
    Compressed = FALSE
    MaxFaults = 0
PROPERTY ReadBackIsWritten
