SPECIFICATION FairSpec
CONSTANTS
    Tables = {t1}
    Rows = {r1}
    MaxDrivers = 2
    MaxCalls = 5
    MaxFaults = 1
INVARIANTS TypeOK InSync CursorsFound FilesKept
PROPERTIES CallsReturn DriversEnd
CHECK_DEADLOCK FALSE
