CHECK_DEADLOCK FALSE
SPECIFICATION FairSpec
CONSTANTS
    NTiles = 3
    NElts = 2
    Values = {1}
    Null = 0
    Junk = Junk
    Unwritten = Unwritten
    Minima = {1}
    Compressed = TRUE
    MaxFaults = 1
INVARIANTS TypeOK CacheAgrees FileCacheIndexed OneElementLeft AllFlushed
PROPERTIES LockHolds Implements FlushReturns
