SPECIFICATION FairSpec
CONSTANTS
    p1 = p1
    p2 = p2
    r1 = r1
    r2 = r2
    a = a
    Proc <- MCProc
    Row <- MCRow
    Value <- MCValue
    NoRow = NoRow
    MaxEdits = 3
    MaxFails = 1
    MaxCrashes = 1
INVARIANTS TypeOK CurrentCacheIsDisk
PROPERTIES OthersRowsKept EditIsWritten CachesConverge
