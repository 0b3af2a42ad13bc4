SPECIFICATION FairSpec
CONSTANTS
    w1 = w1
    w2 = w2
    hA = hA
    hB = hB
    Worker <- MCWorker
    Sweeper = Sweeper
    Body <- MCOneBody
    None = None
    MaxSize = 3
    MaxRequests = 2
    MaxFails = 1
INVARIANTS TypeOK ArchiveRowHasObject
PROPERTIES OnlyCrossedShrinks DeletedIsPurged
CHECK_DEADLOCK FALSE
