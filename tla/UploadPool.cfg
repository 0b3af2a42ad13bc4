SPECIFICATION FairSpec
CONSTANTS
    N = 3
    Small = 1
    Large = 4
    MaxItems = 2
    MaxBatchBytes = 2
    MaxAppendBytes = 4
    MaxInflight = 2
    MaxBytes = 3
    NoBatch = NoBatch
    MaxFails = 2
INVARIANTS TypeOK OnlyOverlookedDropped LoadIsBounded DoneMeansDelivered
PROPERTIES WalkEnds
CHECK_DEADLOCK FALSE
