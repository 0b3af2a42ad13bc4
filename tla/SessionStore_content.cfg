SPECIFICATION Spec
CONSTANTS
    w1 = w1
    w2 = w2
    hA = hA
    hB = hB
    Worker <- MCWorker
    Sweeper = Sweeper
    Body <- MCBody
    None = None
    MaxSize = 2
    MaxRequests = 2
    MaxFails = 1
INVARIANTS ContentRowHasObject
CHECK_DEADLOCK FALSE
