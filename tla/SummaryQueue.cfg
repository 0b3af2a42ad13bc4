SPECIFICATION FairSpec
CONSTANTS
    w1 = w1
    w2 = w2
    s1 = s1
    s2 = s2
    Sweep <- MCSweep
    Session <- MCSession
    None = None
    Batch = 2
    TickCap = 2
    Lanes = 1
    Timeout = 1
    Lease = 1
    Backoff = 2
    Window = 3
    MaxAttempts = 2
    Cap = 1
    Uncapped = 2
    MaxAge = 5
    MaxFails = 1
    MaxChanges = 1
INVARIANTS TypeOK SweepWithinBudget
PROPERTIES OnlyOverdueDoubled GeneratedIsKept NothingStrands
