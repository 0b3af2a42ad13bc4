SPECIFICATION FairSpec
CONSTANTS
    None = None
    MaxRecords = 3
    MaxRewrites = 0
    GuardWins = TRUE
    Window = 9
    BuildMax = 9
    InlineMax = 9
    MaxTries = 2
    MaxFaults = 2
    LateArrivals = TRUE
    MaxCrashes = 1
    MaxUpgrades = 0
INVARIANTS TypeOK SkipMeansDelivered SkipMeansArchived StoredInOrder
PROPERTIES EventuallyArchived
