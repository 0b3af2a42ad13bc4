SPECIFICATION FairSpec
CONSTANTS
    None = None
    MaxRecords = 3
    MaxRewrites = 0
    GuardWins = TRUE
    Window = 1
    BuildMax = 0
    InlineMax = 1
    MaxTries = 2
    MaxFaults = 1
    LateArrivals = FALSE
    MaxCrashes = 1
    MaxUpgrades = 1
INVARIANTS SkipMeansDelivered StoredInOrder
PROPERTIES ImplementsDelivery
