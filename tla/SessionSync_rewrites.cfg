SPECIFICATION Spec
CONSTANTS
    None = None
    MaxRecords = 4
    MaxRewrites = 1
    GuardWins = TRUE
    Window = 9
    BuildMax = 9
    InlineMax = 9
    MaxTries = 2
    MaxFaults = 1
    LateArrivals = FALSE
    MaxCrashes = 0
    MaxUpgrades = 0
INVARIANTS SkipMeansDelivered SkipMeansArchived
PROPERTIES StoredIsKept
