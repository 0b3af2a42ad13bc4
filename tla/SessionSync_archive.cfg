SPECIFICATION Spec
CONSTANTS
    None = None
    MaxRecords = 3
    MaxRewrites = 0
    GuardWins = FALSE
    Window = 9
    BuildMax = 9
    InlineMax = 1
    MaxTries = 2
    MaxFaults = 1
    LateArrivals = FALSE
    MaxCrashes = 0
    MaxUpgrades = 0
INVARIANTS SkipMeansArchived
