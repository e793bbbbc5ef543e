SPECIFICATION Spec
CONSTANTS
    Files <- MCFiles
    Usage = {10, 90, 95}
    MaxSamples = 6
INVARIANTS
    AverageIsPreBoost
    DeferralLoggedOnce
PROPERTIES
    BoostJustified
    RevertJustified
