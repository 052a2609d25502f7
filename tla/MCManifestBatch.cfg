SPECIFICATION FairSpec
CONSTANTS
    hero = hero
    lamp = lamp
    None = None
    Partial = Partial
    Rows = 4
    Asset <- MCAsset
    Ratio <- MCRatio
    Allowed = {"1:1", "3:4"}
    Fallback <- MCFallback
    Attempts = 2
    MaxFaults = 3
INVARIANTS
    FilesAreWhole
    LogMatchesDisk
    ZeroMeansDone
PROPERTIES
    BatchCompletes
