SPECIFICATION FairSpec
CONSTANTS
    v1 = v1
    again = again
    v2 = v2
    Runs = {v1, again, v2}
    Rows <- MCRows
    Assets <- MCAssets
    Categories = {"home", "garden"}
    Phones = {p1}
    Missing = Missing
    NoUse = NoUse
    MaxFaults = 1
INVARIANTS
    OneVersion
    UsesShownPhoto
PROPERTIES
    RegisterSpec
    RunsEnd
CHECK_DEADLOCK FALSE
