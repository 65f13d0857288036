SPECIFICATION FSpec
CONSTANTS
    Count = 2
    MayFail = {}
    Sizes <- MCSizes
    Lists <- MCLists
    Grants = {"same"}
    Degrees = {0, 90}
    PassRows = 4
    MaxFrames = 1
INVARIANTS
    GrayRight
