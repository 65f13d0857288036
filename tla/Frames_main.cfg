SPECIFICATION FSpec
CONSTANTS
    Count = 2
    MayFail = {"malloc", "open", "capability", "input", "format", "controls", "reqbufs", "query", "mmap", "qbuf", "streamon", "thread"}
    Sizes <- MCSizes
    Lists <- MCLists
    Grants = {"same", "half", "double", "three_to_two", "fourfold"}
    Degrees = {0, 90, 180, 270}
    PassRows = 4
    MaxFrames = 1
INVARIANTS
    StartsCapture
    FrameRight
    ReadsInside
