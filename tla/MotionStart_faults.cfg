SPECIFICATION Spec
CONSTANTS
    Count = 4
    MayFail = {"open", "capability", "mmap", "qbuf", "thread"}
INVARIANTS
    ErrorPathSafe
