SPECIFICATION FairLoopSpec
CONSTANTS
    Count = 2
    Faults = {"eio_kept", "eio_next", "eio_other", "stopped", "error", "corrupt", "clock"}
    MaxFaults = 2
    BlockedSignals = {"SIGTERM"}
    CallerMask = {}
    Frames = 2
    Retry = 2
    Modes = {"cap", "run"}
INVARIANTS
    NoBufferLost
    FreshUnlessFaulty
    DetectsWholeFrame
PROPERTIES
    FramesKeepComing
    RoundsEnd
