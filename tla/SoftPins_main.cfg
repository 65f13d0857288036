SPECIFICATION FairSpec
CONSTANTS
    a = a
    b = b
    p = p
    q = q
    t = t
    u = u
    NoPin = NoPin
    NoThread = NoThread
    Callers = {a}
    Makers = {a}
    Pins = {p, q}
    Threads = {t, u}
    InitialValues = {0}
    Values = {3}
    Ranges = {2}
    SysModes <- MCBothModes
INVARIANTS
    OneDriver
    HandleNamesDriver
    StoppedIsQuiet
PROPERTIES
    CallReturns
