SPECIFICATION FairSpec
CONSTANTS
    c1 = c1
    c2 = c2
    c3 = c3
    p1 = p1
    p2 = p2
    main = main
    other = other
    NoPin = NoPin
    NoCall = NoCall
    Calls = {c1, c2, c3}
    Pins = {p1, p2}
    PinOf <- MCPinOf
    ThreadOf <- MCThreadOf
    CreateFails = TRUE
    OpenFails = TRUE
INVARIANTS
    ServesOwnPin
PROPERTIES
    CallReturns
    EdgeServed
    ServiceSpec
CHECK_DEADLOCK FALSE
