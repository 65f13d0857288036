SPECIFICATION ExtSpec
CONSTANTS
    a = a
    b = b
    c = c
    d = d
    e = e
    f = f
    g = g
    h = h
    i = i
    j = j
    k = k
    l = l
    m = m
    NoNode = NoNode
    Nodes = {a, b, c, d, e, f, g, h, i, j, k, l, m}
    Text <- MCText
    PinBase <- MCPinBase
    NumPins <- MCNumPins
    Pins = {63, 64, 66, 70, 72, 74, 75, 78, 90, 248, 251, 255}
    Serial = TRUE
    IntMax = 255
    MaxCalls = 3
INVARIANTS
    PinsOwnedOnce
    SetupReachable
    RefusedLeavesNone
    LoadedWorks
CHECK_DEADLOCK FALSE
