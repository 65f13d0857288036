SPECIFICATION FairSpec
CONSTANTS
    Clients = {c1, c2}
    Requests <- MCRequests
    Indices <- MCIndices
    MaxCommands = 2
    MaxPresses = 1
INVARIANTS
    AskerTold
    AsAsked
PROPERTIES
    ClientClosed
CHECK_DEADLOCK FALSE
