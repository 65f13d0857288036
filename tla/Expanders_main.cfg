SPECIFICATION Spec
CONSTANTS
    t1 = t1
    t2 = t2
    Threads = {t1, t2}
    Left = {{0}}
    Kinds = {"mcp23008", "mcp23017", "mcp23s08", "mcp23s17", "mcp23016", "pcf8574", "sr595"}
    Top = 1
    MaxFaults = 1
    MaxCalls = 3
SYMMETRY Symmetry
INVARIANTS
    OutputsAsWritten
    SettingsAsAsked
PROPERTIES
    OneOutputAtATime
CHECK_DEADLOCK FALSE
