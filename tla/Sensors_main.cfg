SPECIFICATION Spec
CONSTANTS
    Threads = {t1, t2}
    Kinds = {"ads1115", "mcp3422", "pcf8591", "mcp3002", "mcp3004", "max31855", "bmp180", "htu21d", "ds18b20", "rht03", "sn3218", "mcp4802"}
    Bases = {64, 101}
    MaxCalls = 2
    MaxFaults = 1
    MaxTries = 2
INVARIANTS
    FreshReading
    OutputAsWritten
CHECK_DEADLOCK FALSE
