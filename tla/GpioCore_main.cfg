SPECIFICATION GpioSpec
CONSTANTS
    Threads = {"t1", "t2"}
    Main = "t1"
    Boards <- MCBoards
    Kinds = {"pins", "gpio", "phys", "sys"}
    Gpios <- MCGpios
    OwnerOf <- MCOwnerOf
    Modes = {"OUTPUT", "PWM_OUTPUT", "PWM_TONE_OUTPUT", "GPIO_CLOCK"}
    Alts = {3}
    Pulls = {2}
    Bytes = {{1, 7}, {1}}
    ToneFreqs = {440}
    Exported = {18}
    MayFail = TRUE
    ReturnCodes = FALSE
    Serial = TRUE
    MaxCalls <- MCMaxCalls
INVARIANTS
    LevelAsWritten
    SettingsAsAsked
PROPERTIES
    NoGlitch
    DivisorWhenStopped
CHECK_DEADLOCK FALSE
