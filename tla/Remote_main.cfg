SPECIFICATION RemoteSpec
CONSTANTS
    Threads = {t1, t2}
    Links = {"serial", "net"}
    Modes = {"OUTPUT", "PWM_OUTPUT", "INPUT"}
    MaxCalls = 2
    MaxTries = 4
INVARIANTS
    AnswersOwn
    LagIsLate
    PinAsAsked
PROPERTIES
    CallReturns
CHECK_DEADLOCK FALSE
