SPECIFICATION RestartSpec
CONSTANTS
    Keys = {k1}
    Tokens = {t1}
    Calls = {c1}
    NoToken = NoToken
    NoCall = NoCall
    MaxPending = 2
    MaxBuffered = 1
    TimersMayFail = FALSE
    MaxCalls = 1
    MaxGeneration = 4
    MaxRequests = 0
PROPERTY CrashRestarts
CHECK_DEADLOCK FALSE
