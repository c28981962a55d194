SPECIFICATION FairSpec
CONSTANTS
    Keys = {k1}
    Tokens = {t1}
    Calls = {c1, c2}
    NoToken = NoToken
    NoCall = NoCall
    MaxPending = 2
    MaxBuffered = 1
    TimersMayFail = TRUE
    MaxCalls = 3
    MaxGeneration = 1
    MaxRequests = 2
INVARIANT RequestsAccounted
PROPERTIES AllSettle SilentWorkerReplaced DisposeReaps
CHECK_DEADLOCK FALSE
