SPECIFICATION FairSpec
CONSTANTS
    Runtimes = {a}
    MaxFault = 0
    MaxSession = 1
    MaxCall = 3
    MaxMark = 0
    Requests = {}
PROPERTY
    CancelReturns
CHECK_DEADLOCK FALSE
