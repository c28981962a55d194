SPECIFICATION Spec
CONSTANTS
    Keys = {k1}
    Tokens = {t1, t2}
    Calls = {c1, c2}
    NoToken = NoToken
    NoCall = NoCall
    MaxPending = 2
    MaxBuffered = 1
    TimersMayFail = FALSE
    MaxCalls = 3
    MaxGeneration = 3
    MaxRequests = 0
SYMMETRY Symmetry
INVARIANTS
    OneWorker NoOrphan CurrentCredential SnapshotHonest
PROPERTY ImplementsSlots
CHECK_DEADLOCK FALSE
