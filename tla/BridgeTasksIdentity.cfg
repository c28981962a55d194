SPECIFICATION Spec
CONSTANTS
    Ids = {a, b}
    Anonymous = {}
    Keys = {k}
    Starts = {c1, c2}
    Fences = {f1}
    MaxRequests = 1
    MaxTasks = 2
    Attempts = {"completed", "confirmed", "rejected", "failed", "aborted", "unconfirmed"}
    None = None
SYMMETRY Symmetry
INVARIANTS
    OneTaskPerRequest FenceHolds CleanShutdown
CHECK_DEADLOCK FALSE
