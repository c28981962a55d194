SPECIFICATION Spec
CONSTANTS
    Runtimes = {a, b}
    MaxFault = 1
    MaxSession = 2
    MaxCall = 2
    MaxMark = 1
    Requests = {1}
SYMMETRY RuntimeSymmetry
INVARIANTS
    OneBindingPerProvider RetryOnce
PROPERTIES
    KeepsWorking BoundMeansServing StaleIsSilent
CHECK_DEADLOCK FALSE
