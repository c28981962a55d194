SPECIFICATION FairSpec
CONSTANTS
    EventLimit = 2
    SubscriberSize = 2
    WireSize = 1
    MaxEvents = 8
    MaxCuts = 3
INVARIANTS
    NeverMisled LossIsMarked
PROPERTY Completes
CHECK_DEADLOCK FALSE
