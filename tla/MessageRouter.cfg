SPECIFICATION Spec
CONSTANTS
    Plain = {1}
    Reads = {2}
    Mutations = {}
    Stops = {3}
    MaxDelivery = 3
    MaxWaiting = 1
    MaxDisposal = 1
    MaxCrash = 1
    MaxFault = 1
    MaxLost = 1
    MaxFailure = 1
INVARIANTS
    NotSwallowed OneHandlerPerLane NoStrayTask NeverStuck
PROPERTIES
    ActedOnce
CHECK_DEADLOCK FALSE
