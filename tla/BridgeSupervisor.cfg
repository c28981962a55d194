SPECIFICATION FairSpec
CONSTANTS
    Proc = {p1, p2}
    MaxQueue = 2
    None = None
INVARIANTS
    DiskNamesOne RunningIsNamed SingleBridge
PROPERTIES
    RegistrySpec IdentityRemoved
