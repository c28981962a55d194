SPECIFICATION Spec
CONSTANTS
    p1 = p1  p2 = p2  n1 = n1  n2 = n2
    Runtimes = {r1, r2}
    Providers = {p1, p2}
    Nodes = {n1, n2}
    ProviderOf <- MCProviderOf
    Refs = {a, b, c}
    Ids = {i1, i2}
    NoNode = NoNode
    NoRef = NoRef
    NoOwner = NoOwner
    NoBinding = NoBinding
    Missing = Missing
    MaxBindings = 2
    Unreadable = {"state", "credentials", "config"}
    SyncMayFail = FALSE
SYMMETRY Symmetry
INVARIANTS Openable EnabledHasCredential IdentityStable
PROPERTY ImplementsTable
CHECK_DEADLOCK FALSE
