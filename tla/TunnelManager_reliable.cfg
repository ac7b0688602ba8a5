\* Only the creation and the start of the link may fail, and the control plane
\* keeps its contract; the process may die at any step.
SPECIFICATION Spec
CONSTANTS
    k1 = k1  k2 = k2  k3 = k3
    i1 = i1  i2 = i2  i3 = i3
    Keys = {k1, k2, k3}
    IPs = {i1, i2}
    PlainIPs = {}
    BadIPs = {}
    SelfKeys = {s1, s2}
    None = None
    BadKeys = {}
    Lists <- StableLists
    Faults <- CreateFaults
INVARIANTS
    TypeOK
    NoLeftoverPeers
    NoMissingPeers
    Carried
    NoOrphanRoutes
    SuccessMeansApplied
PROPERTIES
    ImplementsPeerSync
