\* Setting a peer on the device may fail.
SPECIFICATION Spec
CONSTANTS
    k1 = k1  k2 = k2  k3 = k3
    i1 = i1  i2 = i2  i3 = i3
    Keys = {k1, k2, k3}
    IPs = {i1, i2}
    PlainIPs = {}
    BadIPs = {}
    SelfKeys = {s1}
    None = None
    BadKeys = {}
    Lists <- StableLists
    Faults <- OnlySetPeer
INVARIANTS
    SuccessMeansApplied
