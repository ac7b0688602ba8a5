\* One peer, and nothing fails.
SPECIFICATION MacSpec
CONSTANTS
    k1 = k1  k2 = k2  k3 = k3
    i1 = i1  i2 = i2
    Keys = {k1}
    IPs = {i1}
    PlainIPs = {}
    BadIPs = {}
    SelfKeys = {s1}
    None = None
    BadKeys = {}
    Lists <- OneList
    Faults <- NoFaults
    MacFaults <- NoFaults
INVARIANTS
    VpnUpAppliesPeers
