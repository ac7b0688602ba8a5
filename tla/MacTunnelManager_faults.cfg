\* Every command may fail; an address passes from peer to peer, and a peer has
\* an address that no command takes.
SPECIFICATION MacSpec
CONSTANTS
    k1 = k1  k2 = k2  k3 = k3
    i1 = i1  i2 = i2
    Keys = {k1, k2, k3}
    IPs = {i1, i2}
    PlainIPs = {}
    BadIPs = {i2}
    SelfKeys = {s1, s2}
    None = None
    BadKeys = {}
    Lists <- MovingLists
    Faults <- NoFaults
    MacFaults <- AllMacFaults
INVARIANTS
    MacTypeOK
    MacKeysAgree
    MacNoLeftoverPeers
    MacCarried
    FileForgetsPeers
PROPERTIES
    MacImplementsPeerSync
