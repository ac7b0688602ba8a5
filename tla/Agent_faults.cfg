\* Everything may fail, and a list may hold what no device takes.
SPECIFICATION AgentSpec
CONSTANTS
    k1 = k1  k2 = k2  k3 = k3
    i0 = i0  i1 = i1  i2 = i2
    Keys = {k1, k2, k3}
    IPs = {i0, i1, i2}
    PlainIPs = {i0}
    BadIPs = {i2}
    SelfKeys = {s1, s2}
    None = None
    BadKeys = {k3}
    NoView = NoView
    MaxEvents = 2
    Lists <- TroubledLists
    Views <- NewAddress
    Faults <- AllFaults
    AgentFaults <- AllAgentFaults
INVARIANTS
    KeysAgree
    UniquePeerKeys
PROPERTIES
    CallsInOrder
    KeepsWantedPeers
CHECK_DEADLOCK FALSE
