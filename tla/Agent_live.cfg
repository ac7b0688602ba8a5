\* Only the creation and the start of the link may fail; replies may be lost.
SPECIFICATION RoundsLiveSpec
CONSTANTS
    k1 = k1  k2 = k2  k3 = k3
    i0 = i0  i1 = i1  i2 = i2
    Keys = {k1, k2}
    IPs = {i0, i1, i2}
    PlainIPs = {}
    BadIPs = {}
    SelfKeys = {s1, s2}
    None = None
    BadKeys = {}
    NoView = NoView
    MaxEvents = 3
    Lists <- SharedLists
    Views <- SameAddress
    Faults <- CreateFaults
    AgentFaults <- ReplyFaults
INVARIANTS
    AgentTypeOK
    HashIsApplied
    OneRoundSuffices
PROPERTIES
    Converges
    StopFinishes
CHECK_DEADLOCK FALSE
