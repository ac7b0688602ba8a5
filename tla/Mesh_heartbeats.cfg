\* Agents start, die, and one of them may be late by a second; the server is
\* restarted once.
SPECIFICATION TimedLiveSpec
CONSTANTS
    a1 = a1  a2 = a2
    Agents = {a1, a2}
    Ttl = 2
    NoView = NoView
    MaxLag = 1
    MaxDelays = 1
    MaxRestarts = 1
INVARIANTS
    PlaneTypeOK
    AddressesUnique
    OctetsSuffice
    KeepAlive
    LinksMatchStore
    ArrivalsInTime
    DeparturesInTime
PROPERTIES
    KeepsAddress
    SendsFreshPeers
    ImplementsRegistry
    MeshConverges
