\* Records of every shape the two parsers tell apart; k2 and k3 contend for a
\* network.
SPECIFICATION Spec
CONSTANTS
    k1 = k1  k2 = k2  k3 = k3
    Keys = {k1, k2, k3}
    Records <- MCRecords
    Absent = Absent
    Junk = Junk
    None = None
    ULongs = 1048576
    MaxTroubles = 1
INVARIANTS
    RecordTypeOK
    NoStrayRoutes
    RoutedAsOwned
    EndpointAsWritten
    DeviceAsListed
