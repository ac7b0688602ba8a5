-------------------------- MODULE PeerRecord_proofs --------------------------
(***************************************************************************)
(* Proofs about PeerRecord, for all keys and all records the control plane *)
(* may send: what the two parsers make of an entry, and what the device    *)
(* and the routes hold after any sequence of additions and removals.       *)
(***************************************************************************)
EXTENDS PeerRecord, TLAPS

----------------------------------------------------------------------------
(* One entry *)

LEMMA EntryFacts ==
    ASSUME NEW k \in Keys, NEW r \in Records[k]
    PROVE  /\ r.ips \in Seq(Entry)
           /\ Len(r.ips) \in Nat
           /\ r.endpoint \in Endpoint \cup {None, Junk}
           /\ r # None
           /\ Entries(r) \subseteq Entry
           /\ \A e \in Entries(r) :
                 e.family \in Families => e.bits \subseteq 0..(Width[e.family] - 1)
BY RecordsAssumption, TextAssumption DEF Record, Entries

LEMMA WidthValues == Width["v4"] = 32 /\ Width["v6"] = 128
BY DEF Width, Families

\* What an entry needs for the lemmas below.
Sound(e) ==
    /\ e \in Entry
    /\ e.family \in Families => e.bits \subseteq 0..(Width[e.family] - 1)

\* What an endpoint is parsed to, and that one without a flaw is parsed.
LEMMA ParsedAsWritten ==
    ASSUME NEW t
    PROVE  /\ \A x \in ParsedEndpoint(t) : x \in Sockets /\ Written(t, x)
           /\ Clear(t) => ParsedEndpoint(t) = {[host |-> t.host, port |-> t.port]}
<1>1. ASSUME NEW x \in ParsedEndpoint(t)
      PROVE  x \in Sockets /\ Written(t, x)
  <2>1. /\ t \in Endpoint /\ t.host # "none"
        /\ t.port \in Numbers /\ Unsigned(t.port) \in Ports
        /\ x = Address(t)
    BY <1>1 DEF ParsedEndpoint
  <2>2. t.host \in Families /\ t.port \in Int
    BY <2>1, NumbersAssumption DEF Endpoint, Numbers
  <2>3. Unsigned(t.port) = t.port \/ (t.port < 0 /\ Unsigned(t.port) = t.port + ULongs)
    BY DEF Unsigned
  <2> QED BY <2>1, <2>2, <2>3 DEF Address, Sockets, Written
<1>2. ASSUME Clear(t)
      PROVE  ParsedEndpoint(t) = {[host |-> t.host, port |-> t.port]}
  <2>1. /\ t \in Endpoint /\ t.host # "none" /\ t.brackets # "stray"
        /\ t.port \in Ports
    BY <1>2 DEF Clear
  <2>2. ASSUME NEW p \in Ports
        PROVE  p \in Numbers /\ Unsigned(p) = p
    BY NumbersAssumption DEF Ports, Numbers, Unsigned
  <2> QED BY <2>1, <2>2 DEF ParsedEndpoint, Address
<1> QED BY <1>1, <1>2

\* The mask that goes byte by byte is the mask of the prefix.
LEMMA ByteMaskIsPrefix ==
    ASSUME NEW bits \in SUBSET (0..127), NEW n \in 0..128
    PROVE  ByteMask(bits, n) = {b \in bits : b < n}
<1>1. ASSUME NEW b \in bits
      PROVE  b < n <=> LET first == 8 * (b \div 8) IN
                         first + 8 <= n \/ (first < n /\ b - first < n - first)
  <2>1. b \in Nat /\ b \div 8 \in Nat
    OBVIOUS
  <2>2. 8 * (b \div 8) <= b /\ b < 8 * (b \div 8) + 8
    BY <2>1
  <2> QED BY <2>1, <2>2
<1> QED BY <1>1 DEF ByteMask

\* So is the one by the shift of a word, but for a shift by all of it.
LEMMA WordMaskIsPrefix ==
    ASSUME NEW bits \in SUBSET (0..31), NEW n \in 0..32,
           n # 0 \/ build # "wraps" \/ bits = {}
    PROVE  WordMask(bits, n) = {b \in bits : b < n}
<1> DEFINE shift == IF build = "wraps" THEN (32 - n) % 32 ELSE 32 - n
<1>1. WordMask(bits, n) = {b \in bits : n < 32 => 31 - b >= shift}
  BY DEF WordMask
<1>2. n # 0 => (32 - n) % 32 = 32 - n
  OBVIOUS
<1>3. bits = {} \/ shift = 32 - n
  BY <1>2
<1>4. ASSUME NEW b \in bits, shift = 32 - n
      PROVE  (n < 32 => 31 - b >= shift) <=> b < n
  <2> HIDE DEF shift
  <2> QED BY <1>4
<1> HIDE DEF shift
<1> QED BY <1>1, <1>3, <1>4

LEMMA MaskIsPart ==
    ASSUME NEW e, Sound(e), ParsesForRoute(e)
    PROVE  RouteNetwork(e).net \subseteq e.bits
BY DEF RouteNetwork, WordMask, ByteMask

\* The length the device gets is the one that was written, when that is one
\* that 128 does not exceed.
LEMMA LengthKept ==
    ASSUME NEW e \in Entry, e.prefix \in 0..128
    PROVE  EightBits(e.prefix) = e.prefix /\ Length(e) = e.prefix /\ e.prefix # Absent
BY TextAssumption DEF EightBits, Length

\* What is routed for an entry is the network of its length, whatever 1u << 32
\* gives: a route that is masked otherwise is not one the kernel takes.
LEMMA RoutedNetwork ==
    ASSUME NEW e, Sound(e), ParsesForRoute(e), NEW x \in Routed(e)
    PROVE  /\ e.family \in Families /\ Length(e) \in 0..Width[e.family]
           /\ x = Network(e.family, Length(e), e.bits)
<1> DEFINE n == Length(e)
<1>1. /\ e.family \in Families /\ n \in 0..128 /\ n <= Width[e.family]
      /\ e.bits \subseteq 0..(Width[e.family] - 1)
  BY DEF ParsesForRoute, Sound, Entry
<1>2. SUFFICES x = Network(e.family, n, e.bits)
  BY <1>1, WidthValues DEF Families
<1>3. /\ x = Network(e.family, n, RouteNetwork(e).net)
      /\ e.family = "v4" => x.net = RouteNetwork(e).net
  BY <1>1 DEF Routed
<1>4. /\ e.family = "v6" => RouteNetwork(e).net = ByteMask(e.bits, n)
      /\ e.family = "v4" => RouteNetwork(e).net = WordMask(e.bits, n)
  BY DEF RouteNetwork
<1> HIDE DEF n
<1>5. CASE e.family = "v6"
  <2>1. e.bits \in SUBSET (0..127)
    BY <1>1, <1>5, WidthValues
  <2>2. RouteNetwork(e).net = {b \in e.bits : b < n}
    BY <1>1, <1>4, <1>5, <2>1, ByteMaskIsPrefix
  <2> QED BY <1>3, <2>2 DEF Network
<1>6. CASE e.family = "v4"
  <2>1. e.bits \in SUBSET (0..31) /\ n \in 0..32
    BY <1>1, <1>6, WidthValues
  <2>2. CASE n # 0
    <3>1. RouteNetwork(e).net = {b \in e.bits : b < n}
      BY <1>4, <1>6, <2>1, <2>2, WordMaskIsPrefix
    <3> QED BY <1>3, <3>1 DEF Network
  <2>3. CASE n = 0
    <3>1. RouteNetwork(e).net \subseteq e.bits
      BY MaskIsPart
    <3>2. \A b \in e.bits : ~(b < n)
      BY <2>1, <2>3
    <3>3. {b \in RouteNetwork(e).net : b < n} = {b \in e.bits : b < n}
      BY <3>1, <3>2
    <3> QED BY <1>3, <3>3 DEF Network
  <2> QED BY <2>2, <2>3
<1> QED BY <1>1, <1>5, <1>6 DEF Families

\* For an entry with a length it is the network the device has.
LEMMA RoutedIsOwned ==
    ASSUME NEW e, Sound(e), ParsesForRoute(e), ~RouteOnly(e), NEW x \in Routed(e)
    PROVE  ParsesForDevice(e) /\ x = DeviceNetwork(e)
<1>1. /\ e.family \in Families /\ e.prefix \in 0..128
      /\ Length(e) = e.prefix /\ EightBits(e.prefix) = e.prefix
      /\ e.prefix <= Width[e.family]
  BY LengthKept DEF ParsesForRoute, RouteOnly, Length, Sound, Entry
<1>2. ParsesForDevice(e)
  BY <1>1 DEF ParsesForDevice, RouteOnly, Families
<1> QED BY <1>1, <1>2, RoutedNetwork DEF DeviceNetwork

\* What the device has is routed, but for the text the parsers read apart.
LEMMA OwnedIsRouted ==
    ASSUME NEW e, Sound(e), ParsesForDevice(e), DeviceTakes(e),
           ~CutLength(e), ~DefaultRoute(e)
    PROVE  ParsesForRoute(e) /\ DeviceNetwork(e) \in Routed(e)
<1>1. /\ e.family \in Families /\ e.prefix \in 0..128
      /\ Length(e) = e.prefix /\ EightBits(e.prefix) = e.prefix
      /\ e.prefix <= Width[e.family]
  BY LengthKept DEF ParsesForDevice, DeviceTakes, CutLength, Sound, Entry
<1>2. ParsesForRoute(e)
  BY <1>1 DEF ParsesForRoute, Families
<1>3. RouteNetwork(e) = DeviceNetwork(e)
  <2>1. CASE e.family = "v6"
    <3>1. ByteMask(e.bits, e.prefix) = {b \in e.bits : b < e.prefix}
      BY <1>1, ByteMaskIsPrefix DEF Sound, Entry
    <3> QED BY <1>1, <2>1, <3>1 DEF RouteNetwork, DeviceNetwork, Network
  <2>2. CASE e.family = "v4"
    <3>1. e.bits \in SUBSET (0..31) /\ e.prefix \in 0..32
      BY <1>1, <2>2, WidthValues DEF Sound
    <3>2. e.prefix # 0 \/ build # "wraps" \/ e.bits = {}
      BY <2>2 DEF DefaultRoute
    <3>3. WordMask(e.bits, e.prefix) = {b \in e.bits : b < e.prefix}
      BY <3>1, <3>2, WordMaskIsPrefix
    <3> QED BY <1>1, <2>2, <3>3 DEF RouteNetwork, DeviceNetwork, Network
  <2> QED BY <1>1, <2>1, <2>2 DEF Families
<1>4. Network(e.family, Length(e), DeviceNetwork(e).net) = DeviceNetwork(e)
  BY <1>1 DEF DeviceNetwork, Network
<1> QED BY <1>2, <1>3, <1>4 DEF Routed

----------------------------------------------------------------------------
(* Types *)

LEMMA NetworkTyped ==
    ASSUME NEW f \in Families, NEW n \in 0..Width[f], NEW bits \in SUBSET (0..127)
    PROVE  Network(f, n, bits) \in Networks /\ Masked(Network(f, n, bits))
<1>1. n \in 0..128 /\ n <= Width[f]
  BY WidthValues DEF Families
<1> QED BY <1>1 DEF Network, Networks, Masked

LEMMA RoutesTyped ==
    ASSUME NEW S, \A e \in S : Sound(e), NEW x \in RoutesOf(S)
    PROVE  x \in Networks /\ Masked(x)
<1>1. PICK e \in S : ParsesForRoute(e) /\ x \in Routed(e)
  BY DEF RoutesOf
<1>2. e.bits \subseteq 0..127
  BY <1>1 DEF Sound, Entry
<1> QED BY <1>1, <1>2, RoutedNetwork, NetworkTyped

LEMMA OwnedTyped ==
    ASSUME NEW e, Sound(e), ParsesForDevice(e), DeviceTakes(e), e.prefix # Junk
    PROVE  DeviceNetwork(e) \in Networks /\ Masked(DeviceNetwork(e))
<1>1. e.prefix \in Int /\ e.family \in Families /\ e.bits \subseteq 0..127
  BY DEF ParsesForDevice, Sound, Entry
<1>2. EightBits(e.prefix) \in 0..Width[e.family]
  BY <1>1, WidthValues DEF EightBits, DeviceTakes, Families
<1> QED BY <1>1, <1>2, NetworkTyped DEF DeviceNetwork

LEMMA RecordSound ==
    ASSUME NEW k \in Keys, NEW r \in Records[k]
    PROVE  /\ \A e \in Entries(r) : Sound(e)
           /\ \A n \in 0..Len(r.ips) : ForDevice(r, n) \subseteq Entries(r)
           /\ Unrouted(r) \subseteq Entries(r)
           /\ ~Throws(r) => Unrouted(r) = Entries(r) /\ Readable(r) = Entries(r)
<1>1. \A e \in Entries(r) : Sound(e)
  BY EntryFacts DEF Sound
<1>2. DOMAIN r.ips = 1..Len(r.ips)
  BY EntryFacts
<1>3. \A n \in 0..Len(r.ips) : ForDevice(r, n) \subseteq Entries(r)
  BY <1>2, EntryFacts DEF ForDevice, Entries
<1>4. Unrouted(r) \subseteq Entries(r)
  BY DEF Unrouted
<1>5. ASSUME ~Throws(r)
      PROVE  Unrouted(r) = Entries(r) /\ Readable(r) = Entries(r)
  <2>1. \A i \in DOMAIN r.ips : r.ips[i].prefix # Junk
    BY <1>5 DEF Throws, Entries
  <2>2. ASSUME NEW i \in DOMAIN r.ips, NEW j \in 1..i
        PROVE  j \in DOMAIN r.ips
    BY <1>2, EntryFacts
  <2> QED BY <2>1, <2>2 DEF Unrouted, Entries, Readable
<1> QED BY <1>1, <1>3, <1>4, <1>5

\* The endpoint a peer has after an addition.
LEMMA EndpointGiven ==
    ASSUME NEW k, NEW r
    PROVE  /\ EndpointWith(k, r) # device[k].endpoint =>
                 EndpointWith(k, r) \in Sockets /\ Written(r.endpoint, EndpointWith(k, r))
           /\ Clear(r.endpoint) =>
                 EndpointWith(k, r) = [host |-> r.endpoint.host, port |-> r.endpoint.port]
<1>1. CASE ParsedEndpoint(r.endpoint) = {}
  BY <1>1, ParsedAsWritten DEF EndpointWith
<1>2. CASE ParsedEndpoint(r.endpoint) # {}
  <2>1. EndpointWith(k, r) \in ParsedEndpoint(r.endpoint)
    BY <1>2 DEF EndpointWith
  <2> QED BY <2>1, ParsedAsWritten
<1> QED BY <1>1, <1>2

Devices == [Keys -> [on : BOOLEAN, nets : SUBSET Networks, endpoint : Sockets \cup {None}]]

\* A device of the right type, with networks that are masked.
Sane(d) == d \in Devices /\ \A j \in Keys : \A x \in d[j].nets : Masked(x)

LEMMA GiveTyped ==
    ASSUME Sane(device), NEW k \in Keys, NEW r \in Records[k], ~Throws(r),
           NEW n \in 0..Len(r.ips), \A e \in ForDevice(r, n) : DeviceTakes(e)
    PROVE  Sane(Give(k, r, n))
<1> DEFINE nets == {DeviceNetwork(e) : e \in ForDevice(r, n)}
           ep == EndpointWith(k, r)
<1>1. nets \subseteq Networks /\ \A x \in nets : Masked(x)
  <2>1. ASSUME NEW e \in ForDevice(r, n)
        PROVE  DeviceNetwork(e) \in Networks /\ Masked(DeviceNetwork(e))
    <3>1. e \in Entries(r) /\ Sound(e)
      BY RecordSound
    <3>2. ParsesForDevice(e) /\ e.prefix # Junk
      BY <3>1 DEF ForDevice, Throws
    <3> QED BY <3>1, <3>2, OwnedTyped
  <2> QED BY <2>1
<1>2. ep \in Sockets \cup {None}
  BY EndpointGiven DEF Sane, Devices
<1>3. Give(k, r, n) = [j \in Keys |->
         IF j # k THEN [device[j] EXCEPT !.nets = @ \ nets]
         ELSE [on |-> TRUE, nets |-> nets, endpoint |-> ep]]
  BY DEF Give
<1> HIDE DEF nets, ep
<1>4. ASSUME NEW j \in Keys, j # k
      PROVE  /\ [device[j] EXCEPT !.nets = @ \ nets] \in
                    [on : BOOLEAN, nets : SUBSET Networks, endpoint : Sockets \cup {None}]
             /\ \A x \in [device[j] EXCEPT !.nets = @ \ nets].nets : Masked(x)
  BY DEF Sane, Devices
<1>5. [on |-> TRUE, nets |-> nets, endpoint |-> ep] \in
          [on : BOOLEAN, nets : SUBSET Networks, endpoint : Sockets \cup {None}]
  BY <1>1, <1>2
<1>6. Give(k, r, n) \in Devices
  BY <1>3, <1>4, <1>5 DEF Devices
<1>7. ASSUME NEW j \in Keys, NEW x \in Give(k, r, n)[j].nets
      PROVE  Masked(x)
  <2>1. CASE j = k
    BY <1>1, <1>3, <1>7, <2>1
  <2>2. CASE j # k
    BY <1>3, <1>4, <1>7, <2>2
  <2> QED BY <2>1, <2>2
<1> QED BY <1>6, <1>7 DEF Sane

----------------------------------------------------------------------------
(* The invariant *)

LEMMA InitInv == Init => RecordInv
BY NumbersAssumption
   DEF Init, RecordInv, RecordTypeOK, StrayInv, AddedInv, DeviceAsListed, EndpointAsWritten, Off

\* What the additions have in common, also the failed ones.
LEMMA AdditionFacts ==
    ASSUME NEW k \in Keys, NEW r \in Records[k],
           AddPeer(k, r) \/ AddFails(k, r) \/ AddRefused(k, r)
    PROVE  /\ Listed(k, r)
           /\ \/ device' = device /\ added' = added \ {k} /\ routes' = routes
              \/ /\ ~Throws(r)
                 /\ \E n \in 0..Len(r.ips) :
                       /\ device' = Give(k, r, n)
                       /\ \A e \in ForDevice(r, n) : DeviceTakes(e)
                 /\ \/ added' = added \ {k} /\ routes' = routes
                    \/ added' = added \cup {k} /\ routes' = routes \cup RoutesOf(Entries(r))
<1>1. Len(r.ips) \in Nat
  BY EntryFacts
<1>2. CASE AddPeer(k, r)
  BY <1>1, <1>2 DEF AddPeer
<1>3. CASE AddFails(k, r)
  BY <1>3 DEF AddFails, AdditionEnds
<1>4. CASE AddRefused(k, r)
  <2>1. PICK n \in 0..(Len(r.ips) - 1) :
           /\ \A e \in ForDevice(r, n) : DeviceTakes(e)
           /\ \E m \in 0..n : device' = Give(k, r, m)
    BY <1>4 DEF AddRefused
  <2>2. PICK m \in 0..n : device' = Give(k, r, m)
    BY <2>1
  <2>3. m \in 0..Len(r.ips) /\ ForDevice(r, m) \subseteq ForDevice(r, n)
    BY <1>1 DEF ForDevice
  <2>4. \E q \in 0..Len(r.ips) :
           device' = Give(k, r, q) /\ \A e \in ForDevice(r, q) : DeviceTakes(e)
    BY <2>1, <2>2, <2>3
  <2> QED BY <1>4, <2>4 DEF AddRefused, AdditionEnds
<1> QED BY <1>2, <1>3, <1>4

\* The list, and what of the record that was there before is still accounted
\* for.
LEMMA ListedFacts ==
    ASSUME RecordTypeOK, NEW k \in Keys, NEW r \in Records[k], Listed(k, r)
    PROVE  /\ DOMAIN list' = Keys /\ list'[k] = r /\ r # None
           /\ \A j \in Keys \ {k} : list'[j] = list[j] /\ former'[j] = former[j]
           /\ former'[k] = former[k] \cup ({list[k]} \ {None})
           /\ DOMAIN former' = Keys
           /\ list[k] # None => k \in added
           /\ astray' = astray \cup (IF list[k] = None THEN {}
                                     ELSE routes \cap RoutesOf(Entries(list[k])))
           /\ troubles' \in 0..MaxTroubles
<1>1. r # None /\ None \notin Records[k]
  BY EntryFacts
<1>2. CASE list[k] = None /\ UNCHANGED history
  BY <1>1, <1>2 DEF Listed, RecordTypeOK, history
<1>3. CASE k \in fresh /\ LeftBehind(k)
  BY <1>1, <1>3, NumbersAssumption DEF Listed, RecordTypeOK, LeftBehind
<1> QED BY <1>2, <1>3 DEF Listed

LEMMA UnlistedFacts ==
    ASSUME RecordTypeOK, NEW k \in Keys, Unlisted(k)
    PROVE  /\ DOMAIN list' = Keys /\ list'[k] = None /\ list[k] \in Records[k]
           /\ \A j \in Keys \ {k} : list'[j] = list[j]
           /\ added' = added \ {k} /\ fresh' = {} /\ build' = build
BY DEF Unlisted, RecordTypeOK

LEMMA LeftBehindFacts ==
    ASSUME RecordTypeOK, NEW k \in Keys, list[k] \in Records[k], LeftBehind(k)
    PROVE  /\ DOMAIN former' = Keys /\ former'[k] = former[k] \cup {list[k]}
           /\ \A j \in Keys \ {k} : former'[j] = former[j]
           /\ astray' = astray \cup (routes \cap RoutesOf(Entries(list[k])))
           /\ troubles' \in 0..MaxTroubles
BY NumbersAssumption DEF LeftBehind, RecordTypeOK

LEMMA TypeStep == RecordTypeOK /\ [Next]_vars => RecordTypeOK'
<1> SUFFICES ASSUME RecordTypeOK, [Next]_vars PROVE RecordTypeOK'
  OBVIOUS
<1>0. Sane(device)
  BY DEF Sane, Devices, RecordTypeOK
<1>1. ASSUME NEW k \in Keys, NEW r \in Records[k],
             AddPeer(k, r) \/ AddFails(k, r) \/ AddRefused(k, r)
      PROVE  RecordTypeOK'
  <2>1. Sane(device)'
    BY <1>0, <1>1, AdditionFacts, GiveTyped DEF Sane
  <2>2. routes' \subseteq Networks /\ \A x \in routes' : Masked(x)
    BY <1>1, AdditionFacts, RoutesTyped, RecordSound DEF RecordTypeOK
  <2>3. /\ DOMAIN list' = Keys /\ DOMAIN former' = Keys
        /\ \A j \in Keys : list'[j] \in Records[j] \cup {None}
        /\ \A j \in Keys : former'[j] \subseteq Records[j]
    BY <1>1, AdditionFacts, ListedFacts DEF RecordTypeOK
  <2>4. fresh' \subseteq added' /\ added' \subseteq {j \in Keys : list'[j] # None}
    BY <1>1, AdditionFacts, ListedFacts
       DEF RecordTypeOK, AddPeer, AddFails, AddRefused, AdditionEnds
  <2>5. astray' \subseteq routes' /\ troubles' \in 0..MaxTroubles
    BY <1>1, AdditionFacts, ListedFacts DEF RecordTypeOK
  <2>6. build' \in {"wraps", "zero"}
    BY <1>1 DEF RecordTypeOK, AddPeer, AddFails, AddRefused, AdditionEnds
  <2> QED BY <2>1, <2>2, <2>3, <2>4, <2>5, <2>6 DEF RecordTypeOK, Sane, Devices, Masked
<1>2. ASSUME NEW k \in Keys, Unlisted(k),
             \/ device' = device
             \/ device' = [device EXCEPT ![k] = Off],
             routes' \subseteq routes, astray' \subseteq routes',
             DOMAIN former' = Keys, troubles' \in 0..MaxTroubles,
             \A j \in Keys : former'[j] \subseteq Records[j]
      PROVE  RecordTypeOK'
  <2>1. Off \in [on : BOOLEAN, nets : SUBSET Networks, endpoint : Sockets \cup {None}]
        /\ Off.nets = {}
    BY DEF Off
  <2>2. Sane(device)'
    BY <1>0, <1>2, <2>1 DEF Sane, Devices
  <2> QED BY <1>2, <2>2, UnlistedFacts DEF RecordTypeOK, Sane, Devices, Masked
<1>3. ASSUME NEW k \in Keys, RemovePeer(k)
      PROVE  RecordTypeOK'
  BY <1>2, <1>3 DEF RemovePeer, RecordTypeOK
<1>4. ASSUME NEW k \in Keys, RemoveFails(k)
      PROVE  RecordTypeOK'
  BY <1>2, <1>4, UnlistedFacts, LeftBehindFacts DEF RemoveFails, RecordTypeOK
<1>5. CASE UNCHANGED vars
  BY <1>5 DEF vars, history, RecordTypeOK, Masked
<1> QED BY <1>1, <1>3, <1>4, <1>5 DEF Next

\* The build does not change while the agent runs, and with it what is routed.
LEMMA SameRoutes == build' = build => \A S : RoutesOf(S)' = RoutesOf(S)
BY DEF RoutesOf, Routed, RouteNetwork, WordMask, ByteMask, Network, ParsesForRoute, Length

LEMMA SameBuild == [Next]_vars => build' = build
BY DEF Next, vars, AddPeer, AddFails, AddRefused, AdditionEnds, RemovePeer, RemoveFails, Unlisted

LEMMA StillNamed ==
    ASSUME build' = build, NEW j \in Keys, list'[j] = list[j], NEW x,
           NamedBy(x, j), ~Throws(list[j])
    PROVE  NamedBy(x, j)' /\ ~Throws(list[j])'
BY SameRoutes DEF NamedBy, Throws, Entries

\* A route stays accounted for when one record leaves the list and the routes
\* that only it names are astray from then on.
LEMMA StrayKept ==
    ASSUME StrayInv, build' = build, NEW k \in Keys, NEW x \in routes,
           \A j \in Keys \ {k} : list'[j] = list[j],
           x \in astray => x \in astray',
           NamedBy(x, k) /\ ~Throws(list[k]) => x \in astray'
    PROVE  x \in astray' \/ \E j \in Keys : NamedBy(x, j)' /\ ~Throws(list[j])'
<1>1. CASE x \in astray
  BY <1>1
<1>2. CASE x \notin astray
  <2>1. PICK j \in Keys : NamedBy(x, j) /\ ~Throws(list[j])
    BY <1>2 DEF StrayInv
  <2> QED BY <2>1, StillNamed
<1> QED BY <1>1, <1>2

LEMMA StrayStep == RecordTypeOK /\ StrayInv /\ [Next]_vars => StrayInv'
<1> SUFFICES ASSUME RecordTypeOK, StrayInv, [Next]_vars, NEW x \in routes'
             PROVE  x \in astray' \/ \E j \in Keys : NamedBy(x, j)' /\ ~Throws(list[j])'
  BY DEF StrayInv
<1> USE SameBuild
<1> DEFINE Accounted == x \in astray' \/ \E j \in Keys : NamedBy(x, j)' /\ ~Throws(list[j])'
<1>1. ASSUME NEW k \in Keys, NEW r \in Records[k],
             AddPeer(k, r) \/ AddFails(k, r) \/ AddRefused(k, r)
      PROVE  Accounted
  <2>1. Listed(k, r)
    BY <1>1, AdditionFacts
  <2>2. CASE x \in routes
    <3>1. \A j \in Keys \ {k} : list'[j] = list[j]
      BY <2>1, ListedFacts
    <3>2. x \in astray => x \in astray'
      BY <2>1, ListedFacts
    <3>3. NamedBy(x, k) => x \in astray'
      BY <2>1, <2>2, ListedFacts DEF NamedBy
    <3> QED BY <2>2, <3>1, <3>2, <3>3, StrayKept
  <2>3. CASE x \notin routes
    <3>1. x \in RoutesOf(Entries(r)) /\ ~Throws(r)
      BY <1>1, <2>3, AdditionFacts
    <3>2. list'[k] = r /\ r # None
      BY <2>1, ListedFacts
    <3>3. NamedBy(x, k)'
      BY <3>1, <3>2, SameRoutes DEF NamedBy
    <3>4. ~Throws(list[k])'
      BY <3>1, <3>2 DEF Throws, Entries
    <3> QED BY <3>3, <3>4
  <2> QED BY <2>2, <2>3
<1>2. ASSUME NEW k \in Keys, RemovePeer(k)
      PROVE  Accounted
  <2>1. /\ x \in routes /\ x \notin RoutesOf(Unrouted(list[k]))
        /\ x \in astray => x \in astray'
    BY <1>2 DEF RemovePeer
  <2>2. list[k] \in Records[k] /\ \A j \in Keys \ {k} : list'[j] = list[j]
    BY <1>2, UnlistedFacts DEF RemovePeer
  <2>3. ~(NamedBy(x, k) /\ ~Throws(list[k]))
    BY <2>1, <2>2, RecordSound DEF NamedBy
  <2> QED BY <2>1, <2>2, <2>3, StrayKept
<1>3. ASSUME NEW k \in Keys, RemoveFails(k)
      PROVE  Accounted
  <2>1. x \in routes /\ Unlisted(k) /\ LeftBehind(k)
    BY <1>3 DEF RemoveFails
  <2>2. \A j \in Keys \ {k} : list'[j] = list[j]
    BY <2>1, UnlistedFacts
  <2>3. /\ x \in astray => x \in astray'
        /\ NamedBy(x, k) => x \in astray'
    BY <2>1 DEF LeftBehind, NamedBy
  <2> QED BY <2>1, <2>2, <2>3, StrayKept
<1>4. CASE UNCHANGED vars
  BY <1>4, StillNamed DEF vars, history, StrayInv
<1> QED BY <1>1, <1>2, <1>3, <1>4 DEF Next

\* The records that account for what the device has of a peer.
Behind(k) == former[k] \cup ({list[k]} \ {None})

LEMMA AdditionBehind ==
    ASSUME RecordTypeOK, NEW k \in Keys, NEW r \in Records[k], Listed(k, r)
    PROVE  Behind(k) \subseteq Behind(k)' /\ r \in Behind(k)'
           /\ \A j \in Keys \ {k} : Behind(j)' = Behind(j)
BY ListedFacts DEF Behind

LEMMA EndpointStep ==
    RecordTypeOK /\ EndpointAsWritten /\ [Next]_vars => EndpointAsWritten'
<1> SUFFICES ASSUME RecordTypeOK, EndpointAsWritten, [Next]_vars, NEW j \in Keys
             PROVE  /\ device'[j].endpoint # None =>
                          \E q \in Behind(j)' : Written(q.endpoint, device'[j].endpoint)
                    /\ j \in added' /\ Clear(list'[j].endpoint) =>
                          device'[j].endpoint = [host |-> list'[j].endpoint.host,
                                                 port |-> list'[j].endpoint.port]
  BY DEF EndpointAsWritten, Behind, Written, Clear
<1>1. /\ device[j].endpoint # None =>
            \E q \in Behind(j) : Written(q.endpoint, device[j].endpoint)
      /\ j \in added /\ Clear(list[j].endpoint) =>
            device[j].endpoint = [host |-> list[j].endpoint.host,
                                  port |-> list[j].endpoint.port]
  BY DEF EndpointAsWritten, Behind
<1>2. ASSUME NEW k \in Keys, NEW r \in Records[k],
             AddPeer(k, r) \/ AddFails(k, r) \/ AddRefused(k, r)
      PROVE  /\ device'[j].endpoint # None =>
                   \E q \in Behind(j)' : Written(q.endpoint, device'[j].endpoint)
             /\ j \in added' /\ Clear(list'[j].endpoint) =>
                   device'[j].endpoint = [host |-> list'[j].endpoint.host,
                                          port |-> list'[j].endpoint.port]
  <2>1. Listed(k, r)
    BY <1>2, AdditionFacts
  <2>2. CASE j # k
    <3>1. device'[j].endpoint = device[j].endpoint
      BY <1>2, <2>2, AdditionFacts DEF Give, RecordTypeOK
    <3>2. list'[j] = list[j] /\ Behind(j)' = Behind(j) /\ (j \in added' => j \in added)
      BY <1>2, <2>1, <2>2, AdditionFacts, ListedFacts, AdditionBehind
    <3> QED BY <1>1, <3>1, <3>2
  <2>3. CASE j = k
    <3>1. list'[k] = r /\ Behind(k) \subseteq Behind(k)' /\ r \in Behind(k)'
      BY <2>1, ListedFacts, AdditionBehind
    <3>2. device' = device \/ device'[k].endpoint = EndpointWith(k, r)
      BY <1>2, AdditionFacts DEF Give
    <3>3. device'[k].endpoint # None =>
             \E q \in Behind(k)' : Written(q.endpoint, device'[k].endpoint)
      BY <1>1, <2>3, <3>1, <3>2, EndpointGiven
    <3>4. k \in added' => device'[k].endpoint = EndpointWith(k, r)
      BY <1>2, AdditionFacts DEF Give
    <3> QED BY <2>3, <3>1, <3>3, <3>4, EndpointGiven
  <2> QED BY <2>2, <2>3
<1>3. ASSUME NEW k \in Keys, RemovePeer(k)
      PROVE  /\ device'[j].endpoint # None =>
                   \E q \in Behind(j)' : Written(q.endpoint, device'[j].endpoint)
             /\ j \in added' /\ Clear(list'[j].endpoint) =>
                   device'[j].endpoint = [host |-> list'[j].endpoint.host,
                                          port |-> list'[j].endpoint.port]
  <2>1. k \notin added' /\ \A i \in Keys \ {k} : list'[i] = list[i] /\ (i \in added' => i \in added)
    BY <1>3, UnlistedFacts DEF RemovePeer
  <2>2. device'[k].endpoint = None
    BY <1>3 DEF RemovePeer, Off, RecordTypeOK
  <2>3. j # k => device'[j] = device[j] /\ Behind(j)' = Behind(j)
    BY <1>3, <2>1 DEF RemovePeer, RecordTypeOK, Behind
  <2> QED BY <1>1, <2>1, <2>2, <2>3
<1>4. ASSUME NEW k \in Keys, RemoveFails(k)
      PROVE  /\ device'[j].endpoint # None =>
                   \E q \in Behind(j)' : Written(q.endpoint, device'[j].endpoint)
             /\ j \in added' /\ Clear(list'[j].endpoint) =>
                   device'[j].endpoint = [host |-> list'[j].endpoint.host,
                                          port |-> list'[j].endpoint.port]
  <2>1. Unlisted(k) /\ LeftBehind(k) /\ device' = device
    BY <1>4 DEF RemoveFails
  <2>2. k \notin added' /\ \A i \in Keys \ {k} : list'[i] = list[i] /\ (i \in added' => i \in added)
    BY <2>1, UnlistedFacts
  <2>3. Behind(j) \subseteq Behind(j)'
    BY <2>1, UnlistedFacts, LeftBehindFacts DEF Behind
  <2> QED BY <1>1, <2>1, <2>2, <2>3
<1>5. CASE UNCHANGED vars
  BY <1>1, <1>5 DEF vars, history, Behind
<1> QED BY <1>2, <1>3, <1>4, <1>5 DEF Next

\* What a record that does not throw gives the device is what it names.
LEMMA GivenAreOwn ==
    ASSUME NEW k \in Keys, NEW r \in Records[k], ~Throws(r), NEW n \in 0..Len(r.ips)
    PROVE  {DeviceNetwork(e) : e \in ForDevice(r, n)} \subseteq OwnNets(r)
<1>1. ForDevice(r, n) \subseteq {d \in Readable(r) : ParsesForDevice(d)}
  BY RecordSound DEF ForDevice
<1> QED BY <1>1 DEF OwnNets

LEMMA ListedStep == RecordTypeOK /\ DeviceAsListed /\ [Next]_vars => DeviceAsListed'
<1> SUFFICES ASSUME RecordTypeOK, DeviceAsListed, [Next]_vars, NEW j \in Keys, device'[j].on
             PROVE  /\ Held(j)' # {}
                    /\ device'[j].nets \subseteq UNION {OwnNets(r) : r \in Held(j)'}
  BY DEF DeviceAsListed, Held, OwnNets, Readable, Entries, DeviceNetwork, Network, EightBits,
         ParsesForDevice
<1>1. ASSUME device[j].on, device'[j].nets \subseteq device[j].nets,
             Held(j) \subseteq Held(j)'
      PROVE  /\ Held(j)' # {}
             /\ device'[j].nets \subseteq UNION {OwnNets(r) : r \in Held(j)'}
  BY <1>1 DEF DeviceAsListed
<1>2. ASSUME NEW k \in Keys, NEW r \in Records[k],
             AddPeer(k, r) \/ AddFails(k, r) \/ AddRefused(k, r)
      PROVE  /\ Held(j)' # {}
             /\ device'[j].nets \subseteq UNION {OwnNets(q) : q \in Held(j)'}
  <2>1. Listed(k, r)
    BY <1>2, AdditionFacts
  <2>2. CASE j # k
    <3>1. device[j].on /\ device'[j].nets \subseteq device[j].nets
      BY <1>2, <2>2, AdditionFacts DEF Give, RecordTypeOK
    <3>2. list'[j] = list[j] /\ former'[j] = former[j]
      BY <2>1, <2>2, ListedFacts
    <3>3. j \in added' <=> j \in added
      BY <1>2, <2>2, AdditionFacts
    <3>4. Held(j)' = Held(j)
      BY <3>2, <3>3 DEF Held
    <3> QED BY <1>1, <3>1, <3>4
  <2>3. CASE j = k /\ device' = device /\ added' = added \ {k}
    <3>1. Held(k) \subseteq Held(k)'
      BY <2>1, <2>3, ListedFacts DEF Held, RecordTypeOK
    <3> QED BY <1>1, <2>3, <3>1
  <2>4. CASE j = k /\ ~Throws(r) /\ \E n \in 0..Len(r.ips) : device' = Give(k, r, n)
    <3>1. r \in Held(k)'
      BY <2>1, ListedFacts DEF Held
    <3>2. device'[k].nets \subseteq OwnNets(r)
      BY <2>4, GivenAreOwn DEF Give
    <3> QED BY <2>4, <3>1, <3>2
  <2> QED BY <1>2, <2>2, <2>3, <2>4, AdditionFacts
<1>3. ASSUME NEW k \in Keys, RemovePeer(k)
      PROVE  /\ Held(j)' # {}
             /\ device'[j].nets \subseteq UNION {OwnNets(r) : r \in Held(j)'}
  <2>1. j # k /\ device'[j] = device[j]
    BY <1>3 DEF RemovePeer, RecordTypeOK, Off
  <2>2. Held(j)' = Held(j)
    BY <1>3, <2>1, UnlistedFacts DEF RemovePeer, RecordTypeOK, Held
  <2> QED BY <1>1, <2>1, <2>2
<1>4. ASSUME NEW k \in Keys, RemoveFails(k)
      PROVE  /\ Held(j)' # {}
             /\ device'[j].nets \subseteq UNION {OwnNets(r) : r \in Held(j)'}
  <2>1. Unlisted(k) /\ LeftBehind(k) /\ device' = device
    BY <1>4 DEF RemoveFails
  <2>2. Held(j) \subseteq Held(j)'
    BY <2>1, UnlistedFacts, LeftBehindFacts DEF Held
  <2> QED BY <1>1, <2>1, <2>2
<1>5. CASE UNCHANGED vars
  BY <1>1, <1>5 DEF vars, history, Held
<1> QED BY <1>2, <1>3, <1>4, <1>5 DEF Next

\* Networks that the device or the routes have because of a record are named
\* by it, and so are those that its removal takes away.
LEMMA RoutesNamed ==
    ASSUME NEW k \in Keys, NEW r \in Records[k], NEW S, S \subseteq Readable(r)
    PROVE  RoutesOf(S) \subseteq NetsNamed(r)
<1>1. ASSUME NEW e \in S, ParsesForRoute(e), NEW x \in Routed(e)
      PROVE  x \in NetsNamed(r)
  <2>1. e \in Readable(r) /\ Sound(e)
    BY RecordSound DEF Readable
  <2>2. x = Network(e.family, Length(e), e.bits)
    BY <1>1, <2>1, RoutedNetwork
  <2> QED BY <1>1, <2>1, <2>2 DEF NetsNamed
<1> QED BY <1>1 DEF RoutesOf

LEMMA GivenAreNamed ==
    ASSUME NEW k \in Keys, NEW r \in Records[k]
    PROVE  /\ ~Throws(r) =>
                 /\ \A n \in 0..Len(r.ips) :
                       {DeviceNetwork(e) : e \in ForDevice(r, n)} \subseteq NetsNamed(r)
                 /\ RoutesOf(Entries(r)) \subseteq NetsNamed(r)
           /\ RoutesOf(Unrouted(r)) \subseteq NetsNamed(r)
<1>1. Unrouted(r) \subseteq Readable(r)
  <2>1. ASSUME NEW i \in DOMAIN r.ips, \A j \in 1..i : r.ips[j].prefix # Junk
        PROVE  r.ips[i].prefix # Junk
    BY <2>1, EntryFacts
  <2> QED BY <2>1 DEF Unrouted, Readable, Entries
<1>2. RoutesOf(Unrouted(r)) \subseteq NetsNamed(r)
  BY <1>1, RoutesNamed
<1>3. ~Throws(r) => \A n \in 0..Len(r.ips) :
                       {DeviceNetwork(e) : e \in ForDevice(r, n)} \subseteq NetsNamed(r)
  BY GivenAreOwn DEF NetsNamed
<1>4. ~Throws(r) => RoutesOf(Entries(r)) \subseteq NetsNamed(r)
  BY RecordSound, RoutesNamed
<1> QED BY <1>2, <1>3, <1>4

\* What AddedInv says of one key.
Has(k) ==
    /\ ~Throws(list[k]) /\ Taken(list[k])
    /\ k \in Alone =>
           /\ device[k].on
           /\ device[k].nets = {DeviceNetwork(e) : e \in ForDevice(list[k], Len(list[k].ips))}
           /\ RoutesOf(Entries(list[k])) \subseteq routes

LEMMA StillHas ==
    ASSUME build' = build, NEW k \in Keys, Has(k), list'[k] = list[k],
           k \in Alone =>
               /\ device'[k].on = device[k].on
               /\ device'[k].nets = device[k].nets
               /\ RoutesOf(Entries(list[k])) \subseteq routes'
    PROVE  Has(k)'
<1>1. Throws(list[k])' = Throws(list[k]) /\ Taken(list[k])' = Taken(list[k])
  BY DEF Throws, Entries, Taken, ForDevice, ParsesForDevice, DeviceTakes, EightBits
<1>2. {DeviceNetwork(e) : e \in ForDevice(list[k], Len(list[k].ips))}'
        = {DeviceNetwork(e) : e \in ForDevice(list[k], Len(list[k].ips))}
  BY DEF ForDevice, ParsesForDevice, DeviceNetwork, Network, EightBits
<1>3. RoutesOf(Entries(list[k]))' = RoutesOf(Entries(list[k]))
  BY SameRoutes DEF Entries
<1> QED BY <1>1, <1>2, <1>3 DEF Has

\* What another key gets is none of the networks of a key that is alone.
LEMMA AloneKeeps ==
    ASSUME RecordTypeOK, NEW k \in Alone, list[k] \in Records[k], Has(k),
           NEW j \in Keys \ {k}, NEW r \in Records[j], ~Throws(r),
           NEW n \in 0..Len(r.ips), device' = Give(j, r, n)
    PROVE  device'[k].on = device[k].on /\ device'[k].nets = device[k].nets
<1> DEFINE nets == {DeviceNetwork(e) : e \in ForDevice(r, n)}
<1>0. k \in Keys
  BY DEF Alone
<1>1. device'[k] = [device[k] EXCEPT !.nets = @ \ nets]
  BY <1>0 DEF Give
<1>2. nets \subseteq NetsNamed(r)
  BY GivenAreNamed
<1>3. device[k].nets \subseteq NetsNamed(list[k])
  BY <1>0, GivenAreNamed, EntryFacts DEF Has
<1>4. NetsNamed(r) \cap NetsNamed(list[k]) = {}
  BY DEF Alone
<1> HIDE DEF nets
<1>5. device[k].nets \ nets = device[k].nets
  BY <1>2, <1>3, <1>4
<1> QED BY <1>0, <1>1, <1>5 DEF RecordTypeOK

LEMMA AddedStep ==
    RecordTypeOK /\ AddedInv /\ [Next]_vars => AddedInv'
<1> SUFFICES ASSUME RecordTypeOK, AddedInv, [Next]_vars, NEW k \in added'
             PROVE  k \in Keys /\ Has(k)'
  BY DEF AddedInv, Has
<1> USE SameBuild
<1>1. \A j \in added : j \in Keys /\ list[j] # None /\ list[j] \in Records[j] /\ Has(j)
  BY DEF RecordTypeOK, AddedInv, Has
<1>2. ASSUME NEW j \in Keys, NEW r \in Records[j],
             AddPeer(j, r) \/ AddFails(j, r) \/ AddRefused(j, r), k # j
      PROVE  k \in Keys /\ Has(k)'
  <2>1. k \in added /\ list'[k] = list[k]
    BY <1>1, <1>2, AdditionFacts, ListedFacts
  <2>2. k \in Alone => device'[k].on = device[k].on /\ device'[k].nets = device[k].nets
    BY <1>1, <1>2, <2>1, AdditionFacts, AloneKeeps
  <2>3. routes \subseteq routes'
    BY <1>2, AdditionFacts
  <2> QED BY <1>1, <2>1, <2>2, <2>3, StillHas DEF Has
<1>3. ASSUME NEW j \in Keys, NEW r \in Records[j], AddPeer(j, r), k = j
      PROVE  k \in Keys /\ Has(k)'
  <2>1. list'[k] = r /\ ~Throws(r) /\ Taken(r) /\ Len(r.ips) \in Nat
    BY <1>3, EntryFacts, ListedFacts DEF AddPeer, Taken
  <2>2. /\ device'[k].on
        /\ device'[k].nets = {DeviceNetwork(e) : e \in ForDevice(r, Len(r.ips))}
    BY <1>3 DEF AddPeer, Give
  <2>3. RoutesOf(Entries(r)) \subseteq routes'
    BY <1>3 DEF AddPeer
  <2>4. ~Throws(list[k])' /\ Taken(list[k])'
    BY <2>1 DEF Throws, Entries, Taken, ForDevice, ParsesForDevice, DeviceTakes, EightBits
  <2>5. (device[k].nets = {DeviceNetwork(e) : e \in ForDevice(list[k], Len(list[k].ips))})'
    BY <2>1, <2>2 DEF ForDevice, ParsesForDevice, DeviceNetwork, Network, EightBits
  <2>6. (RoutesOf(Entries(list[k])) \subseteq routes)'
    BY <2>1, <2>3, SameRoutes DEF Entries
  <2> QED BY <1>3, <2>2, <2>4, <2>5, <2>6 DEF Has
<1>4. ASSUME NEW j \in Keys, NEW r \in Records[j], AddFails(j, r) \/ AddRefused(j, r), k = j
      PROVE  FALSE
  BY <1>4 DEF AddFails, AddRefused, AdditionEnds
<1>5. ASSUME NEW j \in Keys, RemovePeer(j)
      PROVE  k \in Keys /\ Has(k)'
  <2>1. /\ k \in added /\ k # j /\ list'[k] = list[k] /\ device'[k] = device[k]
        /\ routes' = routes \ RoutesOf(Unrouted(list[j]))
        /\ list[j] \in Records[j]
    BY <1>1, <1>5, UnlistedFacts DEF RemovePeer, RecordTypeOK
  <2>2. ASSUME k \in Alone PROVE RoutesOf(Entries(list[k])) \subseteq routes'
    <3>1. RoutesOf(Entries(list[k])) \subseteq NetsNamed(list[k]) \cap routes
      BY <1>1, <2>1, <2>2, GivenAreNamed DEF Has
    <3>2. RoutesOf(Unrouted(list[j])) \subseteq NetsNamed(list[j])
      BY <2>1, GivenAreNamed
    <3>3. NetsNamed(list[j]) \cap NetsNamed(list[k]) = {}
      BY <1>1, <2>1, <2>2 DEF Alone
    <3> QED BY <2>1, <3>1, <3>2, <3>3
  <2> QED BY <1>1, <2>1, <2>2, StillHas DEF Has
<1>6. ASSUME NEW j \in Keys, RemoveFails(j)
      PROVE  k \in Keys /\ Has(k)'
  <2>1. k \in added /\ list'[k] = list[k] /\ device' = device /\ routes' = routes
    BY <1>1, <1>6, UnlistedFacts DEF RemoveFails
  <2> QED BY <1>1, <2>1, StillHas DEF Has
<1>7. CASE UNCHANGED vars
  BY <1>1, <1>7, StillHas DEF vars, Has
<1> QED BY <1>2, <1>3, <1>4, <1>5, <1>6, <1>7 DEF Next

LEMMA Invariance == Spec => []RecordInv
<1>1. RecordInv /\ [Next]_vars => RecordInv'
  BY TypeStep, StrayStep, AddedStep, ListedStep, EndpointStep DEF RecordInv
<1> QED BY <1>1, InitInv, PTL DEF Spec

----------------------------------------------------------------------------
(* The theorems *)

(***************************************************************************)
(* The types: whatever the text, no network on the device or in the routes *)
(* has a prefix length its family does not have or a bit behind it, and no *)
(* endpoint has the port zero or one of more than 16 bits.                 *)
(***************************************************************************)
THEOREM RecordTypeCorrect == Spec => []RecordTypeOK
BY Invariance, PTL DEF RecordInv

(***************************************************************************)
(* Whatever text the records hold and wherever wg_remove_peer_dynamic      *)
(* throws, a route that no record in the list names is one of a record     *)
(* that another of the same list overwrote, or whose removal failed.       *)
(***************************************************************************)
THEOREM NoRouteAstray == Spec => []NoStrayRoutes
<1>1. RecordInv => NoStrayRoutes
  BY DEF RecordInv, StrayInv, NoStrayRoutes
<1> QED BY <1>1, Invariance, PTL

(***************************************************************************)
(* The endpoint of a peer is the one its record names when that record was *)
(* added and names one, and otherwise one that it or a record before it    *)
(* names, for any range of unsigned long.                                  *)
(***************************************************************************)
THEOREM EndpointsAsWritten == Spec => []EndpointAsWritten
BY Invariance, PTL DEF RecordInv

(***************************************************************************)
(* After any sequence of additions, overwritten records, refusals and      *)
(* removals that fail, an added peer has no network but those of its       *)
(* record, and one that was withdrawn is off the device unless its removal *)
(* failed.                                                                 *)
(***************************************************************************)
THEOREM PeersAsListed == Spec => []DeviceAsListed
BY Invariance, PTL DEF RecordInv

(***************************************************************************)
(* For all addresses and prefix lengths the two parsers make the same      *)
(* network of an entry, but for the three kinds of text that RoutedAsOwned *)
(* names, and device and routes stay in step with it.                      *)
(***************************************************************************)
THEOREM ParsersAgree == Spec => []RoutedAsOwned
<1>1. ASSUME RecordInv, NEW k \in added \cap Alone
      PROVE  LET S == Entries(list[k])
                 Apart == {e \in S : ParsesForDevice(e) /\ (CutLength(e) \/ DefaultRoute(e))}
             IN  /\ device[k].on
                 /\ RoutesOf(S) \subseteq routes
                 /\ device[k].nets \subseteq routes \cup {DeviceNetwork(e) : e \in Apart}
                 /\ RoutesOf({e \in S : ~RouteOnly(e)}) \subseteq device[k].nets
  <2> DEFINE r == list[k]
             S == Entries(r)
             Apart == {e \in S : ParsesForDevice(e) /\ (CutLength(e) \/ DefaultRoute(e))}
  <2>1. k \in Keys /\ r \in Records[k] /\ Has(k)
    BY <1>1 DEF RecordInv, RecordTypeOK, AddedInv, Has
  <2>2. device[k].on /\ RoutesOf(S) \subseteq routes
    BY <1>1, <2>1 DEF Has
  <2>3. device[k].nets = {DeviceNetwork(e) : e \in ForDevice(r, Len(r.ips))}
    BY <1>1, <2>1 DEF Has
  <2>4. ForDevice(r, Len(r.ips)) = {e \in S : ParsesForDevice(e)}
    BY <2>1, EntryFacts DEF ForDevice, Entries
  <2>5. \A e \in S : Sound(e)
    BY <2>1, RecordSound
  <2>6. \A e \in ForDevice(r, Len(r.ips)) : DeviceTakes(e)
    BY <2>1 DEF Has, Taken
  <2> HIDE DEF r, S
  <2>7. ASSUME NEW e \in S, ParsesForDevice(e), ~CutLength(e), ~DefaultRoute(e)
        PROVE  DeviceNetwork(e) \in routes
    <3>1. ParsesForRoute(e) /\ DeviceNetwork(e) \in Routed(e)
      BY <2>4, <2>5, <2>6, <2>7, OwnedIsRouted
    <3> QED BY <2>2, <3>1 DEF RoutesOf
  <2>8. ASSUME NEW e \in S, ~RouteOnly(e), ParsesForRoute(e), NEW x \in Routed(e)
        PROVE  x \in device[k].nets
    <3>1. ParsesForDevice(e) /\ x = DeviceNetwork(e)
      BY <2>5, <2>8, RoutedIsOwned
    <3> QED BY <2>3, <2>4, <3>1
  <2>9. device[k].nets \subseteq routes \cup {DeviceNetwork(e) : e \in Apart}
    BY <2>3, <2>4, <2>7
  <2>10. RoutesOf({e \in S : ~RouteOnly(e)}) \subseteq device[k].nets
    BY <2>8 DEF RoutesOf
  <2> QED BY <2>2, <2>9, <2>10 DEF r, S
<1>2. RecordInv => RoutedAsOwned
  BY <1>1 DEF RoutedAsOwned
<1> QED BY <1>2, Invariance, PTL

=============================================================================
