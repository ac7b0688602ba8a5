----------------------------- MODULE PeerRecord -----------------------------
(***************************************************************************)
(* How the text of a peer record gets into the kernel on Linux: the parts  *)
(* of src/platform/linux/tunnel_manager_impl.cpp that parse addresses,     *)
(* prefix lengths and endpoints, and the two functions that use them,      *)
(* wg_add_peer_dynamic and wg_remove_peer_dynamic.  TunnelManager takes an *)
(* allowed IP for a name; here it is an address with a prefix length, and  *)
(* the device and the routing table hold networks.                         *)
(*                                                                         *)
(* One parser reads the list for the device, another one for the routes.   *)
(* The kernel takes networks apart from the code: it clears the host bits  *)
(* of what the device owns, and takes no IPv4 route that has any.  A route *)
(* request that parses works here; TunnelManager has those that fail.      *)
(*                                                                         *)
(* Two things leave something of a record behind: a list that names a key  *)
(* twice, where the second record overwrites the first, and a removal that *)
(* fails after the record is off the list.  former and astray keep account *)
(* of them for the properties; no step depends on either.                  *)
(***************************************************************************)
EXTENDS Integers, Sequences

CONSTANTS
    Keys,       \* public keys of the peers
    Records,    \* for each key the records the control plane may send
    Absent,     \* no "/prefix" in the text
    Junk,       \* a prefix or port for which std::stoi or stoul throws
    None,       \* no record, or no endpoint
    ULongs,     \* how many values an unsigned long has
    MaxTroubles \* bound: records overwritten and removals that fail

Families == {"v4", "v6"}

Width == [f \in Families |-> IF f = "v4" THEN 32 ELSE 128]

\* An address is the set of its bits that are 1; bit 0 is the first one sent.
\* Text that is no address has the family "none".
Entry == [family : Families \cup {"none"}, bits : SUBSET (0..127),
          prefix : Int \cup {Absent, Junk}]

\* "host:port", brackets or not; any other text is Junk.
Endpoint == [host : Families \cup {"none"},
             brackets : {"none", "pair", "stray"},
             port : Int \cup {Junk}]

Record == [ips : Seq(Entry), endpoint : Endpoint \cup {None, Junk}]

ASSUME RecordsAssumption ==
    /\ \A k \in Keys : Records[k] \subseteq Record
    /\ \A k \in Keys : \A r \in Records[k] : \A i \in DOMAIN r.ips :
          r.ips[i].family \in Families => r.ips[i].bits \subseteq 0..(Width[r.ips[i].family] - 1)

ASSUME TextAssumption ==
    /\ Absent \notin Int /\ Junk \notin Int /\ Absent # Junk
    /\ None \notin (UNION {Records[k] : k \in Keys}) \cup Endpoint
    /\ Junk \notin Endpoint

ASSUME NumbersAssumption == ULongs \in Nat /\ ULongs > 65536 /\ MaxTroubles \in Nat

VARIABLES
    build,      \* what 1u << 32 gives: the shift "wraps" or leaves "zero"
    list,       \* peers_: the record of each key, or None
    fresh,      \* the keys added since an addition failed or a peer was removed
    added,      \* the keys of which the device took the whole record
    device,     \* for each key, whether it is on, its networks, and the
                \* endpoint it was given
    routes,     \* the networks routed through the link
    former,     \* for each key, its records that were overwritten or could not
                \* be removed, since it was last taken off the device
    astray,     \* the routes of such records that nothing has deleted since
    troubles    \* how often that happened

history == <<former, astray, troubles>>
vars == <<build, list, fresh, added, device, routes, history>>

Entries(r) == {r.ips[i] : i \in DOMAIN r.ips}

\* Records with an entry that throws.
Throws(r) == \E e \in Entries(r) : e.prefix = Junk

Network(f, n, bits) == [family |-> f, len |-> n, net |-> {b \in bits : b < n}]

Ports == 1..65535

----------------------------------------------------------------------------
(* The parser of the device *)

\* A slip: the length is cut to seven bits.
SevenBits(n) == n % 128

\* static_cast<uint8_t>
EightBits(n) == n % 256

\* parse_allowed_ip
ParsesForDevice(e) == e.prefix # Absent /\ e.family # "none"

DeviceNetwork(e) == Network(e.family, EightBits(e.prefix), e.bits)

DeviceTakes(e) == EightBits(e.prefix) <= Width[e.family]

ForDevice(r, n) == {e \in {r.ips[i] : i \in 1..n} : ParsesForDevice(e)}

\* parse_int: stoul takes a minus sign and wraps around.
Unsigned(n) == IF n < 0 THEN n + ULongs ELSE n

Numbers == (1 - ULongs)..(ULongs - 1)

Address(e) == [host |-> e.host, port |-> Unsigned(e.port)]

\* Slips: the port is not checked against 16 bits, or not against zero.
EndpointOfAnyPort(t) ==
    {[host |-> e.host, port |-> Unsigned(e.port) % 65536] : e \in
        {e \in Endpoint \cap {t} :
            e.host # "none" /\ e.brackets # "stray" /\ e.port \in Numbers}}

EndpointOfPortZero(t) ==
    {Address(e) : e \in
        {e \in Endpoint \cap {t} :
            /\ e.host # "none" /\ e.brackets # "stray"
            /\ e.port \in Numbers /\ Unsigned(e.port) \in Ports \cup {0}}}

\* parse_endpoint: nothing, or one address.  A port of more than 16 bits is
\* refused, brackets go around the whole host.
ParsedEndpoint(t) ==
    {Address(e) : e \in
        {e \in Endpoint \cap {t} :
            /\ e.host # "none" /\ e.brackets # "stray"
            /\ e.port \in Numbers /\ Unsigned(e.port) \in Ports}}

----------------------------------------------------------------------------
(* The parser of the routes *)

\* parse_cidr_address
Length(e) == IF e.prefix = Absent THEN Width[e.family] ELSE e.prefix

ParsesForRoute(e) ==
    /\ e.family # "none"
    /\ Length(e) \in 0..128
    /\ Length(e) <= Width[e.family]

\* The IPv6 address goes byte by byte: one inside the prefix stays, one
\* behind it is cleared, the one in between is masked.
ByteMask(bits, n) ==
    {b \in bits : LET first == 8 * (b \div 8) IN
                    first + 8 <= n \/ (first < n /\ b - first < n - first)}

\* The IPv4 address is a number: the shift by 32 - n makes the mask, and for
\* n = 0 it is undefined.
WordMask(bits, n) ==
    LET shift == IF build = "wraps" THEN (32 - n) % 32 ELSE 32 - n
    IN  {b \in bits : n < 32 => 31 - b >= shift}

RouteNetwork(e) ==
    [family |-> e.family, len |-> Length(e),
     net |-> IF e.family = "v4" THEN WordMask(e.bits, Length(e))
                                ELSE ByteMask(e.bits, Length(e))]

\* What the kernel makes of the request.
Routed(e) ==
    {x \in {Network(e.family, Length(e), RouteNetwork(e).net)} :
        e.family = "v4" => x = RouteNetwork(e)}

RoutesOf(S) == UNION {Routed(e) : e \in {d \in S : ParsesForRoute(d)}}

----------------------------------------------------------------------------
(* The two operations *)

Off == [on |-> FALSE, nets |-> {}, endpoint |-> None]

Init ==
    /\ build \in {"wraps", "zero"}
    /\ list = [k \in Keys |-> None]
    /\ fresh = {}
    /\ added = {}
    /\ device = [k \in Keys |-> Off]
    /\ routes = {}
    /\ former = [k \in Keys |-> {}]
    /\ astray = {}
    /\ troubles = 0

EndpointWith(k, r) ==
    IF ParsedEndpoint(r.endpoint) = {} THEN device[k].endpoint
    ELSE CHOOSE x \in ParsedEndpoint(r.endpoint) : TRUE

\* A slip: WGPEER_REPLACE_ALLOWEDIPS is not set.
GiveMerges(k, r, n) ==
    LET nets == {DeviceNetwork(e) : e \in ForDevice(r, n)}
    IN  [j \in Keys |->
            IF j # k THEN [device[j] EXCEPT !.nets = @ \ nets]
            ELSE [on |-> TRUE, nets |-> device[k].nets \cup nets,
                  endpoint |-> EndpointWith(k, r)]]

\* wg_set_device with the first n entries: the peer loses the networks it had,
\* each network has one owner, and an endpoint that did not parse leaves the
\* one the peer has.
Give(k, r, n) ==
    LET nets == {DeviceNetwork(e) : e \in ForDevice(r, n)}
    IN  [j \in Keys |->
            IF j # k THEN [device[j] EXCEPT !.nets = @ \ nets]
            ELSE [on |-> TRUE, nets |-> nets,
                  endpoint |-> EndpointWith(k, r)]]

\* The record of k goes from the list, and the device and the routes stay.
LeftBehind(k) ==
    /\ troubles < MaxTroubles
    /\ troubles' = troubles + 1
    /\ former' = [former EXCEPT ![k] = @ \cup {list[k]}]
    /\ astray' = astray \cup (routes \cap RoutesOf(Entries(list[k])))

\* add_peer puts the record into the list before the kernel has it.  It meets
\* one of the same key only when the list update_peers works on names the key
\* twice: compute_peer_diff lets both through, and the second overwrites.
Listed(k, r) ==
    /\ \/ list[k] = None /\ UNCHANGED history
       \/ k \in fresh /\ LeftBehind(k)
    /\ list' = [list EXCEPT ![k] = r]

\* wg_add_peer_dynamic, to the end; a route that does not parse is skipped.
AddPeer(k, r) ==
    /\ Listed(k, r)
    /\ ~Throws(r)
    /\ \A e \in ForDevice(r, Len(r.ips)) : DeviceTakes(e)
    /\ device' = Give(k, r, Len(r.ips))
    /\ routes' = routes \cup RoutesOf(Entries(r))
    /\ added' = added \cup {k}
    /\ fresh' = fresh \cup {k}
    /\ UNCHANGED build

\* update_peers returns at the first peer it cannot add.
AdditionEnds(k) ==
    /\ added' = added \ {k}
    /\ fresh' = {}
    /\ UNCHANGED <<build, routes>>

\* The kernel does not hear of the peer or takes nothing of it: the text
\* throws, the key does not decode, or the request fails.
AddFails(k, r) ==
    /\ Listed(k, r)
    /\ AdditionEnds(k)
    /\ UNCHANGED device

\* The kernel refuses an entry and has taken some of those before it.
AddRefused(k, r) ==
    /\ Listed(k, r)
    /\ ~Throws(r)
    /\ \E n \in 0..(Len(r.ips) - 1) :
         /\ ParsesForDevice(r.ips[n + 1]) /\ ~DeviceTakes(r.ips[n + 1])
         /\ \A e \in ForDevice(r, n) : DeviceTakes(e)
         /\ \E m \in 0..n : device' = Give(k, r, m)
    /\ AdditionEnds(k)

\* A slip: the first entry that does not parse ends the loop.
UnroutedUpToBadText(r) ==
    {e \in Entries(r) : \E i \in DOMAIN r.ips :
        e = r.ips[i] /\ \A j \in 1..i : ParsesForRoute(r.ips[j])}

\* The entries before the first one that throws.
Unrouted(r) ==
    {e \in Entries(r) : \E i \in DOMAIN r.ips :
        e = r.ips[i] /\ \A j \in 1..i : r.ips[j].prefix # Junk}

Unlisted(k) ==
    /\ list[k] # None
    /\ list' = [list EXCEPT ![k] = None]
    /\ added' = added \ {k}
    /\ fresh' = {}
    /\ UNCHANGED build

\* remove_peer and wg_remove_peer_dynamic, whether the text throws or not.
RemovePeer(k) ==
    /\ Unlisted(k)
    /\ device' = [device EXCEPT ![k] = Off]
    /\ routes' = routes \ RoutesOf(Unrouted(list[k]))
    /\ former' = [former EXCEPT ![k] = {}]
    /\ astray' = astray \ RoutesOf(Unrouted(list[k]))
    /\ UNCHANGED troubles

\* The file is not written or the kernel refuses, behind the list.
RemoveFails(k) ==
    /\ Unlisted(k)
    /\ LeftBehind(k)
    /\ UNCHANGED <<device, routes>>

Next ==
    \E k \in Keys :
        \/ \E r \in Records[k] : AddPeer(k, r) \/ AddFails(k, r) \/ AddRefused(k, r)
        \/ RemovePeer(k) \/ RemoveFails(k)

Spec == Init /\ [][Next]_vars
----------------------------------------------------------------------------
(* Properties *)

Networks == [family : Families, len : 0..128, net : SUBSET (0..127)]

\* A length that its family has, and no bits behind it.
Masked(x) == x.len <= Width[x.family] /\ \A b \in x.net : b < x.len

Sockets == [host : Families, port : Ports]

(***************************************************************************)
(* The types.  Every network on the device and in the routes has a length  *)
(* of its family and no host bits, every endpoint a host and a port that   *)
(* is neither zero nor more than 16 bits, whatever the text was; and       *)
(* whatever was added whole is still in the list.                          *)
(***************************************************************************)
RecordTypeOK ==
    /\ build \in {"wraps", "zero"}
    /\ DOMAIN list = Keys
    /\ \A k \in Keys : list[k] \in Records[k] \cup {None}
    /\ fresh \subseteq added
    /\ added \subseteq {k \in Keys : list[k] # None}
    /\ device \in [Keys -> [on : BOOLEAN, nets : SUBSET Networks,
                            endpoint : Sockets \cup {None}]]
    /\ routes \subseteq Networks
    /\ \A x \in routes \cup UNION {device[k].nets : k \in Keys} : Masked(x)
    /\ DOMAIN former = Keys
    /\ \A k \in Keys : former[k] \subseteq Records[k]
    /\ astray \subseteq routes
    /\ troubles \in 0..MaxTroubles

(***************************************************************************)
(* A route outlives its record in two ways only: a list that named the key *)
(* twice overwrote the record, or its removal failed, and in both cases no *)
(* removal of a peer with the same network has deleted it since.  Every    *)
(* other route is named by a record in the list, also when records throw,  *)
(* when the kernel refuses them and when two peers have the same network:  *)
(* the text that added a route deletes it again.                           *)
(***************************************************************************)
NamedBy(x, k) == list[k] # None /\ x \in RoutesOf(Entries(list[k]))

NoStrayRoutes == \A x \in routes : x \in astray \/ \E k \in Keys : NamedBy(x, k)

\* The entries that the two parsers read differently: the first get a route
\* and no place on the device, the second the reverse.
RouteOnly(e) == e.prefix = Absent

CutLength(e) == e.prefix \notin 0..128

DefaultRoute(e) == build = "wraps" /\ e.family = "v4" /\ e.prefix = 0 /\ e.bits # {}

\* No other key ever has one of the networks of k.
Readable(r) == {e \in Entries(r) : e.prefix # Junk}

OwnNets(r) == {DeviceNetwork(e) : e \in {d \in Readable(r) : ParsesForDevice(d)}}

NetsNamed(r) ==
    OwnNets(r) \cup {Network(e.family, Length(e), e.bits) :
                        e \in {d \in Readable(r) : ParsesForRoute(d)}}

Alone ==
    {k \in Keys : \A j \in Keys \ {k} : \A q \in Records[j], r \in Records[k] :
        NetsNamed(q) \cap NetsNamed(r) = {}}

(***************************************************************************)
(* The two parsers agree: the networks the device gives a peer are the     *)
(* ones routed to it, whatever was added and removed in between, but for   *)
(* the three kinds of text they read differently, an address without       *)
(* prefix, a length that eight bits do not hold, and on some builds the    *)
(* IPv4 default route with host bits.                                      *)
(***************************************************************************)
RoutedAsOwned ==
    \A k \in added \cap Alone :
        LET S == Entries(list[k])
            Apart == {e \in S : ParsesForDevice(e) /\ (CutLength(e) \/ DefaultRoute(e))}
        IN  /\ device[k].on
            /\ RoutesOf(S) \subseteq routes
            /\ device[k].nets \subseteq routes \cup {DeviceNetwork(e) : e \in Apart}
            /\ RoutesOf({e \in S : ~RouteOnly(e)}) \subseteq device[k].nets

(***************************************************************************)
(* The agent sends to no other host and port than those written: of a      *)
(* record that was added and has an endpoint the device has this one, and  *)
(* any endpoint it has is written in the peer's record or in one that was  *)
(* overwritten or could not be removed.  A port is taken as it is, but for *)
(* one: stoul wraps a negative number, so that one close to -2^64 is read  *)
(* as a port.                                                              *)
(***************************************************************************)
Written(t, d) ==
    /\ t \in Endpoint
    /\ d.host = t.host
    /\ d.port = t.port \/ (t.port \in Int /\ t.port < 0 /\ d.port = t.port + ULongs)
    /\ d.port \in Ports

Clear(t) == t \in Endpoint /\ t.host # "none" /\ t.brackets # "stray" /\ t.port \in Ports

EndpointAsWritten ==
    \A k \in Keys :
        /\ device[k].endpoint # None =>
              \E r \in former[k] \cup ({list[k]} \ {None}) :
                  Written(r.endpoint, device[k].endpoint)
        /\ k \in added /\ Clear(list[k].endpoint) =>
              device[k].endpoint = [host |-> list[k].endpoint.host,
                                    port |-> list[k].endpoint.port]

(***************************************************************************)
(* What a peer may send and be sent is what its record says.  Once a       *)
(* record is added the peer has no network of an earlier one, also not of  *)
(* one it overwrites or whose removal had failed.  Otherwise it has only   *)
(* networks of its record and of such earlier ones, and with none of them  *)
(* it is off the device: after a failed removal until the next that works. *)
(***************************************************************************)
Held(k) == IF k \in added THEN {list[k]} ELSE former[k] \cup ({list[k]} \ {None})

DeviceAsListed ==
    \A k \in Keys : device[k].on =>
        /\ Held(k) # {}
        /\ device[k].nets \subseteq UNION {OwnNets(r) : r \in Held(k)}
----------------------------------------------------------------------------
(* The inductive invariant behind the properties *)

\* A route that is not astray is named by a record that does not throw: only
\* such a record adds routes, and its removal deletes all it names.
StrayInv ==
    \A x \in routes :
        x \in astray \/ \E k \in Keys : NamedBy(x, k) /\ ~Throws(list[k])

\* The device and the routes have all of a record that was added, unless
\* another peer may take it away.
Taken(r) == \A e \in ForDevice(r, Len(r.ips)) : DeviceTakes(e)

AddedInv ==
    \A k \in added :
        LET r == list[k]
        IN  /\ ~Throws(r) /\ Taken(r)
            /\ k \in Alone =>
                   /\ device[k].on
                   /\ device[k].nets = {DeviceNetwork(e) : e \in ForDevice(r, Len(r.ips))}
                   /\ RoutesOf(Entries(r)) \subseteq routes

RecordInv == RecordTypeOK /\ StrayInv /\ AddedInv /\ DeviceAsListed /\ EndpointAsWritten
=============================================================================
