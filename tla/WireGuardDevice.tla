-------------------------- MODULE WireGuardDevice --------------------------
(***************************************************************************)
(* The kernel side of the agent: the WireGuard link wg0, its peers with    *)
(* their allowed IPs, and the routes that point at it.  None of it is code *)
(* of the repository; it is modelled from the way the agent drives it      *)
(* through third_party/wireguard/wireguard.c and through the rtnetlink     *)
(* requests of src/platform/linux/tunnel_manager_impl.cpp.                 *)
(*                                                                         *)
(* The state survives the process: netlink objects stay when the agent     *)
(* dies, and only deleting the link clears them.                           *)
(*                                                                         *)
(* An address stands for an entry of a peer's allowedVpnIps list.  Two     *)
(* subsets of the addresses carry what the parsers tell apart:             *)
(*   PlainIPs  written without "/prefix", which the OpenAPI pattern allows *)
(*   BadIPs    with a prefix that is not a number, for which std::stoi     *)
(*             throws                                                      *)
(***************************************************************************)

CONSTANTS
    Keys,       \* public keys of the other agents
    IPs,        \* VPN addresses
    PlainIPs,   \* addresses written without a prefix length
    BadIPs,     \* addresses whose prefix length does not parse
    SelfKeys,   \* key pairs this host may generate
    None        \* no key

ASSUME AddressAssumption ==
    /\ PlainIPs \subseteq IPs
    /\ BadIPs \subseteq IPs
    /\ PlainIPs \cap BadIPs = {}

ASSUME NoneAssumption == None \notin Keys \cup SelfKeys

VARIABLES
    link,       \* "absent", "down" or "up"
    devKey,     \* private key set on the link
    addrs,      \* addresses assigned to the link
    kpeers,     \* keys of the peers the device holds
    owner,      \* cryptokey routing: the one peer that owns an allowed IP
    routes      \* destinations the main table routes through the link

devVars == <<link, devKey, addrs, kpeers, owner, routes>>

DeviceTypeOK ==
    /\ link \in {"absent", "down", "up"}
    /\ devKey \in SelfKeys \cup {None}
    /\ addrs \subseteq IPs
    /\ kpeers \subseteq Keys
    /\ owner \in [IPs -> Keys \cup {None}]
    /\ routes \subseteq IPs

NoOwner == [i \in IPs |-> None]

DeviceInit ==
    /\ link = "absent"
    /\ devKey = None
    /\ addrs = {}
    /\ kpeers = {}
    /\ owner = NoOwner
    /\ routes = {}

(***************************************************************************)
(* wg_add_device: RTM_NEWLINK of kind wireguard.  The new link is down and *)
(* holds nothing.                                                          *)
(***************************************************************************)
AddLink ==
    /\ link' = "down"
    /\ UNCHANGED <<devKey, addrs, kpeers, owner, routes>>

(***************************************************************************)
(* wg_del_device: RTM_DELLINK.  Keys, peers, addresses and routes of the   *)
(* link go with it.  Deleting an absent link (ENODEV) changes nothing.     *)
(***************************************************************************)
DeleteLink ==
    /\ link' = "absent"
    /\ devKey' = None
    /\ addrs' = {}
    /\ kpeers' = {}
    /\ owner' = NoOwner
    /\ routes' = {}

\* wg_set_device with WGDEVICE_HAS_PRIVATE_KEY and no WGDEVICE_REPLACE_PEERS:
\* the peers the device already holds stay.
ConfigureLink(k) ==
    /\ devKey' = k
    /\ UNCHANGED <<link, addrs, kpeers, owner, routes>>

\* RTM_NEWADDR with NLM_F_CREATE | NLM_F_REPLACE: an address is added beside
\* the ones the link has.
AddAddress(i) ==
    /\ addrs' = addrs \cup {i}
    /\ UNCHANGED <<link, devKey, kpeers, owner, routes>>

LinkUp ==
    /\ link' = "up"
    /\ UNCHANGED <<devKey, addrs, kpeers, owner, routes>>

\* A link that goes down loses its routes and keeps its peers.
LinkDown ==
    /\ link' = "down"
    /\ routes' = {}
    /\ UNCHANGED <<devKey, addrs, kpeers, owner>>

\* A slip: WGDEVICE_REPLACE_PEERS is set as well.
SetOnlyKernelPeer(k, ips) ==
    /\ kpeers' = {k}
    /\ owner' = [i \in IPs |-> IF i \in ips THEN k ELSE None]
    /\ UNCHANGED <<link, devKey, addrs, routes>>

(***************************************************************************)
(* wg_set_device with one peer and WGPEER_REPLACE_ALLOWEDIPS: the peer is  *)
(* created or updated, the listed addresses become its own, taken from     *)
(* whichever peer held them, and it loses the ones not listed.             *)
(***************************************************************************)
SetKernelPeer(k, ips) ==
    /\ kpeers' = kpeers \cup {k}
    /\ owner' = [i \in IPs |-> IF i \in ips THEN k
                               ELSE IF owner[i] = k THEN None
                               ELSE owner[i]]
    /\ UNCHANGED <<link, devKey, addrs, routes>>

\* wg_set_device with one peer and WGPEER_REMOVE_ME.
RemoveKernelPeer(k) ==
    /\ kpeers' = kpeers \ {k}
    /\ owner' = [i \in IPs |-> IF owner[i] = k THEN None ELSE owner[i]]
    /\ UNCHANGED <<link, devKey, addrs, routes>>

\* RTM_NEWROUTE with NLM_F_CREATE | NLM_F_REPLACE.
AddRoute(i) ==
    /\ routes' = routes \cup {i}
    /\ UNCHANGED <<link, devKey, addrs, kpeers, owner>>

\* A slip: the request is always RTM_NEWROUTE.
DeleteRouteAdds(i) == AddRoute(i)

\* RTM_DELROUTE.  A route that is not there is an error the caller ignores.
DeleteRoute(i) ==
    /\ routes' = routes \ {i}
    /\ UNCHANGED <<link, devKey, addrs, kpeers, owner>>
=============================================================================
