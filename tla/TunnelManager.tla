--------------------------- MODULE TunnelManager ---------------------------
(***************************************************************************)
(* The tunnel manager of the agent on Linux: tunnel_manager_base with      *)
(* tunnel_manager_impl of src/platform/linux.                              *)
(*                                                                         *)
(* A call runs as a sequence of steps, one per change of the peer list or  *)
(* system call that can fail, and pc names the step to come.  Between two  *)
(* steps the process may die; the kernel keeps what was done.              *)
(*                                                                         *)
(* Peer lists are sets of records: the control plane fixes no order, and   *)
(* every order of removals and additions is explored.                      *)
(***************************************************************************)
EXTENDS WireGuardDevice

CONSTANTS
    Lists,      \* peer lists the control plane may send
    BadKeys,    \* keys that do not decode from base64
    Faults      \* the calls that may fail, out of FaultPoints

Peer == [key : Keys, ips : SUBSET IPs]

\* One name per call whose failure the code handles.
FaultPoints ==
    {"get", "del", "make", "setkey", "addr", "up", "down",
     "config", "setpeer", "unset", "route", "unroute"}

ASSUME ListsAssumption == Lists \subseteq SUBSET Peer

ASSUME FaultsAssumption == Faults \subseteq FaultPoints /\ BadKeys \subseteq Keys

VARIABLES
    selfKey,    \* private_key_ / public_key_
    vpnIp,      \* vpn_ip_, a set that is empty before create_interface
    peers,      \* peers_
    active,     \* is_active_
    op,         \* the operation running, or the last one that ran
    pc,         \* its next step, "idle" when it has returned
    status,     \* the error_code it returned, "busy" while it runs
    want,       \* the argument of the last update_peers
    toRemove,   \* peers_to_remove, less those already handled
    toAdd,      \* peers_to_add, less those already handled
    cur,        \* the peer remove_peer or add_peer works on
    todo        \* its allowed IPs whose route is still to be changed

objVars == <<selfKey, vpnIp, peers, active>>
callVars == <<op, pc, status, want>>
loopVars == <<toRemove, toAdd, cur, todo>>
tunnelVars == <<devVars, objVars, callVars, loopVars>>

NoPeer == [key |-> None, ips |-> {}]

KeysOf(S) == {p.key : p \in S}

IpsOf(S) == UNION {p.ips : p \in S}

Steps ==
    {"idle", "get", "make", "setkey", "addr", "up",
     "remove", "config", "unset", "unroute", "add", "set", "route"}

\* The steps inside remove_peer and add_peer.
PeerSteps == {"config", "unset", "unroute", "set", "route"}

Statuses ==
    {"none", "busy", "success", "file_error", "device_create_failed",
     "device_started_failed", "device_stopped_failed", "peer_add_failed",
     "peer_remove_failed", "exception"}

(***************************************************************************)
(* The types.  A step inside remove_peer or add_peer has a peer to work    *)
(* on, and is_active_ is only set while the link is there: the object does *)
(* not take a tunnel that it deleted for a running one.                    *)
(***************************************************************************)
TypeOK ==
    /\ DeviceTypeOK
    /\ selfKey \in SelfKeys
    /\ vpnIp \subseteq IPs
    /\ peers \subseteq Peer
    /\ active \in BOOLEAN
    /\ active => link # "absent"
    /\ op \in {"none", "create", "update", "start", "stop"}
    /\ pc \in Steps
    /\ status \in Statuses
    /\ want \in Lists \cup {{}}
    /\ toRemove \subseteq Peer
    /\ toAdd \subseteq Peer
    /\ cur \in Peer \cup {NoPeer}
    /\ pc \in PeerSteps => cur \in Peer
    /\ todo \subseteq IPs

(***************************************************************************)
(* The object as the constructor leaves it, with the key pair it           *)
(* generates.                                                              *)
(***************************************************************************)
NewObject ==
    /\ selfKey \in SelfKeys
    /\ vpnIp = {}
    /\ peers = {}
    /\ active = FALSE
    /\ op = "none"
    /\ pc = "idle"
    /\ status = "none"
    /\ want = {}
    /\ toRemove = {}
    /\ toAdd = {}
    /\ cur = NoPeer
    /\ todo = {}

Init == DeviceInit /\ NewObject

(***************************************************************************)
(* How a step ends: the next step of the same call, or the return, which   *)
(* an exception takes too.                                                 *)
(***************************************************************************)
Goto(p) == pc' = p /\ UNCHANGED <<op, status, want>>

Return(s) ==
    /\ pc' = "idle"
    /\ status' = s
    /\ toRemove' = {}
    /\ toAdd' = {}
    /\ cur' = NoPeer
    /\ todo' = {}
    /\ UNCHANGED <<op, want>>

Enter(o, p) == op' = o /\ pc' = p /\ status' = "busy"

----------------------------------------------------------------------------
(* generate_keys and create_interface *)

GenerateKeys(k) ==
    /\ pc = "idle"
    /\ selfKey' = k
    /\ UNCHANGED <<devVars, vpnIp, peers, active, callVars, loopVars>>

CallCreate(ip) ==
    /\ pc = "idle"
    /\ vpnIp' = {ip}
    /\ Enter("create", "get")
    /\ UNCHANGED <<devVars, selfKey, peers, active, want, loopVars>>

\* A slip: the old device is taken over as it is.
KeepOldDevice ==
    /\ pc = "get"
    /\ Goto("make")
    /\ UNCHANGED <<devVars, objVars, loopVars>>

\* A device left by an earlier process is deleted; the result is not looked
\* at, and a device the query misses is not deleted at all.
CleanOldDevice ==
    /\ pc = "get"
    /\ \/ link # "absent" /\ DeleteLink
       \/ link # "absent" /\ Faults \cap {"get", "del"} # {} /\ UNCHANGED devVars
       \/ link = "absent" /\ UNCHANGED devVars
    /\ Goto("make")
    /\ UNCHANGED <<objVars, loopVars>>

\* EEXIST is not an error: the device is reused as it is.
MakeDevice ==
    /\ pc = "make"
    /\ \/ link = "absent" /\ AddLink /\ Goto("setkey") /\ UNCHANGED loopVars
       \/ link # "absent" /\ UNCHANGED devVars /\ Goto("setkey") /\ UNCHANGED loopVars
       \/ "make" \in Faults /\ UNCHANGED devVars /\ Return("device_create_failed")
    /\ UNCHANGED objVars

\* The device is deleted on a failure that comes after its creation.
GiveUpDevice ==
    /\ DeleteLink \/ ("del" \in Faults /\ UNCHANGED devVars)
    /\ Return("device_create_failed")

ConfigureDevice ==
    /\ pc = "setkey"
    /\ \/ ConfigureLink(selfKey) /\ Goto("addr") /\ UNCHANGED loopVars
       \/ "setkey" \in Faults /\ GiveUpDevice
    /\ UNCHANGED objVars

\* A failure is logged and the call goes on without the address.
AssignAddress ==
    /\ pc = "addr"
    /\ \E ip \in vpnIp :
         \/ /\ ip \notin BadIPs
            /\ AddAddress(ip) \/ ("addr" \in Faults /\ UNCHANGED devVars)
            /\ Goto("up")
            /\ UNCHANGED loopVars
         \/ ip \in BadIPs /\ UNCHANGED devVars /\ Return("exception")
    /\ UNCHANGED objVars

BringUp ==
    /\ pc = "up"
    /\ \/ LinkUp /\ Return("success")
       \/ "up" \in Faults /\ GiveUpDevice
    /\ UNCHANGED objVars

----------------------------------------------------------------------------
(* start_tunnel and stop_tunnel *)

CallStart ==
    /\ pc = "idle"
    /\ op' = "start"
    /\ \/ /\ link # "absent"
          /\ LinkUp
          /\ active' = TRUE
          /\ status' = "success"
       \/ /\ link = "absent" \/ Faults \cap {"get", "up"} # {}
          /\ UNCHANGED <<devVars, active>>
          /\ status' = "device_started_failed"
    /\ UNCHANGED <<selfKey, vpnIp, peers, pc, want, loopVars>>

\* A slip: is_active_ is not reset.
CallStopStaysActive ==
    /\ pc = "idle"
    /\ op' = "stop"
    /\ DeleteLink
    /\ status' = "success"
    /\ UNCHANGED <<selfKey, vpnIp, peers, active, pc, want, loopVars>>

CallStop ==
    /\ pc = "idle"
    /\ op' = "stop"
    /\ \/ DeleteLink /\ active' = FALSE /\ status' = "success"
       \/ /\ link # "absent" /\ "del" \in Faults
          /\ LinkDown \/ ("down" \in Faults /\ UNCHANGED devVars)
          /\ active' = active
          /\ status' = "device_stopped_failed"
    /\ UNCHANGED <<selfKey, vpnIp, peers, pc, want, loopVars>>

----------------------------------------------------------------------------
(* update_peers: compute_peer_diff, then remove_peer for every peer that   *)
(* left, then add_peer for every new one, up to the first failure          *)

\* A slip: everything is removed and added again.
ToRemoveAll(L) == peers

ToRemove(L) == {p \in peers : p.key \notin KeysOf(L)}

ToAdd(L) == {p \in L : p.key \notin KeysOf(peers)}

CallUpdate(L) ==
    /\ pc = "idle"
    /\ want' = L
    /\ toRemove' = ToRemove(L)
    /\ toAdd' = ToAdd(L)
    /\ Enter("update", "remove")
    /\ UNCHANGED <<devVars, objVars, cur, todo>>

\* remove_peer, first half.  Every peer of toRemove is in peers, so its
\* "Peer not found" branch is not reached from here.
RemoveFromList ==
    /\ pc = "remove"
    /\ \E p \in toRemove :
         /\ peers' = {q \in peers : q.key # p.key}
         /\ toRemove' = toRemove \ {p}
         /\ cur' = p
    /\ Goto("config")
    /\ UNCHANGED <<devVars, selfKey, vpnIp, active, toAdd, todo>>

\* A slip: the test of is_active_ is the wrong way round.
WriteConfigInverted ==
    /\ pc = "config"
    /\ Goto(IF active THEN "remove" ELSE "unset")
    /\ UNCHANGED <<devVars, objVars, loopVars>>

\* create_config_file; the kernel is only told when the tunnel is active.
WriteConfig ==
    /\ pc = "config"
    /\ \/ Goto(IF active THEN "unset" ELSE "remove") /\ UNCHANGED loopVars
       \/ "config" \in Faults /\ Return("file_error")
    /\ UNCHANGED <<devVars, objVars>>

UnsetFails == link = "absent" \/ cur.key \in BadKeys \/ "unset" \in Faults

\* wg_remove_peer_dynamic: the device, then one route after the other.
UnsetPeer ==
    /\ pc = "unset"
    /\ \/ /\ link # "absent" /\ cur.key \notin BadKeys
          /\ RemoveKernelPeer(cur.key)
          /\ todo' = cur.ips
          /\ Goto("unroute")
          /\ UNCHANGED <<toRemove, toAdd, cur>>
       \/ UnsetFails /\ UNCHANGED devVars /\ Return("peer_remove_failed")
    /\ UNCHANGED objVars

\* A route that cannot be deleted is logged and left.
Unroute(i) ==
    \/ /\ i \notin BadIPs
       /\ DeleteRoute(i) \/ ("unroute" \in Faults /\ UNCHANGED devVars)
       /\ todo' = todo \ {i}
       /\ UNCHANGED <<callVars, toRemove, toAdd, cur>>
    \/ i \in BadIPs /\ UNCHANGED devVars /\ Return("exception")

UnroutePeer ==
    /\ pc = "unroute"
    /\ \/ \E i \in todo : Unroute(i)
       \/ todo = {} /\ Goto("remove") /\ UNCHANGED <<devVars, loopVars>>
    /\ UNCHANGED objVars

\* A slip: additions begin while peers are still to be removed.
RemovalsDoneEarly ==
    /\ pc = "remove"
    /\ Goto("add")
    /\ UNCHANGED <<devVars, objVars, loopVars>>

RemovalsDone ==
    /\ pc = "remove" /\ toRemove = {}
    /\ Goto("add")
    /\ UNCHANGED <<devVars, objVars, loopVars>>

\* A slip: add_peer does not look for the key in the list.
AddToListUnchecked ==
    /\ pc = "add"
    /\ \E p \in toAdd :
         /\ peers' = peers \cup {p}
         /\ toAdd' = toAdd \ {p}
         /\ cur' = p
    /\ Goto("set")
    /\ UNCHANGED <<devVars, selfKey, vpnIp, active, toRemove, todo>>

\* add_peer, first half: the list has the peer before the kernel does.  A key
\* that is there already, from a list that names it twice, is overwritten.
AddToList ==
    /\ pc = "add"
    /\ \E p \in toAdd :
         /\ peers' = {q \in peers : q.key # p.key} \cup {p}
         /\ toAdd' = toAdd \ {p}
         /\ cur' = p
    /\ Goto("set")
    /\ UNCHANGED <<devVars, selfKey, vpnIp, active, toRemove, todo>>

SetFails == link = "absent" \/ cur.key \in BadKeys \/ "setpeer" \in Faults

\* wg_add_peer_dynamic: the allowed IPs that parse go to the device in one
\* request, then each address gets a route.  An address without a prefix is
\* left out of the request; one that does not parse throws before it.
SetPeer ==
    /\ pc = "set"
    /\ \/ /\ link # "absent" /\ cur.key \notin BadKeys
          /\ cur.ips \cap BadIPs = {}
          /\ SetKernelPeer(cur.key, cur.ips \ PlainIPs)
          /\ todo' = cur.ips
          /\ Goto("route")
          /\ UNCHANGED <<toRemove, toAdd, cur>>
       \/ /\ cur.key \notin BadKeys /\ cur.ips \cap BadIPs # {}
          /\ UNCHANGED devVars
          /\ Return("exception")
       \/ /\ cur.key \in BadKeys \/ (cur.ips \cap BadIPs = {} /\ SetFails)
          /\ UNCHANGED devVars
          /\ Return("peer_add_failed")
    /\ UNCHANGED objVars

\* A route is refused on a link that is not up; a failure is only logged.
Route(i) ==
    /\ \/ link = "up" /\ AddRoute(i)
       \/ (link # "up" \/ "route" \in Faults) /\ UNCHANGED devVars
    /\ todo' = todo \ {i}
    /\ UNCHANGED <<callVars, toRemove, toAdd, cur>>

RoutePeer ==
    /\ pc = "route"
    /\ \/ \E i \in todo : Route(i)
       \/ todo = {} /\ Goto("add") /\ UNCHANGED <<devVars, loopVars>>
    /\ UNCHANGED objVars

\* A slip: the call returns before the last peer is added.
UpdateDoneEarly ==
    /\ pc = "add"
    /\ Return("success")
    /\ UNCHANGED <<devVars, objVars>>

UpdateDone ==
    /\ pc = "add" /\ toAdd = {}
    /\ Return("success")
    /\ UNCHANGED <<devVars, objVars>>

----------------------------------------------------------------------------
CreateStep ==
    \/ CleanOldDevice \/ MakeDevice \/ ConfigureDevice
    \/ AssignAddress \/ BringUp

UpdateStep ==
    \/ RemoveFromList \/ WriteConfig \/ UnsetPeer \/ UnroutePeer
    \/ RemovalsDone
    \/ AddToList \/ SetPeer \/ RoutePeer
    \/ UpdateDone

\* The process ends, at any point; another one starts with a new object.
Restart ==
    /\ selfKey' \in SelfKeys
    /\ vpnIp' = {}
    /\ peers' = {}
    /\ active' = FALSE
    /\ op' = "none"
    /\ pc' = "idle"
    /\ status' = "none"
    /\ want' = {}
    /\ toRemove' = {}
    /\ toAdd' = {}
    /\ cur' = NoPeer
    /\ todo' = {}
    /\ UNCHANGED devVars

(***************************************************************************)
(* What the owner of the object calls, in the order vpn_up does: keys,     *)
(* interface, peers, start, each only when the one before succeeded.  Then *)
(* the heartbeat calls update_peers as often as it likes, and the          *)
(* destructor stops an active tunnel.                                      *)
(***************************************************************************)
Created == op = "create" /\ status = "success"

Synced == op = "update" /\ status = "success" /\ ~active

Running == active /\ op # "stop"

Call ==
    \/ op = "none" /\ \E k \in SelfKeys : GenerateKeys(k)
    \/ op = "none" /\ \E ip \in IPs : CallCreate(ip)
    \/ (Created \/ Running) /\ \E L \in Lists : CallUpdate(L)
    \/ Synced /\ CallStart
    \/ Running /\ CallStop

Next == Call \/ CreateStep \/ UpdateStep \/ Restart

Spec == Init /\ [][Next]_tunnelVars
----------------------------------------------------------------------------
(* Properties *)

ListsParse == \A L \in Lists : IpsOf(L) \cap BadIPs = {}

UniqueKeys(S) == \A p, q \in S : p.key = q.key => p = q

Disjoint(S) == \A p, q \in S : p # q => p.ips \cap q.ips = {}

\* The control plane never changes the record of a key, and no two peers of
\* a list share a key or an address.  An address may pass from a peer that
\* left to one that arrives.  The mock server keeps this contract.
Contract ==
    /\ \A L \in Lists : UniqueKeys(L) /\ Disjoint(L)
    /\ UniqueKeys(UNION Lists)

RemovalsReliable == Faults \cap {"get", "del", "config", "unset"} = {}

AddsReliable == "setpeer" \notin Faults /\ BadKeys = {} /\ ListsParse

RoutesReliable == Faults \cap {"route", "unroute"} = {}

\* Nothing fails and the control plane writes every address with its prefix.
Reliable ==
    /\ Contract
    /\ RemovalsReliable /\ AddsReliable /\ RoutesReliable
    /\ PlainIPs = {}

(***************************************************************************)
(* peers_ never holds two records with one key, whatever lists arrive: the *)
(* lookup by key in add_peer, remove_peer and compute_peer_diff depends on *)
(* it.                                                                     *)
(***************************************************************************)
UniquePeerKeys == UniqueKeys(peers)

(***************************************************************************)
(* As long as removals do not fail, the device of this process holds no    *)
(* peer that is not in peers_, except the one remove_peer has erased from  *)
(* the list and not yet from the device: a peer the control plane withdrew *)
(* cannot stay connected, and neither can one of a process that died.      *)
(***************************************************************************)
NoLeftoverPeers ==
    RemovalsReliable /\ op # "none" /\ pc # "get" =>
        kpeers \subseteq KeysOf(peers)
                         \cup (IF pc \in {"config", "unset"} THEN {cur.key} ELSE {})

(***************************************************************************)
(* As long as additions do not fail, every peer in peers_ is on the        *)
(* device, except the one add_peer is about to set: otherwise              *)
(* compute_peer_diff would take it for connected and never add it.         *)
(***************************************************************************)
NoMissingPeers ==
    AddsReliable /\ op # "stop" =>
        KeysOf(peers) \ (IF pc = "set" THEN {cur.key} ELSE {}) \subseteq kpeers

(***************************************************************************)
(* Every address of every peer in peers_ is routed through the link and    *)
(* owned by that peer at every moment, also while other peers are removed  *)
(* and added, and also when its address belonged to another peer before.   *)
(***************************************************************************)
Carried ==
    Contract /\ AddsReliable /\ RoutesReliable /\ op # "stop" =>
        \A p \in peers :
            \/ pc \in {"set", "route"} /\ p = cur
            \/ \A i \in p.ips : i \in routes /\ (i \in PlainIPs \/ owner[i] = p.key)

(***************************************************************************)
(* No route outlives the peer it leads to: when removals and route changes *)
(* do not fail, each route is of a peer in peers_ or of the one that       *)
(* remove_peer has yet to take it from.                                    *)
(***************************************************************************)
NoOrphanRoutes ==
    /\ RemovalsReliable /\ RoutesReliable /\ ListsParse
    /\ \A L \in Lists : UniqueKeys(L)
    /\ op # "none" /\ pc # "get"
    => routes \subseteq IpsOf(peers)
                        \cup (IF pc \in {"config", "unset"} THEN cur.ips ELSE {})
                        \cup (IF pc = "unroute" THEN todo ELSE {})

(***************************************************************************)
(* A running update_peers never takes a peer it was asked to keep off the  *)
(* device, whatever fails and whatever the lists hold: an update does not  *)
(* interrupt the peers that stay.                                          *)
(***************************************************************************)
KeepsWantedPeers ==
    [][status = "busy" /\ op = "update" /\ op' = "update"
         => kpeers \cap KeysOf(want) \subseteq kpeers']_tunnelVars

(***************************************************************************)
(* update_peers returns success only when the device connects exactly the  *)
(* peers of its argument and each of their addresses reaches its peer:     *)
(* tunnel_manager_base.hpp lines 64-69, "Update all peers in the tunnel",  *)
(* "all peers that should be connected".                                   *)
(***************************************************************************)
SuccessMeansApplied ==
    op = "update" /\ status = "success" =>
        /\ kpeers = KeysOf(want)
        /\ \A p \in want : \A i \in p.ips : owner[i] = p.key /\ i \in routes

(***************************************************************************)
(* The tunnel manager implements PeerSync: seen through the keys on the    *)
(* device and the keys of the last argument, update_peers drops before it  *)
(* connects and is synced when it returns success.                         *)
(***************************************************************************)
SyncState ==
    IF op = "update" /\ status = "busy" THEN "busy"
    ELSE IF op \in {"update", "start"} /\ status = "success" THEN "synced"
    ELSE "idle"

Sync == INSTANCE PeerSync WITH
            goal <- KeysOf(want), connected <- kpeers, state <- SyncState

ImplementsPeerSync == Sync!Spec
----------------------------------------------------------------------------
(* The inductive invariant behind the properties *)

CreateSteps == {"get", "make", "setkey", "addr", "up"}

RemoveSteps == {"config", "unset", "unroute"}

AddSteps == {"add", "set", "route"}

UpdateSteps == {"remove"} \cup RemoveSteps \cup AddSteps

\* Where the call is.  In particular nothing is removed before the tunnel is
\* active, so remove_peer never skips the device.
PhaseInv ==
    /\ pc \in CreateSteps => op = "create"
    /\ pc \in UpdateSteps => op = "update"
    /\ pc = "idle" <=> status # "busy"
    /\ op \in {"none", "create"} => peers = {} /\ ~active
    /\ op = "update" /\ ~active => toRemove = {} /\ pc \notin RemoveSteps
    /\ Created \/ op \in {"update", "start"} => link = "up"

\* What the device holds, whoever put it there.
DeviceInv ==
    /\ link = "absent" => kpeers = {} /\ routes = {}
    /\ kpeers \cap BadKeys = {}

\* What a running update has done and has left to do.
UpdateInv ==
    pc \in UpdateSteps =>
        /\ toRemove \subseteq {p \in peers : p.key \notin KeysOf(want)}
        /\ toAdd \subseteq want
        /\ \A p \in peers : p \in toRemove \/ p.key \in KeysOf(want)
        /\ \A p \in want : p.key \in KeysOf(peers) \cup KeysOf(toAdd)
        /\ pc \in RemoveSteps => cur.key \notin KeysOf(peers) \cup KeysOf(want)
        /\ pc \in AddSteps => toRemove = {}
        /\ pc \in {"set", "route"} => cur \in peers \cap want
        /\ pc = "unroute" => todo \subseteq cur.ips

\* The control plane's contract carries over from the lists to peers_.
ContractInv ==
    Contract =>
        /\ peers \subseteq UNION Lists
        /\ Disjoint(peers)
        /\ pc \in RemoveSteps => cur.ips \cap IpsOf(peers) = {}

\* While add_peer sets the routes of a peer, its addresses are its own and
\* those not routed yet are still to come.
RoutingInv ==
    RoutesReliable /\ pc = "route" =>
        \A i \in cur.ips :
            i \in routes \cup todo /\ (i \in PlainIPs \/ owner[i] = cur.key)

IInv ==
    /\ PhaseInv
    /\ DeviceInv
    /\ UniquePeerKeys
    /\ UpdateInv
    /\ ContractInv
    /\ NoLeftoverPeers
    /\ RoutingInv
    /\ NoMissingPeers
    /\ Carried
=============================================================================
