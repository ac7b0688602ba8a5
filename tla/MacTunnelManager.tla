-------------------------- MODULE MacTunnelManager --------------------------
(***************************************************************************)
(* The tunnel manager of the agent on macOS: tunnel_manager_base with      *)
(* tunnel_manager_impl of src/platform/macos.                              *)
(*                                                                         *)
(* add_peer, remove_peer and update_peers are those of the base class, so  *)
(* their steps are TunnelManager's; the virtual functions they call are    *)
(* here.  They run wg, wg-quick and route, external programs that work or  *)
(* fail as a whole, and the link is made by wg-quick up, out of a file     *)
(* that create_interface and remove_peer write.  File and link outlive the *)
(* process.                                                                *)
(***************************************************************************)
EXTENDS TunnelManager

CONSTANT MacFaults  \* the commands that may fail, out of MacFaultPoints

MacFaultPoints ==
    {"genkey", "pubkey", "config", "write", "up", "down",
     "setpeer", "unset", "route", "unroute"}

ASSUME MacFaultsAssumption == MacFaults \subseteq MacFaultPoints

VARIABLES
    pubKey,     \* public_key_; selfKey is private_key_ alone here
    file,       \* wg0.conf
    failed      \* what has gone wrong since the object was made

macVars == <<pubKey, file, failed>>
allVars == <<tunnelVars, macVars>>

\* The two ways a removal fails, an addition, a route command, and the
\* writing of the file.
Failures == {"open", "remove", "add", "route", "write"}

File == [key : SelfKeys \cup {None}, ip : SUBSET IPs, peers : SUBSET Peer]

EmptyFile == [key |-> None, ip |-> {}, peers |-> {}]

(***************************************************************************)
(* The types.  As on Linux, is_active_ is only set while the link is there.*)
(***************************************************************************)
MacTypeOK ==
    /\ DeviceTypeOK
    /\ selfKey \in SelfKeys \cup {None}
    /\ pubKey \in SelfKeys \cup {None}
    /\ vpnIp \subseteq IPs
    /\ peers \subseteq Peer
    /\ active \in BOOLEAN
    /\ active => link # "absent"
    /\ op \in {"none", "keys", "create", "update", "start", "stop"}
    /\ pc \in {"idle", "remove", "config", "write", "unset", "unroute",
               "add", "set", "route"}
    /\ status \in {"none", "busy", "success", "file_error", "system_error"}
    /\ want \in Lists \cup {{}}
    /\ toRemove \subseteq Peer
    /\ toAdd \subseteq Peer
    /\ cur \in Peer \cup {NoPeer}
    /\ todo \subseteq IPs
    /\ file \in File
    /\ failed \subseteq Failures

(***************************************************************************)
(* The constructor, which only logs a failure of generate_keys: the pair   *)
(* may be missing, or its public half.                                     *)
(***************************************************************************)
NewPairs ==
    {<<k, k>> : k \in SelfKeys}
    \cup (IF "genkey" \in MacFaults THEN {<<None, None>>} ELSE {})
    \cup (IF "pubkey" \in MacFaults THEN {<<k, None>> : k \in SelfKeys} ELSE {})

MacInit ==
    /\ DeviceInit
    /\ \E pair \in NewPairs : selfKey = pair[1] /\ pubKey = pair[2]
    /\ vpnIp = {}
    /\ peers = {}
    /\ active = FALSE
    /\ op = "none"
    /\ pc = "idle"
    /\ status = "none"
    /\ want = {}
    /\ toRemove = {}
    /\ toAdd = {}
    /\ cur = NoPeer
    /\ todo = {}
    /\ file = EmptyFile
    /\ failed = {}

Fail(what) == failed' = failed \cup {what} /\ UNCHANGED <<pubKey, file>>

----------------------------------------------------------------------------
(* generate_keys: wg genkey, then wg pubkey on what it printed *)

MacGenerateKeys ==
    /\ pc = "idle"
    /\ op' = "keys"
    /\ \/ \E k \in SelfKeys : selfKey' = k /\ pubKey' = k /\ status' = "success"
       \/ /\ "genkey" \in MacFaults
          /\ status' = "system_error" /\ UNCHANGED <<selfKey, pubKey>>
       \/ /\ "pubkey" \in MacFaults
          /\ \E k \in SelfKeys : selfKey' = k
          /\ status' = "system_error" /\ UNCHANGED pubKey
    /\ UNCHANGED <<devVars, vpnIp, peers, active, pc, want, loopVars, file, failed>>

----------------------------------------------------------------------------
(* create_interface makes no interface: it writes the file *)

MacCallCreate(ip) ==
    /\ pc = "idle"
    /\ vpnIp' = {ip}
    /\ Enter("create", "config")
    /\ UNCHANGED <<devVars, selfKey, peers, active, want, loopVars, macVars>>

\* create_config_file, first half: the directory is made and the file is
\* opened, which cuts it to nothing.  When that fails, remove_peer returns,
\* and the peer it took from the list stays in the file and on the device.
OpenConfig ==
    /\ pc = "config"
    /\ \/ /\ file' = EmptyFile
          /\ Goto("write")
          /\ UNCHANGED <<loopVars, pubKey, failed>>
       \/ /\ "config" \in MacFaults
          /\ Return("file_error")
          /\ IF op = "update" THEN Fail("open") ELSE UNCHANGED macVars
    /\ UNCHANGED <<devVars, objVars>>

Contents == [key |-> selfKey, ip |-> vpnIp, peers |-> peers]

\* What a full disk may leave of it.
Cuts(f) == {EmptyFile} \cup {[f EXCEPT !.peers = S] : S \in SUBSET f.peers}

\* A slip: the test of is_active_ is the wrong way round.
ConfigWrittenInverted ==
    \/ op = "create" /\ Return("success")
    \/ op = "update" /\ Goto(IF active THEN "remove" ELSE "unset") /\ UNCHANGED loopVars

\* Where create_config_file returns to: create_interface or remove_peer.
ConfigWritten ==
    \/ op = "create" /\ Return("success")
    \/ op = "update" /\ Goto(IF active THEN "unset" ELSE "remove") /\ UNCHANGED loopVars

\* A slip: the file is written with the peer that is on its way out.
WriteConfigTooEarly ==
    /\ pc = "write"
    /\ file' = [Contents EXCEPT !.peers = peers \cup ({cur} \ {NoPeer})]
    /\ ConfigWritten
    /\ UNCHANGED <<devVars, objVars, pubKey, failed>>

\* Second half; the state of the stream is not looked at.
WriteConfigFile ==
    /\ pc = "write"
    /\ \/ file' = Contents /\ UNCHANGED <<pubKey, failed>>
       \/ /\ "write" \in MacFaults
          /\ file' \in Cuts(Contents)
          /\ failed' = failed \cup {"write"}
          /\ UNCHANGED pubKey
    /\ ConfigWritten
    /\ UNCHANGED <<devVars, objVars>>

----------------------------------------------------------------------------
(* start_tunnel and stop_tunnel *)

FileParses ==
    /\ KeysOf(file.peers) \cap BadKeys = {}
    /\ (file.ip \cup IpsOf(file.peers)) \cap BadIPs = {}

\* wg-quick up: the link is made and takes all it has from the file.  Of two
\* peers of the file with the same address one gets it.
BringUpFromFile ==
    /\ link' = "up"
    /\ devKey' = file.key
    /\ addrs' = file.ip
    /\ kpeers' = KeysOf(file.peers)
    /\ owner' \in {o \in [IPs -> Keys \cup {None}] : \A i \in IPs :
                      IF i \in IpsOf(file.peers)
                      THEN \E p \in file.peers : i \in p.ips /\ o[i] = p.key
                      ELSE o[i] = None}
    /\ routes' = IpsOf(file.peers)

\* A slip: a link that exists already is as good as a new one.
StartOverOldLink ==
    /\ pc = "idle"
    /\ op' = "start"
    /\ IF link = "absent" THEN BringUpFromFile ELSE UNCHANGED devVars
    /\ active' = TRUE
    /\ status' = "success"
    /\ UNCHANGED <<selfKey, vpnIp, peers, pc, want, loopVars, macVars>>

\* wg-quick refuses when the link exists, and undoes what it began when the
\* file does not parse.  The early return for an active
\* tunnel is not reached: it is started once.
MacCallStart ==
    /\ pc = "idle"
    /\ op' = "start"
    /\ \/ /\ link = "absent" /\ FileParses
          /\ BringUpFromFile
          /\ active' = TRUE
          /\ status' = "success"
       \/ /\ link # "absent" \/ ~FileParses \/ "up" \in MacFaults
          /\ UNCHANGED <<devVars, active>>
          /\ status' = "system_error"
    /\ UNCHANGED <<selfKey, vpnIp, peers, pc, want, loopVars, macVars>>

\* A slip: is_active_ is not reset.
MacCallStopStaysActive ==
    /\ pc = "idle"
    /\ op' = "stop"
    /\ link # "absent"
    /\ DeleteLink
    /\ status' = "success"
    /\ UNCHANGED <<selfKey, vpnIp, peers, active, pc, want, loopVars, macVars>>

\* Only the destructor stops a tunnel, and only an active one.
MacCallStop ==
    /\ pc = "idle"
    /\ op' = "stop"
    /\ \/ /\ link # "absent"
          /\ DeleteLink
          /\ active' = FALSE
          /\ status' = "success"
       \/ /\ "down" \in MacFaults
          /\ UNCHANGED <<devVars, active>>
          /\ status' = "system_error"
    /\ UNCHANGED <<selfKey, vpnIp, peers, pc, want, loopVars, macVars>>

----------------------------------------------------------------------------
(* update_peers, with the steps of the base class *)

\* compute_peer_diff is the one of Linux, line for line.
MacCallUpdate(L) == CallUpdate(L) /\ UNCHANGED macVars

BaseStep ==
    /\ RemoveFromList \/ RemovalsDone \/ AddToList \/ UpdateDone
    /\ UNCHANGED macVars

\* wg_remove_peer_dynamic: wg set, then one route after the other.
MacUnsetPeer ==
    /\ pc = "unset"
    /\ \/ /\ link # "absent" /\ cur.key \notin BadKeys
          /\ RemoveKernelPeer(cur.key)
          /\ todo' = cur.ips
          /\ Goto("unroute")
          /\ UNCHANGED <<toRemove, toAdd, cur, macVars>>
       \/ /\ UnsetFails \/ "unset" \in MacFaults
          /\ UNCHANGED devVars
          /\ Return("system_error")
          /\ Fail("remove")
    /\ UNCHANGED objVars

\* A route command that fails is logged, and that is all.
RouteFails(fault) ==
    /\ \E i \in todo :
         /\ i \in BadIPs \/ link # "up" \/ fault \in MacFaults
         /\ todo' = todo \ {i}
    /\ Fail("route")
    /\ UNCHANGED <<devVars, callVars, toRemove, toAdd, cur>>

RouteWorks(i) ==
    /\ link # "absent"
    /\ todo' = todo \ {i}
    /\ UNCHANGED <<callVars, toRemove, toAdd, cur, macVars>>

RoutesDone(p) == todo = {} /\ Goto(p) /\ UNCHANGED <<devVars, loopVars, macVars>>

MacUnroutePeer ==
    /\ pc = "unroute"
    /\ \/ \E i \in todo \ BadIPs : DeleteRoute(i) /\ RouteWorks(i)
       \/ RouteFails("unroute")
       \/ RoutesDone("remove")
    /\ UNCHANGED objVars

\* What wg set gives the peer; without allowed-ips it keeps what it has.
Allowed == IF cur.ips # {} THEN cur.ips ELSE {i \in IPs : owner[i] = cur.key}

\* wg_add_peer_dynamic.  wg refuses the whole line for one bad address.
MacSetPeer ==
    /\ pc = "set"
    /\ \/ /\ link # "absent" /\ cur.key \notin BadKeys /\ cur.ips \cap BadIPs = {}
          /\ SetKernelPeer(cur.key, Allowed)
          /\ todo' = cur.ips
          /\ Goto("route")
          /\ UNCHANGED <<toRemove, toAdd, cur, macVars>>
       \/ /\ SetFails \/ cur.ips \cap BadIPs # {} \/ "setpeer" \in MacFaults
          /\ UNCHANGED devVars
          /\ Return("system_error")
          /\ Fail("add")
    /\ UNCHANGED objVars

MacRoutePeer ==
    /\ pc = "route"
    /\ \/ \E i \in todo \ BadIPs : AddRoute(i) /\ RouteWorks(i)
       \/ RouteFails("route")
       \/ RoutesDone("add")
    /\ UNCHANGED objVars

----------------------------------------------------------------------------
MacStep ==
    \/ OpenConfig \/ WriteConfigFile
    \/ BaseStep
    \/ MacUnsetPeer \/ MacUnroutePeer
    \/ MacSetPeer \/ MacRoutePeer

\* The process ends, at any point; the file stays as far as it was written.
MacRestart ==
    /\ \E pair \in NewPairs : selfKey' = pair[1] /\ pubKey' = pair[2]
    /\ vpnIp' = {}
    /\ peers' = {}
    /\ active' = FALSE
    /\ op' = "none"
    /\ pc' = "idle"
    /\ status' = "none"
    /\ want' = {}
    /\ toRemove' = {}
    /\ toAdd' = {}
    /\ cur' = NoPeer
    /\ todo' = {}
    /\ failed' = {}
    /\ UNCHANGED <<devVars, file>>

Keyed == op = "keys" /\ status = "success"

\* The owner's calls, as in TunnelManager.
MacCall ==
    \/ op = "none" /\ MacGenerateKeys
    \/ Keyed /\ \E ip \in IPs : MacCallCreate(ip)
    \/ (Created \/ Running) /\ \E L \in Lists : MacCallUpdate(L)
    \/ Synced /\ MacCallStart
    \/ Running /\ MacCallStop

MacNext == MacCall \/ MacStep \/ MacRestart

MacSpec == MacInit /\ [][MacNext]_allVars
----------------------------------------------------------------------------
(* Properties *)

(***************************************************************************)
(* An active tunnel runs with the key pair whose public half the agent     *)
(* registered and with the address it was given, also when an earlier      *)
(* process left a link or a file behind, or failed between the two halves  *)
(* of generate_keys.                                                       *)
(***************************************************************************)
MacKeysAgree ==
    active /\ "write" \notin failed =>
        /\ selfKey # None /\ devKey = selfKey /\ pubKey = selfKey
        /\ addrs = vpnIp

(***************************************************************************)
(* A peer the control plane withdrew does not stay connected: as long as   *)
(* no removal failed, the device of an active tunnel holds the peers in    *)
(* peers_ and the one remove_peer is about to take off.                    *)
(***************************************************************************)
MacNoLeftoverPeers ==
    active /\ failed \cap {"open", "remove"} = {} =>
        kpeers \subseteq KeysOf(peers)
                         \cup (IF pc \in {"config", "write", "unset"} THEN {cur.key} ELSE {})

(***************************************************************************)
(* Every peer in peers_ is connected and reached: as long as no addition   *)
(* and no route command failed, its key is on the device of an active      *)
(* tunnel and each of its addresses belongs to it and is routed, also      *)
(* while other peers are removed and added and addresses change hands.     *)
(***************************************************************************)
MacCarried ==
    Contract /\ active /\ failed \cap {"add", "route"} = {} =>
        \A p \in peers :
            \/ pc = "set" /\ p = cur
            \/ /\ p.key \in kpeers
               /\ \A i \in p.ips :
                     /\ owner[i] = p.key
                     /\ i \in routes \/ (pc = "route" /\ p = cur /\ i \in todo)

(***************************************************************************)
(* The file on disk, which outlives the process, names no withdrawn peer   *)
(* as long as remove_peer could open it: neither a file that was cut short *)
(* nor a wg set that failed leaves one in it.  It takes the order of       *)
(* remove_peer, list before file (tunnel_manager_base.cpp lines 65 and     *)
(* 76), which also makes the exception: when the file cannot be opened,    *)
(* the peer is off the list and the old file still names it.               *)
(***************************************************************************)
FileForgetsPeers ==
    op \in {"update", "start", "stop"} /\ "open" \notin failed =>
        KeysOf(file.peers) \subseteq KeysOf(peers)
                                      \cup (IF pc = "config" THEN {cur.key} ELSE {})

(***************************************************************************)
(* Seen through the keys of an active tunnel, and as long as nothing has   *)
(* failed, the macOS tunnel manager implements PeerSync too.               *)
(***************************************************************************)
Synchronous == failed = {} /\ op = "update"

MacSyncState ==
    IF Synchronous /\ status = "busy" THEN "busy"
    ELSE IF Synchronous /\ status = "success" /\ active THEN "synced"
    ELSE "idle"

MacSync == INSTANCE PeerSync WITH
               goal <- IF failed = {} THEN KeysOf(want) ELSE {},
               connected <- IF active /\ failed = {} THEN kpeers ELSE {},
               state <- MacSyncState

MacImplementsPeerSync == MacSync!Spec

(***************************************************************************)
(* When no command fails, vpn_up gets its peers onto the tunnel: after     *)
(* create_interface, which is to "Create and configure a WireGuard         *)
(* interface" (tunnel_manager_base.hpp line 27), update_peers succeeds.    *)
(***************************************************************************)
VpnUpAppliesPeers == op = "update" => status # "system_error"
=============================================================================
