---------------------- MODULE MacTunnelManager_proofs ----------------------
(***************************************************************************)
(* Proofs about MacTunnelManager, for every set of keys, addresses, lists  *)
(* and failing commands.                                                   *)
(***************************************************************************)
EXTENDS MacTunnelManager, TLAPS

MacSteps ==
    {"idle", "remove", "config", "write", "unset", "unroute", "add", "set", "route"}

MacRemoveSteps == {"config", "write", "unset", "unroute"}

\* A step inside remove_peer or add_peer has a peer to work on.
MacTypes ==
    /\ MacTypeOK
    /\ pc \in {"unset", "unroute", "set", "route"} => cur \in Peer
    /\ op = "update" /\ pc \in {"config", "write"} => cur \in Peer

\* Where the call is.  No peer is removed from a tunnel that is not active.
MacPhaseInv ==
    /\ pc \in {"config", "write"} => op \in {"create", "update"}
    /\ pc \notin {"idle", "config", "write"} => op = "update"
    /\ pc = "idle" <=> status # "busy"
    /\ op \in {"none", "keys", "create"} => peers = {} /\ ~active
    /\ op = "update" /\ ~active => toRemove = {} /\ pc \notin MacRemoveSteps
    /\ active => link = "up"

\* The pair of the object, the file wg-quick will read, and the link it made.
MacFileInv ==
    /\ Keyed \/ op \in {"create", "update", "start", "stop"} =>
          selfKey # None /\ pubKey = selfKey
    /\ (Created \/ op = "update") /\ ~active =>
          /\ file.peers = {}
          /\ "write" \notin failed => file.key = selfKey /\ file.ip = vpnIp
    /\ active /\ "write" \notin failed => devKey = selfKey /\ addrs = vpnIp

\* An update that runs on no link at all gets no peer past wg set.
MacIdleLinkInv ==
    op = "update" /\ ~active /\ link = "absent" =>
        peers = {} \/ pc = "set" \/ status = "system_error"

\* What a running update has done and has left to do.
MacUpdateInv ==
    op = "update" /\ pc # "idle" =>
        /\ toRemove \subseteq {p \in peers : p.key \notin KeysOf(want)}
        /\ toAdd \subseteq want
        /\ \A p \in peers : p \in toRemove \/ p.key \in KeysOf(want)
        /\ \A p \in want : p.key \in KeysOf(peers) \cup KeysOf(toAdd)
        /\ pc \in MacRemoveSteps => cur.key \notin KeysOf(peers) \cup KeysOf(want)
        /\ pc \in {"add", "set", "route"} => toRemove = {}
        /\ pc \in {"set", "route"} => cur \in peers \cap want
        /\ pc = "unroute" => todo \subseteq cur.ips

MacCore ==
    /\ MacTypes /\ MacPhaseInv /\ MacFileInv /\ MacIdleLinkInv
    /\ UniquePeerKeys /\ MacUpdateInv

\* The control plane's contract carries over from the lists to peers_.
MacContractInv ==
    Contract =>
        /\ peers \subseteq UNION Lists
        /\ Disjoint(peers)
        /\ op = "update" /\ pc \in MacRemoveSteps => cur.ips \cap IpsOf(peers) = {}

\* As long as no addition failed, the device has the peers of peers_.
MacNoMissingPeers ==
    active /\ "add" \notin failed =>
        KeysOf(peers) \ (IF pc = "set" THEN {cur.key} ELSE {}) \subseteq kpeers

MacIInv ==
    /\ MacCore /\ MacContractInv
    /\ MacNoLeftoverPeers /\ MacNoMissingPeers /\ MacCarried /\ FileForgetsPeers
----------------------------------------------------------------------------
(* Type correctness *)

LEMMA MacDeviceTypes ==
    ASSUME DeviceTypeOK
    PROVE  /\ DeleteLink => DeviceTypeOK'
           /\ \A k \in Keys, S \in SUBSET IPs : SetKernelPeer(k, S) => DeviceTypeOK'
           /\ \A k \in Keys : RemoveKernelPeer(k) => DeviceTypeOK'
           /\ \A i \in IPs : AddRoute(i) => DeviceTypeOK'
           /\ \A i \in IPs : DeleteRoute(i) => DeviceTypeOK'
           /\ UNCHANGED devVars => DeviceTypeOK'
  BY DEF DeviceTypeOK, DeleteLink, SetKernelPeer, RemoveKernelPeer, AddRoute, DeleteRoute,
         devVars, NoOwner

LEMMA PairTypes ==
    ASSUME NEW pair \in NewPairs
    PROVE  pair[1] \in SelfKeys \cup {None} /\ pair[2] \in SelfKeys \cup {None}
<1>1. CASE pair \in {<<k, k>> : k \in SelfKeys}
  BY <1>1
<1>2. CASE pair = <<None, None>>
  BY <1>2
<1>3. CASE pair \in {<<k, None>> : k \in SelfKeys}
  BY <1>3
<1> QED
  BY <1>1, <1>2, <1>3 DEF NewPairs

LEMMA MacInitTypes == MacInit => MacTypes
<1> SUFFICES ASSUME MacInit PROVE MacTypes
  OBVIOUS
<1>1. DeviceTypeOK
  BY DEF MacInit, DeviceInit, DeviceTypeOK, NoOwner
<1>2. selfKey \in SelfKeys \cup {None} /\ pubKey \in SelfKeys \cup {None}
  BY PairTypes DEF MacInit
<1>3. file \in File
  BY DEF MacInit, File, EmptyFile
<1> QED
  BY <1>1, <1>2, <1>3 DEF MacInit, MacTypes, MacTypeOK

LEMMA MacCallTypes == MacTypes /\ MacCall => MacTypes'
<1> SUFFICES ASSUME MacTypes, MacCall PROVE MacTypes'
  OBVIOUS
<1>0. active' => link' # "absent"
  BY DEF MacTypes, MacTypeOK, MacCall, MacGenerateKeys, MacCallCreate, MacCallUpdate,
     CallUpdate, MacCallStart, BringUpFromFile, MacCallStop, objVars, devVars
<1> USE <1>0 DEF MacTypes, MacTypeOK, Enter, callVars, objVars, loopVars, macVars
<1>1. CASE MacGenerateKeys
  BY <1>1, MacDeviceTypes DEF MacGenerateKeys
<1>2. CASE \E ip \in IPs : MacCallCreate(ip)
  BY <1>2, MacDeviceTypes DEF MacCallCreate
<1>3. CASE \E L \in Lists : MacCallUpdate(L)
  BY <1>3, MacDeviceTypes, ListsAssumption DEF MacCallUpdate, CallUpdate, ToRemove, ToAdd
<1>4. CASE MacCallStart
  <2>1. BringUpFromFile => DeviceTypeOK'
    BY DEF BringUpFromFile, DeviceTypeOK, File, KeysOf, IpsOf, Peer
  <2> QED
    BY <1>4, <2>1, MacDeviceTypes DEF MacCallStart
<1>5. CASE MacCallStop
  BY <1>5, MacDeviceTypes DEF MacCallStop
<1> QED
  BY <1>1, <1>2, <1>3, <1>4, <1>5 DEF MacCall

LEMMA MacStepTypes == MacTypes /\ MacPhaseInv /\ MacStep => MacTypes'
<1> SUFFICES ASSUME MacTypes, MacPhaseInv, MacStep PROVE MacTypes'
  OBVIOUS
<1>0. active' => link' # "absent"
  BY DEF MacTypes, MacTypeOK, MacStep, OpenConfig, WriteConfigFile, BaseStep,
     RemoveFromList, RemovalsDone, AddToList, UpdateDone, MacUnsetPeer, RemoveKernelPeer,
     MacUnroutePeer, DeleteRoute, MacSetPeer, SetKernelPeer, MacRoutePeer, AddRoute,
     RouteFails, RoutesDone, objVars, devVars
<1> USE <1>0 DEF MacTypes, MacTypeOK, MacPhaseInv, Goto, Return, Fail, Failures, objVars,
            callVars, loopVars, macVars
<1>1. CASE OpenConfig
  <2>1. EmptyFile \in File
    BY DEF EmptyFile, File
  <2>2. DeviceTypeOK'
    BY <1>1, MacDeviceTypes DEF OpenConfig
  <2> QED
    BY <1>1, <2>1, <2>2 DEF OpenConfig
<1>2. CASE WriteConfigFile
  BY <1>2, MacDeviceTypes DEF WriteConfigFile, ConfigWritten, Contents, Cuts, EmptyFile, File
<1>3. CASE BaseStep
  BY <1>3, MacDeviceTypes DEF BaseStep, RemoveFromList, RemovalsDone, AddToList, UpdateDone
<1>4. CASE MacUnsetPeer
  BY <1>4, MacDeviceTypes DEF MacUnsetPeer, Peer
<1>5. CASE MacUnroutePeer
  BY <1>5, MacDeviceTypes DEF MacUnroutePeer, RouteWorks, RouteFails, RoutesDone
<1>6. CASE MacSetPeer
  <2>1. Allowed \in SUBSET IPs
    BY <1>6 DEF MacSetPeer, Allowed, Peer
  <2> QED
    BY <1>6, <2>1, MacDeviceTypes DEF MacSetPeer, Peer
<1>7. CASE MacRoutePeer
  BY <1>7, MacDeviceTypes DEF MacRoutePeer, RouteWorks, RouteFails, RoutesDone
<1> QED
  BY <1>1, <1>2, <1>3, <1>4, <1>5, <1>6, <1>7 DEF MacStep

LEMMA MacRestTypes == MacTypes /\ (MacRestart \/ UNCHANGED allVars) => MacTypes'
<1>1. ASSUME MacTypes, MacRestart PROVE MacTypes'
  <2>1. DeviceTypeOK'
    BY <1>1, MacDeviceTypes DEF MacTypes, MacTypeOK, MacRestart
  <2>2. selfKey' \in SelfKeys \cup {None} /\ pubKey' \in SelfKeys \cup {None}
    BY <1>1, PairTypes DEF MacRestart
  <2> QED
    BY <1>1, <2>1, <2>2 DEF MacTypes, MacTypeOK, MacRestart
<1>2. ASSUME MacTypes, UNCHANGED allVars PROVE MacTypes'
  BY <1>2, MacDeviceTypes DEF MacTypes, MacTypeOK, allVars, tunnelVars, devVars, objVars,
     callVars, loopVars, macVars
<1> QED
  BY <1>1, <1>2
----------------------------------------------------------------------------
(* The phase of a call, the list and the progress of an update *)

LEMMA MacPhaseStep == MacTypes /\ MacPhaseInv /\ [MacNext]_allVars => MacPhaseInv'
<1> SUFFICES ASSUME MacTypes, MacPhaseInv, [MacNext]_allVars PROVE MacPhaseInv'
  OBVIOUS
<1> USE DEF MacPhaseInv, MacRemoveSteps, Goto, Return, Fail, objVars, callVars, loopVars,
            macVars, devVars, Created, Running, Synced, Keyed
<1>1. CASE MacCall
  <2> USE DEF Enter
  <2>1. CASE op = "none" /\ MacGenerateKeys
    BY <2>1 DEF MacGenerateKeys
  <2>2. CASE Keyed /\ \E ip \in IPs : MacCallCreate(ip)
    BY <2>2 DEF MacCallCreate
  <2>3. CASE (Created \/ Running) /\ \E L \in Lists : MacCallUpdate(L)
    BY <2>3 DEF MacCallUpdate, CallUpdate, ToRemove
  <2>4. CASE Synced /\ MacCallStart
    BY <2>4 DEF MacCallStart, BringUpFromFile
  <2>5. CASE Running /\ MacCallStop
    BY <2>5 DEF MacCallStop
  <2> QED
    BY <1>1, <2>1, <2>2, <2>3, <2>4, <2>5 DEF MacCall
<1>2. CASE MacStep
  <2>1. CASE OpenConfig \/ WriteConfigFile
    BY <2>1 DEF OpenConfig, WriteConfigFile, ConfigWritten
  <2>2. CASE BaseStep
    BY <2>2 DEF BaseStep, RemoveFromList, RemovalsDone, AddToList, UpdateDone
  <2>3. CASE MacUnsetPeer \/ MacSetPeer
    BY <2>3 DEF MacUnsetPeer, MacSetPeer, RemoveKernelPeer, SetKernelPeer
  <2>4. CASE MacUnroutePeer \/ MacRoutePeer
    BY <2>4 DEF MacUnroutePeer, MacRoutePeer, RouteWorks, RouteFails, RoutesDone,
                AddRoute, DeleteRoute
  <2> QED
    BY <1>2, <2>1, <2>2, <2>3, <2>4 DEF MacStep
<1>3. CASE MacRestart \/ UNCHANGED allVars
  BY <1>3 DEF MacRestart, allVars, tunnelVars
<1> QED
  BY <1>1, <1>2, <1>3 DEF MacNext

LEMMA MacUniqueStep == UniquePeerKeys /\ [MacNext]_allVars => UniquePeerKeys'
<1> SUFFICES ASSUME UniquePeerKeys, [MacNext]_allVars PROVE UniquePeerKeys'
  OBVIOUS
<1> USE DEF UniquePeerKeys, UniqueKeys, objVars
<1>1. CASE UNCHANGED peers
  BY <1>1
<1>2. CASE RemoveFromList
  BY <1>2 DEF RemoveFromList
<1>3. CASE AddToList
  BY <1>3 DEF AddToList
<1>4. CASE MacCall
  BY <1>1, <1>4 DEF MacCall, MacGenerateKeys, MacCallCreate, MacCallUpdate, CallUpdate,
     MacCallStart, MacCallStop
<1>5. CASE MacStep
  BY <1>1, <1>2, <1>3, <1>5 DEF MacStep, BaseStep, OpenConfig, WriteConfigFile,
     MacUnsetPeer, MacUnroutePeer, RemovalsDone, MacSetPeer, MacRoutePeer, UpdateDone
<1>6. CASE MacRestart \/ UNCHANGED allVars
  BY <1>1, <1>6 DEF MacRestart, allVars, tunnelVars
<1> QED
  BY <1>4, <1>5, <1>6 DEF MacNext

LEMMA MacUpdateStep ==
    MacPhaseInv /\ UniquePeerKeys /\ MacUpdateInv /\ [MacNext]_allVars => MacUpdateInv'
<1> SUFFICES ASSUME MacPhaseInv, UniquePeerKeys, MacUpdateInv, [MacNext]_allVars
             PROVE  MacUpdateInv'
  OBVIOUS
<1> USE DEF MacUpdateInv, MacRemoveSteps, KeysOf, Goto, Return, Fail, objVars, callVars,
            loopVars
<1>1. CASE MacCall
  <2>1. CASE (Created \/ Running) /\ \E L \in Lists : MacCallUpdate(L)
    BY <2>1 DEF MacCallUpdate, CallUpdate, ToRemove, ToAdd, Enter
  <2> QED
    BY <1>1, <2>1 DEF MacCall, MacGenerateKeys, MacCallCreate, MacCallStart, MacCallStop,
       Enter
<1>2. CASE MacStep
  <2>1. CASE OpenConfig \/ WriteConfigFile
    BY <2>1 DEF OpenConfig, WriteConfigFile, ConfigWritten, MacPhaseInv
  <2>2. CASE RemoveFromList
    BY <2>2 DEF RemoveFromList, UniquePeerKeys, UniqueKeys, MacPhaseInv
  <2>3. CASE RemovalsDone \/ UpdateDone
    BY <2>3 DEF RemovalsDone, UpdateDone, MacPhaseInv
  <2>4. CASE AddToList
    BY <2>4 DEF AddToList, MacPhaseInv
  <2>5. CASE MacUnsetPeer \/ MacSetPeer
    BY <2>5 DEF MacUnsetPeer, MacSetPeer, MacPhaseInv
  <2>6. CASE MacUnroutePeer \/ MacRoutePeer
    BY <2>6 DEF MacUnroutePeer, MacRoutePeer, RouteWorks, RouteFails, RoutesDone, MacPhaseInv
  <2> QED
    BY <1>2, <2>1, <2>2, <2>3, <2>4, <2>5, <2>6 DEF MacStep, BaseStep
<1>3. CASE MacRestart \/ UNCHANGED allVars
  BY <1>3 DEF MacRestart, allVars, tunnelVars
<1> QED
  BY <1>1, <1>2, <1>3 DEF MacNext
----------------------------------------------------------------------------
(* The key pair, the file and the link *)

LEMMA MacFileStep ==
    MacTypes /\ MacPhaseInv /\ MacFileInv /\ MacIdleLinkInv /\ [MacNext]_allVars => MacFileInv'
<1> SUFFICES ASSUME MacTypes, MacPhaseInv, MacFileInv, MacIdleLinkInv, [MacNext]_allVars
             PROVE  MacFileInv'
  OBVIOUS
<1> USE DEF MacFileInv, MacPhaseInv, MacRemoveSteps, Goto, Return, Fail, objVars, callVars,
            loopVars, macVars, devVars, Created, Keyed
<1>1. CASE MacCall
  <2> USE DEF Enter, Running, Synced
  <2>1. CASE op = "none" /\ MacGenerateKeys
    BY <2>1, NoneAssumption DEF MacGenerateKeys
  <2>2. CASE Keyed /\ \E ip \in IPs : MacCallCreate(ip)
    BY <2>2 DEF MacCallCreate
  <2>3. CASE (Created \/ Running) /\ \E L \in Lists : MacCallUpdate(L)
    BY <2>3 DEF MacCallUpdate, CallUpdate, MacTypes, MacTypeOK
  <2>4. CASE Synced /\ MacCallStart
    BY <2>4 DEF MacCallStart, BringUpFromFile
  <2>5. CASE Running /\ MacCallStop
    BY <2>5 DEF MacCallStop, MacTypes, MacTypeOK
  <2> QED
    BY <1>1, <2>1, <2>2, <2>3, <2>4, <2>5 DEF MacCall
<1>2. CASE MacStep
  <2>1. CASE OpenConfig
    BY <2>1 DEF OpenConfig
  <2>2. CASE WriteConfigFile
    BY <2>2 DEF WriteConfigFile, ConfigWritten, Contents, Cuts, EmptyFile
  <2>3. CASE BaseStep
    BY <2>3 DEF BaseStep, RemoveFromList, RemovalsDone, AddToList, UpdateDone
  <2>4. CASE MacUnsetPeer \/ MacSetPeer
    BY <2>4 DEF MacUnsetPeer, MacSetPeer, RemoveKernelPeer, SetKernelPeer
  <2>5. CASE MacUnroutePeer \/ MacRoutePeer
    BY <2>5 DEF MacUnroutePeer, MacRoutePeer, RouteWorks, RouteFails, RoutesDone,
                AddRoute, DeleteRoute
  <2> QED
    BY <1>2, <2>1, <2>2, <2>3, <2>4, <2>5 DEF MacStep
<1>3. CASE MacRestart \/ UNCHANGED allVars
  BY <1>3 DEF MacRestart, allVars, tunnelVars
<1> QED
  BY <1>1, <1>2, <1>3 DEF MacNext

LEMMA MacIdleLinkStep ==
    MacPhaseInv /\ MacIdleLinkInv /\ [MacNext]_allVars => MacIdleLinkInv'
<1> SUFFICES ASSUME MacPhaseInv, MacIdleLinkInv, [MacNext]_allVars PROVE MacIdleLinkInv'
  OBVIOUS
<1> USE DEF MacIdleLinkInv, MacPhaseInv, MacRemoveSteps, Goto, Return, Fail, objVars,
            callVars, loopVars, macVars, devVars, Created
<1>1. CASE MacCall
  BY <1>1 DEF MacCall, MacGenerateKeys, MacCallCreate, MacCallUpdate, CallUpdate,
     MacCallStart, MacCallStop, Enter, Running
<1>2. CASE MacStep
  <2>1. CASE OpenConfig \/ WriteConfigFile
    BY <2>1 DEF OpenConfig, WriteConfigFile, ConfigWritten
  <2>2. CASE BaseStep
    <3>1. /\ op' = op /\ active' = active /\ link' = link
          /\ op = "update" /\ status = "busy"
      BY <2>2 DEF BaseStep, RemoveFromList, RemovalsDone, AddToList, UpdateDone
    <3>2. CASE RemoveFromList
      BY <3>1, <3>2 DEF RemoveFromList
    <3>3. CASE AddToList
      BY <3>1, <3>3 DEF AddToList
    <3>4. CASE RemovalsDone \/ UpdateDone
      BY <3>1, <3>4 DEF RemovalsDone, UpdateDone
    <3> QED
      BY <2>2, <3>2, <3>3, <3>4 DEF BaseStep
  <2>3. CASE MacUnsetPeer \/ MacSetPeer
    BY <2>3 DEF MacUnsetPeer, MacSetPeer, RemoveKernelPeer, SetKernelPeer
  <2>4. CASE MacUnroutePeer \/ MacRoutePeer
    BY <2>4 DEF MacUnroutePeer, MacRoutePeer, RouteWorks, RouteFails, RoutesDone,
                AddRoute, DeleteRoute
  <2> QED
    BY <1>2, <2>1, <2>2, <2>3, <2>4 DEF MacStep
<1>3. CASE MacRestart \/ UNCHANGED allVars
  BY <1>3 DEF MacRestart, allVars, tunnelVars
<1> QED
  BY <1>1, <1>2, <1>3 DEF MacNext

LEMMA MacInitCore == MacInit => MacCore
<1>1. MacInit => /\ MacPhaseInv /\ MacFileInv /\ MacIdleLinkInv
                 /\ UniquePeerKeys /\ MacUpdateInv
  BY DEF MacInit, MacPhaseInv, MacFileInv, MacIdleLinkInv, UniquePeerKeys, UniqueKeys,
         MacUpdateInv, MacRemoveSteps, Created, Keyed
<1> QED
  BY <1>1, MacInitTypes DEF MacCore

LEMMA MacCoreStep == MacCore /\ [MacNext]_allVars => MacCore'
<1>1. MacTypes /\ MacPhaseInv /\ [MacNext]_allVars => MacTypes'
  BY MacCallTypes, MacStepTypes, MacRestTypes DEF MacNext
<1> QED
  BY <1>1, MacPhaseStep, MacUniqueStep, MacUpdateStep, MacFileStep, MacIdleLinkStep
  DEF MacCore

LEMMA MacCoreInvariant == MacSpec => []MacCore
  BY MacInitCore, MacCoreStep, PTL DEF MacSpec

(***************************************************************************)
(* The macOS tunnel manager only ever reaches states of the declared       *)
(* types, whatever commands fail: in particular every status is an         *)
(* error_code of the source, the file on disk has the three parts wg-quick *)
(* reads, and is_active_ is not set without a link.                        *)
(***************************************************************************)
THEOREM MacTypeCorrect == MacSpec => []MacTypeOK
<1>1. MacCore => MacTypeOK
  BY DEF MacCore, MacTypes
<1> QED
  BY <1>1, MacCoreInvariant, PTL

(***************************************************************************)
(* An active tunnel has the pair whose public half is registered, however  *)
(* often genkey, pubkey or anything else failed, and whatever link or file *)
(* an earlier process left.                                                *)
(***************************************************************************)
THEOREM MacOneKey == MacSpec => []MacKeysAgree
<1>1. MacCore => MacKeysAgree
  BY DEF MacCore, MacTypes, MacTypeOK, MacPhaseInv, MacFileInv, MacKeysAgree
<1> QED
  BY <1>1, MacCoreInvariant, PTL
----------------------------------------------------------------------------
(* The device, the file and the peer list *)

LEMMA MacLeftoverStep ==
    MacCore /\ MacNoLeftoverPeers /\ [MacNext]_allVars => MacNoLeftoverPeers'
<1> SUFFICES ASSUME MacCore, MacNoLeftoverPeers, [MacNext]_allVars, active',
                    failed' \cap {"open", "remove"} = {}
             PROVE  kpeers' \subseteq KeysOf(peers)'
                       \cup (IF pc' \in {"config", "write", "unset"} THEN {cur'.key} ELSE {})
  BY DEF MacNoLeftoverPeers
<1> USE DEF MacNoLeftoverPeers, KeysOf, Goto, Return, Fail, objVars, callVars, loopVars,
            macVars, devVars
<1>1. CASE MacCall
  BY <1>1 DEF MacCall, MacGenerateKeys, MacCallCreate, MacCallUpdate, CallUpdate,
     MacCallStart, BringUpFromFile, MacCallStop, Enter, Running, Synced, Created,
     MacCore, MacPhaseInv, MacFileInv
<1>2. CASE MacStep
  <2>1. failed \cap {"open", "remove"} = {} /\ active /\ active' = active
    BY <1>2 DEF MacStep, OpenConfig, WriteConfigFile, BaseStep, RemoveFromList, RemovalsDone,
       AddToList, UpdateDone, MacUnsetPeer, MacUnroutePeer, MacSetPeer, MacRoutePeer,
       RouteWorks, RouteFails, RoutesDone
  <2>2. op \in {"create", "update"} /\ op # "create"
    BY <1>2, <2>1 DEF MacStep, OpenConfig, WriteConfigFile, BaseStep, RemoveFromList,
       RemovalsDone, AddToList, UpdateDone, MacUnsetPeer, MacUnroutePeer, MacSetPeer,
       MacRoutePeer, RouteWorks, RouteFails, RoutesDone, MacCore, MacPhaseInv
  <2>3. CASE OpenConfig \/ WriteConfigFile
    BY <2>1, <2>2, <2>3 DEF OpenConfig, WriteConfigFile, ConfigWritten
  <2>4. CASE BaseStep
    BY <2>1, <2>4 DEF BaseStep, RemoveFromList, RemovalsDone, AddToList, UpdateDone
  <2>5. CASE MacUnsetPeer
    BY <2>1, <2>5 DEF MacUnsetPeer, RemoveKernelPeer
  <2>6. CASE MacSetPeer
    BY <2>1, <2>2, <2>6 DEF MacSetPeer, SetKernelPeer, MacCore, MacUpdateInv
  <2>7. CASE MacUnroutePeer \/ MacRoutePeer
    BY <2>1, <2>7 DEF MacUnroutePeer, MacRoutePeer, RouteWorks, RouteFails, RoutesDone,
                AddRoute, DeleteRoute
  <2> QED
    BY <1>2, <2>3, <2>4, <2>5, <2>6, <2>7 DEF MacStep
<1>3. CASE MacRestart \/ UNCHANGED allVars
  BY <1>3 DEF MacRestart, allVars, tunnelVars
<1> QED
  BY <1>1, <1>2, <1>3 DEF MacNext

LEMMA MacMissingStep ==
    MacCore /\ MacNoMissingPeers /\ [MacNext]_allVars => MacNoMissingPeers'
<1> SUFFICES ASSUME MacCore, MacNoMissingPeers, [MacNext]_allVars, active',
                    "add" \notin failed'
             PROVE  KeysOf(peers)' \ (IF pc' = "set" THEN {cur'.key} ELSE {}) \subseteq kpeers'
  BY DEF MacNoMissingPeers
<1> USE DEF MacNoMissingPeers, KeysOf, Goto, Return, Fail, objVars, callVars, loopVars,
            macVars, devVars
<1>1. CASE MacCall
  BY <1>1 DEF MacCall, MacGenerateKeys, MacCallCreate, MacCallUpdate, CallUpdate,
     MacCallStart, BringUpFromFile, MacCallStop, Enter, Running, Synced, Created,
     MacCore, MacPhaseInv, MacIdleLinkInv
<1>2. CASE MacStep
  <2>1. "add" \notin failed /\ active /\ active' = active
    BY <1>2 DEF MacStep, OpenConfig, WriteConfigFile, BaseStep, RemoveFromList, RemovalsDone,
       AddToList, UpdateDone, MacUnsetPeer, MacUnroutePeer, MacSetPeer, MacRoutePeer,
       RouteWorks, RouteFails, RoutesDone
  <2>2. CASE OpenConfig \/ WriteConfigFile
    BY <2>1, <2>2 DEF OpenConfig, WriteConfigFile, ConfigWritten
  <2>3. CASE BaseStep
    BY <2>1, <2>3 DEF BaseStep, RemoveFromList, RemovalsDone, AddToList, UpdateDone
  <2>4. CASE MacUnsetPeer
    BY <2>1, <2>4 DEF MacUnsetPeer, RemoveKernelPeer, MacCore, MacPhaseInv, MacUpdateInv,
                      MacRemoveSteps
  <2>5. CASE MacSetPeer
    BY <2>1, <2>5 DEF MacSetPeer, SetKernelPeer
  <2>6. CASE MacUnroutePeer \/ MacRoutePeer
    BY <2>1, <2>6 DEF MacUnroutePeer, MacRoutePeer, RouteWorks, RouteFails, RoutesDone,
                AddRoute, DeleteRoute
  <2> QED
    BY <1>2, <2>2, <2>3, <2>4, <2>5, <2>6 DEF MacStep
<1>3. CASE MacRestart \/ UNCHANGED allVars
  BY <1>3 DEF MacRestart, allVars, tunnelVars
<1> QED
  BY <1>1, <1>2, <1>3 DEF MacNext

LEMMA MacForgetStep ==
    MacCore /\ FileForgetsPeers /\ [MacNext]_allVars => FileForgetsPeers'
<1> SUFFICES ASSUME MacCore, FileForgetsPeers, [MacNext]_allVars,
                    op' \in {"update", "start", "stop"}, "open" \notin failed'
             PROVE  KeysOf(file.peers)' \subseteq
                       KeysOf(peers)' \cup (IF pc' = "config" THEN {cur'.key} ELSE {})
  BY DEF FileForgetsPeers
<1> USE DEF FileForgetsPeers, KeysOf, Goto, Return, Fail, objVars, callVars, loopVars,
            macVars, devVars
<1>1. CASE MacCall
  BY <1>1 DEF MacCall, MacGenerateKeys, MacCallCreate, MacCallUpdate, CallUpdate,
     MacCallStart, MacCallStop, Enter, Running, Synced, Created, MacCore, MacTypes,
     MacTypeOK, MacPhaseInv, MacFileInv
<1>2. CASE MacStep
  <2>1. "open" \notin failed /\ op = "update" /\ active' = active
    BY <1>2 DEF MacStep, OpenConfig, WriteConfigFile, ConfigWritten, BaseStep,
       RemoveFromList, RemovalsDone, AddToList, UpdateDone, MacUnsetPeer, MacUnroutePeer,
       MacSetPeer, MacRoutePeer, RouteWorks, RouteFails, RoutesDone, MacCore, MacPhaseInv
  <2>2. CASE OpenConfig
    BY <2>1, <2>2 DEF OpenConfig, EmptyFile
  <2>3. CASE WriteConfigFile
    BY <2>1, <2>3 DEF WriteConfigFile, ConfigWritten, Contents, Cuts, EmptyFile
  <2>4. CASE BaseStep
    BY <2>1, <2>4 DEF BaseStep, RemoveFromList, RemovalsDone, AddToList, UpdateDone
  <2>5. CASE MacUnsetPeer \/ MacSetPeer
    BY <2>1, <2>5 DEF MacUnsetPeer, MacSetPeer
  <2>6. CASE MacUnroutePeer \/ MacRoutePeer
    BY <2>1, <2>6 DEF MacUnroutePeer, MacRoutePeer, RouteWorks, RouteFails, RoutesDone
  <2> QED
    BY <1>2, <2>2, <2>3, <2>4, <2>5, <2>6 DEF MacStep
<1>3. CASE MacRestart \/ UNCHANGED allVars
  BY <1>3 DEF MacRestart, allVars, tunnelVars
<1> QED
  BY <1>1, <1>2, <1>3 DEF MacNext

\* Once removals are done, peers_ holds records of the argument only.
LEMMA MacAddingWithinWant ==
    ASSUME MacCore, MacContractInv, Contract, op = "update", pc \in {"add", "set", "route"}
    PROVE  peers \subseteq want /\ Disjoint(want) /\ toAdd \subseteq want
           /\ want \subseteq UNION Lists
<1>1. want \subseteq UNION Lists /\ Disjoint(want)
  BY DEF MacCore, MacTypes, MacTypeOK, Contract, Disjoint
<1>2. \A p \in peers : p.key \in KeysOf(want)
  BY DEF MacCore, MacUpdateInv
<1>3. peers \subseteq want
  BY <1>1, <1>2 DEF MacContractInv, Contract, UniqueKeys, KeysOf
<1> QED
  BY <1>1, <1>3 DEF MacCore, MacUpdateInv

LEMMA MacContractStep ==
    MacCore /\ MacContractInv /\ [MacNext]_allVars => MacContractInv'
<1> SUFFICES ASSUME MacCore, MacContractInv, [MacNext]_allVars, Contract
             PROVE  MacContractInv'
  BY DEF MacContractInv, Contract, UniqueKeys, Disjoint
<1> USE DEF MacContractInv, IpsOf, MacRemoveSteps, Goto, Return, Fail, objVars, callVars,
            loopVars
<1>1. CASE UNCHANGED peers /\ (pc' \notin MacRemoveSteps \/ op' # "update")
  BY <1>1 DEF Disjoint
<1>2. CASE MacCall
  BY <1>1, <1>2 DEF MacCall, MacGenerateKeys, MacCallCreate, MacCallUpdate, CallUpdate,
     MacCallStart, MacCallStop, Enter, Disjoint
<1>3. CASE MacStep
  <2>1. CASE OpenConfig
    BY <2>1 DEF OpenConfig, Disjoint
  <2>2. CASE WriteConfigFile
    BY <2>2 DEF WriteConfigFile, ConfigWritten, Disjoint
  <2>3. CASE RemoveFromList
    BY <2>3 DEF RemoveFromList, Disjoint, MacCore, MacUpdateInv, MacPhaseInv
  <2>4. CASE RemovalsDone \/ UpdateDone
    BY <1>1, <2>4 DEF RemovalsDone, UpdateDone
  <2>5. CASE AddToList
    <3>1. /\ peers \subseteq want /\ Disjoint(want) /\ toAdd \subseteq want
          /\ want \subseteq UNION Lists
      BY <2>5, MacAddingWithinWant DEF AddToList, MacCore, MacPhaseInv
    <3> QED
      BY <2>5, <3>1 DEF AddToList, Disjoint
  <2>6. CASE MacUnsetPeer
    BY <2>6 DEF MacUnsetPeer, Disjoint
  <2>7. CASE MacUnroutePeer
    BY <2>7 DEF MacUnroutePeer, RouteWorks, RouteFails, RoutesDone, Disjoint
  <2>8. CASE MacSetPeer \/ MacRoutePeer
    BY <1>1, <2>8 DEF MacSetPeer, MacRoutePeer, RouteWorks, RouteFails, RoutesDone
  <2> QED
    BY <1>3, <2>1, <2>2, <2>3, <2>4, <2>5, <2>6, <2>7, <2>8 DEF MacStep, BaseStep
<1>4. CASE MacRestart
  BY <1>4 DEF MacRestart, Disjoint
<1>5. CASE UNCHANGED allVars
  BY <1>5 DEF allVars, tunnelVars, Disjoint
<1> QED
  BY <1>2, <1>3, <1>4, <1>5 DEF MacNext

LEMMA MacCarriedStep ==
    MacCore /\ MacContractInv /\ MacNoMissingPeers /\ MacCarried /\ [MacNext]_allVars
        => MacCarried'
<1> SUFFICES ASSUME MacCore, MacContractInv, MacNoMissingPeers, MacCarried,
                    [MacNext]_allVars, Contract, active',
                    failed' \cap {"add", "route"} = {},
                    NEW p \in peers', ~(pc' = "set" /\ p = cur')
             PROVE  /\ p.key \in kpeers'
                    /\ \A i \in p.ips :
                          /\ owner'[i] = p.key
                          /\ i \in routes' \/ (pc' = "route" /\ p = cur' /\ i \in todo')
  BY DEF MacCarried, Contract, UniqueKeys, Disjoint
<1> USE DEF MacCarried, Goto, Return, Fail, objVars, callVars, loopVars, macVars, devVars
<1>1. CASE MacCall
  BY <1>1 DEF MacCall, MacGenerateKeys, MacCallCreate, MacCallUpdate, CallUpdate,
     MacCallStart, MacCallStop, Enter, Running, Synced, Created, MacCore, MacPhaseInv,
     MacIdleLinkInv
<1>2. CASE MacStep
  <2>1. failed \cap {"add", "route"} = {} /\ active /\ link = "up"
    BY <1>2 DEF MacStep, OpenConfig, WriteConfigFile, BaseStep, RemoveFromList, RemovalsDone,
       AddToList, UpdateDone, MacUnsetPeer, MacUnroutePeer, MacSetPeer, MacRoutePeer,
       RouteWorks, RouteFails, RoutesDone, MacCore, MacPhaseInv
  <2>2. op = "update" /\ peers \subseteq Peer
    BY <1>2, <2>1 DEF MacStep, OpenConfig, WriteConfigFile, BaseStep, RemoveFromList,
       RemovalsDone, AddToList, UpdateDone, MacUnsetPeer, MacUnroutePeer, MacSetPeer,
       MacRoutePeer, RouteWorks, RouteFails, RoutesDone, MacCore, MacTypes, MacTypeOK,
       MacPhaseInv
  <2>3. CASE OpenConfig \/ WriteConfigFile
    BY <2>1, <2>2, <2>3 DEF OpenConfig, WriteConfigFile, ConfigWritten
  <2>4. CASE BaseStep
    BY <2>1, <2>2, <2>4 DEF BaseStep, RemoveFromList, RemovalsDone, AddToList, UpdateDone
  <2>5. CASE MacUnsetPeer
    <3>1. p \in peers /\ p.key # cur.key /\ pc = "unset"
      BY <2>2, <2>5 DEF MacUnsetPeer, MacCore, MacUpdateInv, MacRemoveSteps, KeysOf
    <3>2. p.ips \subseteq IPs
      BY <2>2, <3>1 DEF Peer
    <3> QED
      BY <2>1, <2>5, <3>1, <3>2 DEF MacUnsetPeer, RemoveKernelPeer
  <2>6. CASE MacUnroutePeer
    <3>1. p \in peers /\ p.ips \cap todo = {} /\ pc = "unroute"
      BY <2>2, <2>6 DEF MacUnroutePeer, MacContractInv, MacCore, MacUpdateInv,
         MacRemoveSteps, IpsOf
    <3> QED
      BY <2>1, <2>6, <3>1 DEF MacUnroutePeer, RouteWorks, RouteFails, RoutesDone, DeleteRoute
  <2>7. CASE MacSetPeer
    <3>1. p \in peers /\ cur \in peers /\ pc = "set" /\ p.ips \subseteq IPs
      BY <2>2, <2>7 DEF MacSetPeer, MacCore, MacUpdateInv, Peer
    <3>2. SetKernelPeer(cur.key, Allowed) /\ todo' = cur.ips /\ pc' = "route" /\ cur' = cur
      BY <2>1, <2>7 DEF MacSetPeer
    <3>3. CASE p = cur
      BY <3>1, <3>2, <3>3 DEF SetKernelPeer, Allowed
    <3>4. CASE p # cur
      <4>1. p.key # cur.key /\ p.ips \cap cur.ips = {}
        BY <3>1, <3>4 DEF MacContractInv, Disjoint, MacCore, UniquePeerKeys, UniqueKeys
      <4>2. p.key \in kpeers /\ \A i \in p.ips : owner[i] = p.key /\ i \in routes
        BY <2>1, <3>1, <3>4
      <4> QED
        BY <3>1, <3>2, <4>1, <4>2 DEF SetKernelPeer, Allowed
    <3> QED
      BY <3>3, <3>4
  <2>8. CASE MacRoutePeer
    BY <2>1, <2>8 DEF MacRoutePeer, RouteWorks, RouteFails, RoutesDone, AddRoute
  <2> QED
    BY <1>2, <2>3, <2>4, <2>5, <2>6, <2>7, <2>8 DEF MacStep
<1>3. CASE MacRestart
  BY <1>3 DEF MacRestart
<1>4. CASE UNCHANGED allVars
  BY <1>4 DEF allVars, tunnelVars
<1> QED
  BY <1>1, <1>2, <1>3, <1>4 DEF MacNext

LEMMA MacInvariant == MacSpec => []MacIInv
<1> DEFINE Inv == /\ MacContractInv /\ MacNoLeftoverPeers /\ MacNoMissingPeers
                  /\ MacCarried /\ FileForgetsPeers
<1>1. MacInit => Inv
  BY DEF MacInit, MacContractInv, MacNoLeftoverPeers, MacNoMissingPeers, MacCarried,
         FileForgetsPeers, Disjoint
<1>2. MacCore /\ Inv /\ [MacNext]_allVars => Inv'
  BY MacContractStep, MacLeftoverStep, MacMissingStep, MacCarriedStep, MacForgetStep
<1>3. MacCore /\ Inv => MacIInv
  BY DEF MacIInv
<1> QED
  BY <1>1, <1>2, <1>3, MacCoreInvariant, PTL DEF MacSpec

(***************************************************************************)
(* A withdrawn peer does not stay on the device of an active tunnel unless *)
(* its removal failed, whatever else fails.                                *)
(***************************************************************************)
THEOREM MacNothingLeftOver == MacSpec => []MacNoLeftoverPeers
  BY MacInvariant, PTL DEF MacIInv

(***************************************************************************)
(* Under the contract every listed peer stays connected, owns its          *)
(* addresses and is routed, while others come and go, as long as its own   *)
(* kind of command worked: failing removals do not disturb it.             *)
(***************************************************************************)
THEOREM MacPeersAreCarried == MacSpec => []MacCarried
  BY MacInvariant, PTL DEF MacIInv

(***************************************************************************)
(* A file names a withdrawn peer only after a removal that could not open  *)
(* it: wherever the process dies, wherever the writing breaks off, and     *)
(* also when wg set refuses to take the peer off the device.               *)
(***************************************************************************)
THEOREM MacFileForgets == MacSpec => []FileForgetsPeers
  BY MacInvariant, PTL DEF MacIInv
----------------------------------------------------------------------------
(* The refinement of PeerSync *)

\* With nothing left to do, an update of an active tunnel has done its work.
LEMMA MacAppliedAtTheEnd ==
    ASSUME MacIInv, active, failed = {}, op = "update", pc = "add", toAdd = {}
    PROVE  kpeers = KeysOf(want)
<1>1. kpeers = KeysOf(peers)
  BY DEF MacIInv, MacNoLeftoverPeers, MacNoMissingPeers
<1>2. KeysOf(peers) = KeysOf(want)
  BY DEF MacIInv, MacCore, MacUpdateInv, KeysOf
<1> QED
  BY <1>1, <1>2

LEMMA MacCallSync ==
    MacIInv /\ MacCall => [MacSync!Next]_(MacSync!vars)
<1> SUFFICES ASSUME MacIInv, MacCall PROVE MacSync!Next \/ UNCHANGED MacSync!vars
  OBVIOUS
<1>1. pc = "idle" => status # "busy"
  BY DEF MacIInv, MacCore, MacPhaseInv
<1>2. failed' = failed
  BY DEF MacCall, MacGenerateKeys, MacCallCreate, MacCallUpdate, CallUpdate, MacCallStart,
     MacCallStop, macVars
<1> USE DEF Synchronous, MacSyncState
<1>3. CASE \E L \in Lists : MacCallUpdate(L)
  <2>1. /\ pc = "idle" /\ status' = "busy" /\ op' = "update"
        /\ kpeers' = kpeers /\ active' = active /\ want' \in Lists
    BY <1>3 DEF MacCallUpdate, CallUpdate, Enter, devVars, objVars
  <2>2. KeysOf(want)' \in SUBSET Keys
    BY <2>1, ListsAssumption DEF KeysOf, Peer
  <2>3. CASE failed = {}
    BY <1>1, <1>2, <2>1, <2>2, <2>3 DEF MacSync!Next, MacSync!Request
  <2>4. CASE failed # {}
    BY <1>2, <2>4 DEF MacSync!vars
  <2> QED
    BY <2>3, <2>4
<1>4. CASE ~\E L \in Lists : MacCallUpdate(L)
  <2>1. MacSyncState' = "idle" /\ KeysOf(want)' = KeysOf(want)
    BY <1>2, <1>4 DEF MacCall, MacGenerateKeys, MacCallCreate, MacCallStart, MacCallStop,
       Enter, KeysOf
  <2>2. active' => kpeers' = {} \/ (active /\ kpeers' = kpeers)
    BY <1>4 DEF MacCall, MacGenerateKeys, MacCallCreate, MacCallStart, BringUpFromFile,
       MacCallStop, DeleteLink, Synced, Running, devVars, MacIInv, MacCore, MacFileInv, KeysOf
  <2> QED
    BY <1>2, <2>1, <2>2 DEF MacSync!Next, MacSync!Close
<1> QED
  BY <1>3, <1>4

LEMMA MacStepSync ==
    MacIInv /\ MacStep => [MacSync!Next]_(MacSync!vars)
<1> SUFFICES ASSUME MacIInv, MacStep PROVE MacSync!Next \/ UNCHANGED MacSync!vars
  OBVIOUS
<1> USE DEF Synchronous, MacSyncState
<1>1. /\ op' = op /\ want' = want /\ active' = active /\ failed \subseteq failed'
      /\ status = "busy" /\ op \in {"create", "update"}
      /\ pc \notin {"config", "write"} => op = "update"
  BY DEF MacStep, OpenConfig, WriteConfigFile, ConfigWritten, BaseStep, RemoveFromList,
     RemovalsDone, AddToList, UpdateDone, MacUnsetPeer, MacUnroutePeer, MacSetPeer,
     MacRoutePeer, RouteWorks, RouteFails, RoutesDone, Goto, Return, Fail, callVars, objVars,
     macVars, MacIInv, MacCore, MacPhaseInv
<1>2. KeysOf(want)' = KeysOf(want)
  BY <1>1 DEF KeysOf
<1>3. CASE failed' # {}
  BY <1>1, <1>2, <1>3 DEF MacSync!Next, MacSync!Close
<1>4. CASE failed' = {} /\ op = "create"
  BY <1>1, <1>2, <1>4 DEF MacSync!Next, MacSync!Close, MacSync!vars, MacIInv, MacCore,
     MacPhaseInv
<1>5. CASE failed' = {} /\ op = "update" /\ status' = "busy" /\ (kpeers' = kpeers \/ ~active)
  BY <1>1, <1>2, <1>5 DEF MacSync!vars
<1>6. CASE failed' = {} /\ op = "update" /\ UpdateDone
  <2>1. status' = "success" /\ kpeers' = kpeers
    BY <1>6 DEF UpdateDone, Return, devVars
  <2>2. CASE active
    BY <1>1, <1>2, <1>6, <2>1, <2>2, MacAppliedAtTheEnd DEF UpdateDone, MacSync!Next,
       MacSync!Finish
  <2>3. CASE ~active
    BY <1>1, <1>2, <1>6, <2>1, <2>3 DEF MacSync!Next, MacSync!Close
  <2> QED
    BY <2>2, <2>3
<1>7. CASE failed' = {} /\ op = "update" /\ active /\ MacUnsetPeer
  <2>1. RemoveKernelPeer(cur.key) /\ status' = "busy"
    BY <1>1, <1>7 DEF MacUnsetPeer, Fail, Goto
  <2>2. cur.key \notin KeysOf(want)
    BY <1>7 DEF MacUnsetPeer, MacIInv, MacCore, MacUpdateInv, MacRemoveSteps
  <2>3. CASE cur.key \in kpeers
    BY <1>1, <1>2, <1>7, <2>1, <2>2, <2>3 DEF RemoveKernelPeer, MacSync!Next, MacSync!Drop
  <2>4. CASE cur.key \notin kpeers
    BY <1>1, <1>2, <1>7, <2>1, <2>4 DEF RemoveKernelPeer, MacSync!vars
  <2> QED
    BY <2>3, <2>4
<1>8. CASE failed' = {} /\ op = "update" /\ active /\ MacSetPeer
  <2>1. SetKernelPeer(cur.key, Allowed) /\ status' = "busy"
    BY <1>1, <1>8 DEF MacSetPeer, Fail, Goto
  <2>2. /\ cur \in want
        /\ \A p \in peers : p.key \in KeysOf(want)
        /\ kpeers \subseteq KeysOf(peers)
    BY <1>1, <1>8 DEF MacSetPeer, MacIInv, MacCore, MacUpdateInv, MacNoLeftoverPeers
  <2>3. kpeers \subseteq KeysOf(want) /\ cur.key \in KeysOf(want)
    BY <2>2 DEF KeysOf
  <2>4. CASE cur.key \in kpeers
    BY <1>1, <1>2, <1>8, <2>1, <2>4 DEF SetKernelPeer, MacSync!vars
  <2>5. CASE cur.key \notin kpeers
    BY <1>1, <1>2, <1>8, <2>1, <2>3, <2>5 DEF SetKernelPeer, MacSync!Next, MacSync!Connect
  <2> QED
    BY <2>4, <2>5
<1>9. CASE failed' = {} /\ op = "update" /\ ~UpdateDone
           /\ ~(active /\ (MacUnsetPeer \/ MacSetPeer))
  <2>1. status' = "busy" /\ (kpeers' = kpeers \/ ~active)
    BY <1>1, <1>9 DEF MacStep, OpenConfig, WriteConfigFile, ConfigWritten, BaseStep,
       RemoveFromList, RemovalsDone, AddToList, MacUnsetPeer, MacUnroutePeer, MacSetPeer,
       MacRoutePeer, RouteWorks, RouteFails, RoutesDone, AddRoute, DeleteRoute, Goto, Fail,
       callVars, devVars, MacIInv, MacCore, MacPhaseInv
  <2> QED
    BY <1>5, <1>9, <2>1
<1> QED
  BY <1>1, <1>3, <1>4, <1>6, <1>7, <1>8, <1>9

(***************************************************************************)
(* Until something fails, update_peers of an active macOS tunnel drops     *)
(* before it connects and returns success with the keys of its argument on *)
(* the device, for every list, key and place where the process dies.       *)
(***************************************************************************)
THEOREM MacRefinement == MacSpec => MacImplementsPeerSync
<1>1. MacInit => MacSync!Init
  BY DEF MacInit, MacSync!Init, Synchronous, MacSyncState, KeysOf
<1>2. MacIInv /\ [MacNext]_allVars => [MacSync!Next]_(MacSync!vars)
  <2>1. ASSUME MacIInv, MacRestart PROVE MacSync!Next
    BY <2>1 DEF MacRestart, MacSync!Next, MacSync!Close, Synchronous, MacSyncState, KeysOf
  <2>2. ASSUME UNCHANGED allVars PROVE UNCHANGED MacSync!vars
    BY <2>2 DEF allVars, tunnelVars, devVars, objVars, callVars, macVars, MacSync!vars,
       Synchronous, MacSyncState, KeysOf
  <2> QED
    BY <2>1, <2>2, MacCallSync, MacStepSync DEF MacNext
<1> QED
  BY <1>1, <1>2, MacInvariant, PTL DEF MacSpec, MacImplementsPeerSync, MacSync!Spec
=============================================================================
