------------------------ MODULE TunnelManager_proofs ------------------------
(***************************************************************************)
(* Proofs about TunnelManager, for every set of keys, addresses, lists and *)
(* faults.                                                                 *)
(***************************************************************************)
EXTENDS TunnelManager, TLAPS

----------------------------------------------------------------------------
(* Type correctness *)

\* Each change of the kernel's state keeps its type.
LEMMA DeviceTypes ==
    ASSUME DeviceTypeOK
    PROVE  /\ AddLink => DeviceTypeOK'
           /\ DeleteLink => DeviceTypeOK'
           /\ \A k \in SelfKeys : ConfigureLink(k) => DeviceTypeOK'
           /\ \A i \in IPs : AddAddress(i) => DeviceTypeOK'
           /\ LinkUp => DeviceTypeOK'
           /\ LinkDown => DeviceTypeOK'
           /\ \A k \in Keys, S \in SUBSET IPs : SetKernelPeer(k, S) => DeviceTypeOK'
           /\ \A k \in Keys : RemoveKernelPeer(k) => DeviceTypeOK'
           /\ \A i \in IPs : AddRoute(i) => DeviceTypeOK'
           /\ \A i \in IPs : DeleteRoute(i) => DeviceTypeOK'
           /\ UNCHANGED devVars => DeviceTypeOK'
  BY DEF DeviceTypeOK, AddLink, DeleteLink, ConfigureLink, AddAddress, LinkUp,
         LinkDown, SetKernelPeer, RemoveKernelPeer, AddRoute, DeleteRoute,
         devVars, NoOwner

LEMMA InitTypes == Init => TypeOK
  BY DEF Init, DeviceInit, NewObject, TypeOK, DeviceTypeOK, NoOwner, NoPeer,
         Peer, Steps, PeerSteps, Statuses

LEMMA CreateTypes == TypeOK /\ PhaseInv /\ CreateStep => TypeOK'
<1> SUFFICES ASSUME TypeOK, PhaseInv, CreateStep PROVE TypeOK'
  OBVIOUS
<1>0. active' => link' # "absent"
  BY DEF TypeOK, PhaseInv, CreateSteps, CreateStep, CleanOldDevice, MakeDevice,
     ConfigureDevice, AssignAddress, BringUp, objVars
<1> USE <1>0 DEF TypeOK, Steps, PeerSteps, Statuses, Goto, Return, objVars, loopVars
<1>1. CASE CleanOldDevice
  BY <1>1, DeviceTypes DEF CleanOldDevice
<1>2. CASE MakeDevice
  BY <1>2, DeviceTypes DEF MakeDevice
<1>3. CASE ConfigureDevice
  BY <1>3, DeviceTypes DEF ConfigureDevice, GiveUpDevice
<1>4. CASE AssignAddress
  BY <1>4, DeviceTypes DEF AssignAddress
<1>5. CASE BringUp
  BY <1>5, DeviceTypes DEF BringUp, GiveUpDevice
<1> QED
  BY <1>1, <1>2, <1>3, <1>4, <1>5 DEF CreateStep

LEMMA UpdateTypes == TypeOK /\ UpdateStep => TypeOK'
<1> SUFFICES ASSUME TypeOK, UpdateStep PROVE TypeOK'
  OBVIOUS
<1>0. active' => link' # "absent"
  BY DEF TypeOK, UpdateStep, RemoveFromList, WriteConfig, UnsetPeer, RemoveKernelPeer,
     UnroutePeer, Unroute, DeleteRoute, RemovalsDone, AddToList, SetPeer, SetKernelPeer,
     RoutePeer, Route, AddRoute, UpdateDone, objVars, devVars
<1> USE <1>0 DEF TypeOK, Steps, PeerSteps, Statuses, Goto, Return, objVars, loopVars, callVars
<1>1. CASE RemoveFromList
  BY <1>1, DeviceTypes DEF RemoveFromList
<1>2. CASE WriteConfig
  BY <1>2, DeviceTypes DEF WriteConfig
<1>3. CASE UnsetPeer
  BY <1>3, DeviceTypes DEF UnsetPeer, Peer
<1>4. CASE UnroutePeer
  BY <1>4, DeviceTypes DEF UnroutePeer, Unroute
<1>5. CASE RemovalsDone
  BY <1>5, DeviceTypes DEF RemovalsDone
<1>6. CASE AddToList
  BY <1>6, DeviceTypes DEF AddToList
<1>7. CASE SetPeer
  BY <1>7, DeviceTypes DEF SetPeer, Peer
<1>8. CASE RoutePeer
  BY <1>8, DeviceTypes DEF RoutePeer, Route
<1>9. CASE UpdateDone
  BY <1>9, DeviceTypes DEF UpdateDone
<1> QED
  BY <1>1, <1>2, <1>3, <1>4, <1>5, <1>6, <1>7, <1>8, <1>9 DEF UpdateStep

LEMMA CallTypes == TypeOK /\ Call => TypeOK'
<1> SUFFICES ASSUME TypeOK, Call PROVE TypeOK'
  OBVIOUS
<1>0. active' => link' # "absent"
  BY DEF TypeOK, Call, GenerateKeys, CallCreate, CallUpdate, CallStart, LinkUp,
     CallStop, LinkDown, objVars, devVars
<1> USE <1>0 DEF TypeOK, Steps, PeerSteps, Statuses, Enter, callVars, objVars, loopVars
<1>1. CASE \E k \in SelfKeys : GenerateKeys(k)
  BY <1>1, DeviceTypes DEF GenerateKeys
<1>2. CASE \E ip \in IPs : CallCreate(ip)
  BY <1>2, DeviceTypes DEF CallCreate
<1>3. CASE \E L \in Lists : CallUpdate(L)
  BY <1>3, DeviceTypes, ListsAssumption DEF CallUpdate, ToRemove, ToAdd
<1>4. CASE CallStart
  BY <1>4, DeviceTypes DEF CallStart
<1>5. CASE CallStop
  BY <1>5, DeviceTypes DEF CallStop
<1> QED
  BY <1>1, <1>2, <1>3, <1>4, <1>5 DEF Call

LEMMA RestartTypes == TypeOK /\ Restart => TypeOK'
  BY DeviceTypes DEF TypeOK, Restart, Steps, PeerSteps, Statuses, NoPeer, Peer

LEMMA StutterTypes == TypeOK /\ UNCHANGED tunnelVars => TypeOK'
  BY DeviceTypes DEF TypeOK, tunnelVars, devVars, objVars, callVars, loopVars

----------------------------------------------------------------------------
(* The phase of a call, and what the device holds *)

LEMMA InitPhase == Init => PhaseInv /\ DeviceInv
  BY DEF Init, DeviceInit, NewObject, PhaseInv, DeviceInv, CreateSteps,
         UpdateSteps, RemoveSteps, AddSteps, Created

LEMMA PhaseStep == TypeOK /\ PhaseInv /\ [Next]_tunnelVars => PhaseInv'
<1> SUFFICES ASSUME TypeOK, PhaseInv, [Next]_tunnelVars PROVE PhaseInv'
  OBVIOUS
<1> USE DEF PhaseInv, CreateSteps, UpdateSteps, RemoveSteps, AddSteps, Created,
            Goto, Return, objVars, callVars, loopVars
<1>1. CASE Call
  <2> USE DEF Enter, devVars
  <2>1. CASE op = "none" /\ \E k \in SelfKeys : GenerateKeys(k)
    BY <2>1 DEF GenerateKeys
  <2>2. CASE op = "none" /\ \E ip \in IPs : CallCreate(ip)
    BY <2>2 DEF CallCreate
  <2>3. CASE (Created \/ Running) /\ \E L \in Lists : CallUpdate(L)
    BY <2>3 DEF TypeOK, Running, CallUpdate, ToRemove
  <2>4. CASE Synced /\ CallStart
    BY <2>4 DEF Synced, CallStart, LinkUp
  <2>5. CASE Running /\ CallStop
    BY <2>5 DEF Running, CallStop
  <2> QED
    BY <1>1, <2>1, <2>2, <2>3, <2>4, <2>5 DEF Call
<1>2. CASE CreateStep
  <2>1. CASE CleanOldDevice
    BY <2>1 DEF CleanOldDevice
  <2>2. CASE MakeDevice
    BY <2>2 DEF MakeDevice
  <2>3. CASE ConfigureDevice
    BY <2>3 DEF ConfigureDevice, GiveUpDevice
  <2>4. CASE AssignAddress
    BY <2>4 DEF AssignAddress
  <2>5. CASE BringUp
    BY <2>5 DEF BringUp, GiveUpDevice, LinkUp
  <2> QED
    BY <1>2, <2>1, <2>2, <2>3, <2>4, <2>5 DEF CreateStep
<1>3. CASE UpdateStep
  <2> USE DEF devVars
  <2>1. CASE RemoveFromList
    BY <2>1 DEF RemoveFromList
  <2>2. CASE WriteConfig
    BY <2>2 DEF WriteConfig
  <2>3. CASE UnsetPeer
    BY <2>3 DEF UnsetPeer, RemoveKernelPeer
  <2>4. CASE UnroutePeer
    BY <2>4 DEF UnroutePeer, Unroute, DeleteRoute
  <2>5. CASE RemovalsDone
    BY <2>5 DEF RemovalsDone
  <2>6. CASE AddToList
    BY <2>6 DEF AddToList
  <2>7. CASE SetPeer
    BY <2>7 DEF SetPeer, SetKernelPeer
  <2>8. CASE RoutePeer
    BY <2>8 DEF RoutePeer, Route, AddRoute
  <2>9. CASE UpdateDone
    BY <2>9 DEF UpdateDone
  <2> QED
    BY <1>3, <2>1, <2>2, <2>3, <2>4, <2>5, <2>6, <2>7, <2>8, <2>9 DEF UpdateStep
<1>4. CASE Restart
  BY <1>4 DEF Restart
<1>5. CASE UNCHANGED tunnelVars
  BY <1>5 DEF tunnelVars, devVars
<1> QED
  BY <1>1, <1>2, <1>3, <1>4, <1>5 DEF Next
LEMMA TypeStep == TypeOK /\ PhaseInv /\ [Next]_tunnelVars => TypeOK'
  BY CreateTypes, UpdateTypes, CallTypes, RestartTypes, StutterTypes DEF Next

(***************************************************************************)
(* The tunnel manager only ever reaches states of the declared types: in   *)
(* particular every returned status is an error_code of the source, a step *)
(* inside remove_peer or add_peer has a peer to work on, and is_active_ is *)
(* not set without a link.  The last depends on nothing being created      *)
(* while a tunnel is active, which PhaseInv says.                          *)
(***************************************************************************)
THEOREM TypeCorrect == Spec => []TypeOK
<1>1. Init => TypeOK /\ PhaseInv
  BY InitTypes, InitPhase
<1>2. TypeOK /\ PhaseInv /\ [Next]_tunnelVars => (TypeOK /\ PhaseInv)'
  BY TypeStep, PhaseStep
<1> QED
  BY <1>1, <1>2, PTL DEF Spec

LEMMA DeviceStep == TypeOK /\ DeviceInv /\ [Next]_tunnelVars => DeviceInv'
<1> SUFFICES ASSUME TypeOK, DeviceInv, [Next]_tunnelVars PROVE DeviceInv'
  OBVIOUS
<1> USE DEF DeviceInv, devVars
<1>1. CASE UNCHANGED devVars
  BY <1>1
<1>2. CASE AddLink \/ DeleteLink \/ LinkUp \/ LinkDown
  BY <1>2 DEF AddLink, DeleteLink, LinkUp, LinkDown
<1>3. CASE \/ \E k \in SelfKeys : ConfigureLink(k)
           \/ \E ip \in IPs : AddAddress(ip)
  BY <1>3 DEF ConfigureLink, AddAddress
<1>4. CASE UnsetPeer
  BY <1>4 DEF UnsetPeer, RemoveKernelPeer
<1>5. CASE UnroutePeer
  BY <1>5 DEF UnroutePeer, Unroute, DeleteRoute
<1>6. CASE SetPeer
  BY <1>6 DEF SetPeer, SetKernelPeer
<1>7. CASE RoutePeer
  BY <1>7 DEF RoutePeer, Route, AddRoute
<1>8. CASE Call
  BY <1>1, <1>2, <1>8 DEF Call, GenerateKeys, CallCreate, CallUpdate, CallStart, CallStop
<1>9. CASE CreateStep
  BY <1>1, <1>2, <1>3, <1>9 DEF TypeOK, CreateStep, CleanOldDevice, MakeDevice,
     ConfigureDevice, AssignAddress, BringUp, GiveUpDevice
<1>10. CASE UpdateStep
  BY <1>1, <1>4, <1>5, <1>6, <1>7, <1>10 DEF UpdateStep, RemoveFromList, WriteConfig,
     RemovalsDone, AddToList, UpdateDone
<1>11. CASE Restart \/ UNCHANGED tunnelVars
  BY <1>1, <1>11 DEF Restart, tunnelVars
<1> QED
  BY <1>8, <1>9, <1>10, <1>11 DEF Next

----------------------------------------------------------------------------
(* The peer list and the progress of an update *)

LEMMA UniqueStep == UniquePeerKeys /\ [Next]_tunnelVars => UniquePeerKeys'
<1> SUFFICES ASSUME UniquePeerKeys, [Next]_tunnelVars PROVE UniquePeerKeys'
  OBVIOUS
<1> USE DEF UniquePeerKeys, UniqueKeys, objVars
<1>1. CASE UNCHANGED peers
  BY <1>1
<1>2. CASE RemoveFromList
  BY <1>2 DEF RemoveFromList
<1>3. CASE AddToList
  BY <1>3 DEF AddToList
<1>4. CASE Call
  BY <1>1, <1>4 DEF Call, GenerateKeys, CallCreate, CallUpdate, CallStart, CallStop
<1>5. CASE CreateStep
  BY <1>1, <1>5 DEF CreateStep, CleanOldDevice, MakeDevice, ConfigureDevice,
     AssignAddress, BringUp
<1>6. CASE UpdateStep
  BY <1>1, <1>2, <1>3, <1>6 DEF UpdateStep, WriteConfig, UnsetPeer, UnroutePeer,
     RemovalsDone, SetPeer, RoutePeer, UpdateDone
<1>7. CASE Restart
  BY <1>7 DEF Restart
<1>8. CASE UNCHANGED tunnelVars
  BY <1>1, <1>8 DEF tunnelVars
<1> QED
  BY <1>4, <1>5, <1>6, <1>7, <1>8 DEF Next

(***************************************************************************)
(* peers_ never holds two records with one key, for every stream of lists  *)
(* and every failure: the lookups by key of add_peer, remove_peer and      *)
(* compute_peer_diff find the record there is.                             *)
(***************************************************************************)
THEOREM PeerKeysAreUnique == Spec => []UniquePeerKeys
<1>1. Init => UniquePeerKeys
  BY DEF Init, NewObject, UniquePeerKeys, UniqueKeys
<1> QED
  BY <1>1, UniqueStep, PTL DEF Spec

LEMMA UpdateInvStep ==
    TypeOK /\ PhaseInv /\ UniquePeerKeys /\ UpdateInv /\ [Next]_tunnelVars => UpdateInv'
<1> SUFFICES ASSUME TypeOK, PhaseInv, UniquePeerKeys, UpdateInv, [Next]_tunnelVars
             PROVE  UpdateInv'
  OBVIOUS
<1> USE DEF UpdateInv, UpdateSteps, RemoveSteps, AddSteps, KeysOf, Goto, Return,
            objVars, callVars, loopVars
<1>1. CASE pc' \notin UpdateSteps
  BY <1>1
<1>2. CASE Call
  <2>1. CASE \E L \in Lists : CallUpdate(L)
    BY <2>1 DEF CallUpdate, ToRemove, ToAdd, Enter
  <2> QED
    BY <1>1, <1>2, <2>1 DEF Call, GenerateKeys, CallCreate, CallStart, CallStop, Enter
<1>3. CASE CreateStep
  BY <1>1, <1>3 DEF CreateStep, CleanOldDevice, MakeDevice, ConfigureDevice,
     AssignAddress, BringUp, GiveUpDevice
<1>4. CASE UpdateStep
  <2>1. CASE RemoveFromList
    BY <2>1 DEF RemoveFromList, UniquePeerKeys, UniqueKeys
  <2>2. CASE WriteConfig
    BY <2>2 DEF WriteConfig
  <2>3. CASE UnsetPeer
    BY <2>3 DEF UnsetPeer
  <2>4. CASE UnroutePeer
    BY <2>4 DEF UnroutePeer, Unroute
  <2>5. CASE RemovalsDone
    BY <2>5 DEF RemovalsDone
  <2>6. CASE AddToList
    BY <2>6 DEF AddToList
  <2>7. CASE SetPeer
    BY <2>7 DEF SetPeer
  <2>8. CASE RoutePeer
    BY <2>8 DEF RoutePeer, Route
  <2>9. CASE UpdateDone
    BY <2>9 DEF UpdateDone
  <2> QED
    BY <1>4, <2>1, <2>2, <2>3, <2>4, <2>5, <2>6, <2>7, <2>8, <2>9 DEF UpdateStep
<1>5. CASE Restart
  BY <1>5 DEF Restart
<1>6. CASE UNCHANGED tunnelVars
  BY <1>6 DEF tunnelVars
<1> QED
  BY <1>2, <1>3, <1>4, <1>5, <1>6 DEF Next
----------------------------------------------------------------------------
(* The part of the inductive invariant that needs no assumption *)

CoreInv == TypeOK /\ PhaseInv /\ DeviceInv /\ UniquePeerKeys /\ UpdateInv

LEMMA InitCore == Init => CoreInv
<1>1. Init => UniquePeerKeys /\ UpdateInv
  BY DEF Init, NewObject, UniquePeerKeys, UniqueKeys, UpdateInv, UpdateSteps,
         RemoveSteps, AddSteps
<1> QED
  BY <1>1, InitTypes, InitPhase DEF CoreInv

LEMMA CoreStep == CoreInv /\ [Next]_tunnelVars => CoreInv'
  BY TypeStep, PhaseStep, DeviceStep, UniqueStep, UpdateInvStep DEF CoreInv

(***************************************************************************)
(* The part of the inductive invariant that needs no assumption on what    *)
(* fails or on the lists holds of every reachable state.                   *)
(***************************************************************************)
THEOREM CoreInvariant == Spec => []CoreInv
  BY InitCore, CoreStep, PTL DEF Spec

(***************************************************************************)
(* A running update_peers never takes a peer of its argument off the       *)
(* device: compute_peer_diff selects for removal only keys the argument    *)
(* does not have, and nothing else removes a peer.                         *)
(***************************************************************************)
THEOREM WantedPeersStay == Spec => KeepsWantedPeers
<1>1. CoreInv /\ [Next]_tunnelVars =>
        [status = "busy" /\ op = "update" /\ op' = "update"
           => kpeers \cap KeysOf(want) \subseteq kpeers']_tunnelVars
  <2> SUFFICES ASSUME CoreInv, Next, status = "busy", op = "update", op' = "update"
               PROVE  kpeers \cap KeysOf(want) \subseteq kpeers'
    OBVIOUS
  <2>1. /\ pc # "idle"
        /\ pc \notin CreateSteps
        /\ pc \in RemoveSteps => cur.key \notin KeysOf(want)
    BY DEF CoreInv, PhaseInv, UpdateInv, RemoveSteps, UpdateSteps, CreateSteps
  <2>2. CASE Call
    BY <2>1, <2>2 DEF Call, GenerateKeys, CallCreate, CallUpdate, CallStart, CallStop
  <2>3. CASE CreateStep
    BY <2>1, <2>3 DEF CreateStep, CreateSteps, CleanOldDevice, MakeDevice,
       ConfigureDevice, AssignAddress, BringUp
  <2>4. CASE UpdateStep
    <3>1. CASE UnsetPeer
      BY <2>1, <3>1 DEF UnsetPeer, RemoveKernelPeer, RemoveSteps, devVars
    <3>2. CASE SetPeer
      BY <3>2 DEF SetPeer, SetKernelPeer, devVars
    <3>3. CASE UnroutePeer \/ RoutePeer
      BY <3>3 DEF UnroutePeer, Unroute, DeleteRoute, RoutePeer, Route, AddRoute, devVars
    <3> QED
      BY <2>4, <3>1, <3>2, <3>3 DEF UpdateStep, RemoveFromList, WriteConfig,
         RemovalsDone, AddToList, UpdateDone, devVars
  <2>5. CASE Restart
    BY <2>5 DEF Restart, devVars
  <2> QED
    BY <2>2, <2>3, <2>4, <2>5 DEF Next
<1> QED
  BY <1>1, CoreInvariant, PTL DEF Spec, KeepsWantedPeers

----------------------------------------------------------------------------
(* The device and the peer list *)

LEMMA LeftoverStep ==
    CoreInv /\ NoLeftoverPeers /\ [Next]_tunnelVars => NoLeftoverPeers'
<1> SUFFICES ASSUME CoreInv, NoLeftoverPeers, [Next]_tunnelVars, RemovalsReliable,
                    op' # "none", pc' # "get"
             PROVE  kpeers' \subseteq KeysOf(peers)'
                        \cup (IF pc' \in {"config", "unset"} THEN {cur'.key} ELSE {})
  BY DEF NoLeftoverPeers, RemovalsReliable
<1> USE DEF NoLeftoverPeers, KeysOf, Goto, Return, objVars, devVars, callVars, loopVars
<1>1. CASE Call
  BY <1>1 DEF Call, GenerateKeys, CallCreate, CallUpdate, CallStart, CallStop, Enter,
     CoreInv, PhaseInv, Running, Created, Synced, LinkUp, LinkDown, DeleteLink
<1>2. CASE CreateStep
  <2>1. op = "create" /\ (link = "absent" => kpeers = {})
    BY <1>2 DEF CreateStep, CleanOldDevice, MakeDevice, ConfigureDevice, AssignAddress,
       BringUp, CoreInv, PhaseInv, DeviceInv, CreateSteps
  <2>2. CASE CleanOldDevice
    BY <2>1, <2>2 DEF CleanOldDevice, DeleteLink, RemovalsReliable
  <2>3. CASE MakeDevice
    BY <2>1, <2>3 DEF MakeDevice, AddLink
  <2>4. CASE ConfigureDevice
    BY <2>1, <2>4 DEF ConfigureDevice, ConfigureLink, GiveUpDevice, DeleteLink
  <2>5. CASE AssignAddress
    BY <2>1, <2>5 DEF AssignAddress, AddAddress
  <2>6. CASE BringUp
    BY <2>1, <2>6 DEF BringUp, LinkUp, GiveUpDevice, DeleteLink
  <2> QED
    BY <1>2, <2>2, <2>3, <2>4, <2>5, <2>6 DEF CreateStep
<1>3. CASE UpdateStep
  <2>1. op = "update" /\ link = "up" /\ kpeers \cap BadKeys = {}
    BY <1>3 DEF UpdateStep, RemoveFromList, WriteConfig, UnsetPeer, UnroutePeer,
       RemovalsDone, AddToList, SetPeer, RoutePeer, UpdateDone,
       CoreInv, PhaseInv, DeviceInv, UpdateSteps, RemoveSteps, AddSteps
  <2>2. CASE RemoveFromList
    BY <2>1, <2>2 DEF RemoveFromList
  <2>3. CASE WriteConfig
    BY <2>1, <2>3 DEF WriteConfig, RemovalsReliable, CoreInv, PhaseInv, RemoveSteps
  <2>4. CASE UnsetPeer
    BY <2>1, <2>4 DEF UnsetPeer, UnsetFails, RemoveKernelPeer, RemovalsReliable
  <2>5. CASE UnroutePeer
    BY <2>1, <2>5 DEF UnroutePeer, Unroute, DeleteRoute
  <2>6. CASE RemovalsDone
    BY <2>1, <2>6 DEF RemovalsDone
  <2>7. CASE AddToList
    BY <2>1, <2>7 DEF AddToList
  <2>8. CASE SetPeer
    BY <2>1, <2>8 DEF SetPeer, SetKernelPeer, CoreInv, UpdateInv, UpdateSteps, AddSteps
  <2>9. CASE RoutePeer
    BY <2>1, <2>9 DEF RoutePeer, Route, AddRoute
  <2>10. CASE UpdateDone
    BY <2>1, <2>10 DEF UpdateDone
  <2> QED
    BY <1>3, <2>2, <2>3, <2>4, <2>5, <2>6, <2>7, <2>8, <2>9, <2>10 DEF UpdateStep
<1>4. CASE Restart
  BY <1>4 DEF Restart
<1>5. CASE UNCHANGED tunnelVars
  BY <1>5 DEF tunnelVars
<1> QED
  BY <1>1, <1>2, <1>3, <1>4, <1>5 DEF Next

LEMMA MissingStep ==
    CoreInv /\ NoMissingPeers /\ [Next]_tunnelVars => NoMissingPeers'
<1> SUFFICES ASSUME CoreInv, NoMissingPeers, [Next]_tunnelVars, AddsReliable,
                    op' # "stop"
             PROVE  KeysOf(peers)' \ (IF pc' = "set" THEN {cur'.key} ELSE {})
                        \subseteq kpeers'
  BY DEF NoMissingPeers, AddsReliable
<1> USE DEF NoMissingPeers, KeysOf, Goto, Return, objVars, devVars, callVars, loopVars
<1>1. CASE Call
  BY <1>1 DEF Call, GenerateKeys, CallCreate, CallUpdate, CallStart, CallStop, Enter,
     CoreInv, PhaseInv, Running, Created, Synced, LinkUp
<1>2. CASE CreateStep
  <2>1. op = "create" /\ peers = {} /\ peers' = {} /\ pc' # "set"
    BY <1>2 DEF CreateStep, CleanOldDevice, MakeDevice, ConfigureDevice, AssignAddress,
       BringUp, GiveUpDevice, CoreInv, PhaseInv, CreateSteps
  <2> QED
    BY <2>1
<1>3. CASE UpdateStep
  <2>1. op = "update" /\ link = "up"
    BY <1>3 DEF UpdateStep, RemoveFromList, WriteConfig, UnsetPeer, UnroutePeer,
       RemovalsDone, AddToList, SetPeer, RoutePeer, UpdateDone,
       CoreInv, PhaseInv, UpdateSteps, RemoveSteps, AddSteps
  <2>2. CASE RemoveFromList
    BY <2>1, <2>2 DEF RemoveFromList
  <2>3. CASE WriteConfig
    BY <2>1, <2>3 DEF WriteConfig
  <2>4. CASE UnsetPeer
    BY <2>1, <2>4 DEF UnsetPeer, RemoveKernelPeer, CoreInv, UpdateInv, UpdateSteps,
       RemoveSteps
  <2>5. CASE UnroutePeer
    BY <2>1, <2>5 DEF UnroutePeer, Unroute, DeleteRoute
  <2>6. CASE RemovalsDone
    BY <2>1, <2>6 DEF RemovalsDone
  <2>7. CASE AddToList
    BY <2>1, <2>7 DEF AddToList
  <2>8. CASE SetPeer
    <3>1. cur.key \notin BadKeys /\ cur.ips \cap BadIPs = {}
      BY <2>8 DEF SetPeer, AddsReliable, ListsParse, IpsOf, CoreInv, TypeOK, UpdateInv,
         UpdateSteps, AddSteps
    <3> QED
      BY <2>1, <2>8, <3>1 DEF SetPeer, SetFails, SetKernelPeer, AddsReliable
  <2>9. CASE RoutePeer
    BY <2>1, <2>9 DEF RoutePeer, Route, AddRoute
  <2>10. CASE UpdateDone
    BY <2>1, <2>10 DEF UpdateDone
  <2> QED
    BY <1>3, <2>2, <2>3, <2>4, <2>5, <2>6, <2>7, <2>8, <2>9, <2>10 DEF UpdateStep
<1>4. CASE Restart
  BY <1>4 DEF Restart
<1>5. CASE UNCHANGED tunnelVars
  BY <1>5 DEF tunnelVars
<1> QED
  BY <1>1, <1>2, <1>3, <1>4, <1>5 DEF Next

----------------------------------------------------------------------------
(* Addresses and routes under the control plane's contract *)

\* While additions run, peers_ is a part of the argument.
LEMMA AddingWithinWant ==
    ASSUME CoreInv, ContractInv, Contract, pc \in AddSteps
    PROVE  peers \subseteq want /\ Disjoint(want)
<1>1. want \in Lists \cup {{}} /\ peers \subseteq UNION Lists
  BY DEF CoreInv, TypeOK, ContractInv
<1>2. \A p \in peers : p.key \in KeysOf(want)
  BY DEF CoreInv, UpdateInv, UpdateSteps
<1>3. UniqueKeys(UNION Lists) /\ Disjoint(want)
  BY <1>1 DEF Contract, Disjoint
<1> QED
  BY <1>1, <1>2, <1>3 DEF KeysOf, UniqueKeys

LEMMA ContractStep == CoreInv /\ ContractInv /\ [Next]_tunnelVars => ContractInv'
<1> SUFFICES ASSUME CoreInv, ContractInv, [Next]_tunnelVars, Contract PROVE ContractInv'
  BY DEF ContractInv, Contract, UniqueKeys, Disjoint
<1> USE DEF ContractInv, IpsOf, RemoveSteps, Goto, Return, objVars, callVars, loopVars
<1>1. CASE UNCHANGED peers /\ pc' \notin RemoveSteps
  BY <1>1 DEF Disjoint
<1>2. CASE Call
  BY <1>1, <1>2 DEF Call, GenerateKeys, CallCreate, CallUpdate, CallStart, CallStop, Enter,
     Disjoint
<1>3. CASE CreateStep
  BY <1>1, <1>3 DEF CreateStep, CleanOldDevice, MakeDevice, ConfigureDevice,
     AssignAddress, BringUp, GiveUpDevice
<1>4. CASE UpdateStep
  <2>1. CASE RemoveFromList
    BY <2>1 DEF RemoveFromList, Disjoint, CoreInv, UpdateInv, UpdateSteps
  <2>2. CASE WriteConfig
    BY <2>2 DEF WriteConfig, Disjoint
  <2>3. CASE UnsetPeer
    BY <2>3 DEF UnsetPeer, Disjoint
  <2>4. CASE UnroutePeer
    BY <2>4 DEF UnroutePeer, Unroute, Disjoint
  <2>5. CASE RemovalsDone
    BY <1>1, <2>5 DEF RemovalsDone
  <2>6. CASE AddToList
    <3>1. peers \subseteq want /\ Disjoint(want) /\ toAdd \subseteq want
      BY <2>6, AddingWithinWant DEF AddToList, AddSteps, CoreInv, UpdateInv, UpdateSteps
    <3>2. want \in Lists \cup {{}}
      BY DEF CoreInv, TypeOK
    <3> QED
      BY <2>6, <3>1, <3>2 DEF AddToList, Disjoint
  <2>7. CASE SetPeer \/ RoutePeer \/ UpdateDone
    BY <1>1, <2>7 DEF SetPeer, RoutePeer, Route, UpdateDone
  <2> QED
    BY <1>4, <2>1, <2>2, <2>3, <2>4, <2>5, <2>6, <2>7 DEF UpdateStep
<1>5. CASE Restart
  BY <1>5 DEF Restart, Disjoint
<1>6. CASE UNCHANGED tunnelVars
  BY <1>6 DEF tunnelVars, Disjoint
<1> QED
  BY <1>2, <1>3, <1>4, <1>5, <1>6 DEF Next
LEMMA RoutingStep == CoreInv /\ RoutingInv /\ [Next]_tunnelVars => RoutingInv'
<1> SUFFICES ASSUME CoreInv, RoutingInv, [Next]_tunnelVars, RoutesReliable, pc' = "route"
             PROVE  \A i \in cur'.ips :
                        /\ i \in routes' \cup todo'
                        /\ i \in PlainIPs \/ owner'[i] = cur'.key
  BY DEF RoutingInv, RoutesReliable
<1> USE DEF RoutingInv, Goto, Return, objVars, devVars, callVars, loopVars
<1>1. CASE SetPeer
  BY <1>1 DEF SetPeer, SetKernelPeer, CoreInv, TypeOK, Peer, PeerSteps
<1>2. CASE RoutePeer
  <2>1. link = "up"
    BY <1>2 DEF RoutePeer, CoreInv, PhaseInv, UpdateSteps, AddSteps
  <2> QED
    BY <1>2, <2>1 DEF RoutePeer, Route, AddRoute, RoutesReliable
<1>3. CASE UNCHANGED tunnelVars
  BY <1>3 DEF tunnelVars
<1>4. CASE Next /\ ~SetPeer /\ ~RoutePeer
  <2>1. pc = "route" => pc' # "route"
    BY <1>4 DEF Next, Call, CreateStep, UpdateStep, Restart, GenerateKeys, CallCreate,
       CallUpdate, CallStart, CallStop, CleanOldDevice, MakeDevice, ConfigureDevice,
       AssignAddress, BringUp, RemoveFromList, WriteConfig, UnsetPeer, UnroutePeer,
       RemovalsDone, AddToList, UpdateDone
  <2>2. pc # "route" => pc' # "route"
    BY <1>4 DEF Next, Call, CreateStep, UpdateStep, Restart, GenerateKeys, CallCreate,
       CallUpdate, CallStart, CallStop, CleanOldDevice, MakeDevice, ConfigureDevice,
       AssignAddress, BringUp, GiveUpDevice, RemoveFromList, WriteConfig, UnsetPeer,
       UnroutePeer, Unroute, RemovalsDone, AddToList, UpdateDone, Enter
  <2> QED
    BY <2>1, <2>2
<1> QED
  BY <1>1, <1>2, <1>3, <1>4

LEMMA CarriedStep ==
    CoreInv /\ ContractInv /\ RoutingInv /\ Carried /\ [Next]_tunnelVars => Carried'
<1> SUFFICES ASSUME CoreInv, ContractInv, RoutingInv, Carried, [Next]_tunnelVars,
                    Contract, AddsReliable, RoutesReliable, op' # "stop",
                    NEW p \in peers', ~(pc' \in {"set", "route"} /\ p = cur'),
                    NEW i \in p.ips
             PROVE  i \in routes' /\ (i \in PlainIPs \/ owner'[i] = p.key)
  BY DEF Carried, Contract, UniqueKeys, Disjoint, AddsReliable, ListsParse, IpsOf,
         RoutesReliable
<1> USE DEF Carried, Goto, Return, objVars, devVars, callVars, loopVars
<1>1. CASE Call
  BY <1>1 DEF Call, GenerateKeys, CallCreate, CallUpdate, CallStart, CallStop, Enter,
     CoreInv, PhaseInv, Running, Created, Synced, LinkUp
<1>2. CASE CreateStep
  <2>1. peers' = {}
    BY <1>2 DEF CreateStep, CleanOldDevice, MakeDevice, ConfigureDevice, AssignAddress,
       BringUp, GiveUpDevice, CoreInv, PhaseInv, CreateSteps
  <2> QED
    BY <2>1
<1>3. CASE UpdateStep
  <2>1. op = "update" /\ link = "up" /\ peers' \subseteq Peer
    BY <1>3, CoreStep DEF UpdateStep, RemoveFromList, WriteConfig, UnsetPeer, UnroutePeer,
       RemovalsDone, AddToList, SetPeer, RoutePeer, UpdateDone,
       CoreInv, TypeOK, PhaseInv, UpdateSteps, RemoveSteps, AddSteps
  <2>2. CASE RemoveFromList
    BY <2>1, <2>2 DEF RemoveFromList
  <2>3. CASE WriteConfig
    BY <2>1, <2>3 DEF WriteConfig
  <2>4. CASE UnsetPeer
    <3>1. p \in peers /\ p.key # cur.key /\ pc = "unset"
      BY <2>4 DEF UnsetPeer, CoreInv, UpdateInv, UpdateSteps, RemoveSteps, KeysOf
    <3>2. i \in IPs
      BY <2>1 DEF Peer
    <3> QED
      BY <2>1, <2>4, <3>1, <3>2 DEF UnsetPeer, RemoveKernelPeer
  <2>5. CASE UnroutePeer
    <3>1. p \in peers /\ i \notin todo
      BY <2>5 DEF UnroutePeer, ContractInv, CoreInv, UpdateInv, UpdateSteps, RemoveSteps,
         IpsOf
    <3> QED
      BY <2>1, <2>5, <3>1 DEF UnroutePeer, Unroute, DeleteRoute
  <2>6. CASE RemovalsDone
    BY <2>1, <2>6 DEF RemovalsDone
  <2>7. CASE AddToList
    BY <2>1, <2>7 DEF AddToList
  <2>8. CASE SetPeer
    <3>1. p \in peers /\ p # cur
      BY <2>1, <2>8 DEF SetPeer, SetFails, AddsReliable, ListsParse, IpsOf, CoreInv, TypeOK,
         UpdateInv, UpdateSteps, AddSteps
    <3>2. i \in IPs /\ i \notin cur.ips
      BY <2>1, <2>8, <3>1 DEF SetPeer, Peer, ContractInv, CoreInv, UpdateInv, UpdateSteps,
         AddSteps, Disjoint
    <3>3. p.key # cur.key
      BY <2>8, <3>1 DEF SetPeer, CoreInv, UniquePeerKeys, UniqueKeys, UpdateInv, UpdateSteps,
         AddSteps
    <3>4. i \in routes /\ (i \in PlainIPs \/ owner[i] = p.key)
      BY <2>1, <2>8, <3>1
    <3> QED
      BY <2>8, <3>2, <3>3, <3>4 DEF SetPeer, SetKernelPeer
  <2>9. CASE RoutePeer
    BY <2>1, <2>9 DEF RoutePeer, Route, AddRoute, RoutingInv
  <2>10. CASE UpdateDone
    BY <2>1, <2>10 DEF UpdateDone
  <2> QED
    BY <1>3, <2>2, <2>3, <2>4, <2>5, <2>6, <2>7, <2>8, <2>9, <2>10 DEF UpdateStep
<1>4. CASE Restart
  BY <1>4 DEF Restart
<1>5. CASE UNCHANGED tunnelVars
  BY <1>5 DEF tunnelVars
<1> QED
  BY <1>1, <1>2, <1>3, <1>4, <1>5 DEF Next
----------------------------------------------------------------------------
(* Routes that lead to nobody *)

RoutesLast ==
    /\ RemovalsReliable /\ RoutesReliable /\ ListsParse
    /\ \A L \in Lists : UniqueKeys(L)

Decoded(S) == {p \in S : p.key \notin BadKeys}

\* A peer whose key does not decode is refused by the device before it gets a
\* route, and is not taken off again: only the others account for a route.
\* A peer still to be added overwrites none, so none loses its record early.
OrphanInv ==
    RoutesLast =>
        /\ IpsOf(peers) \cap BadIPs = {}
        /\ pc \in RemoveSteps => cur.ips \cap BadIPs = {}
        /\ pc = "route" => cur.key \notin BadKeys /\ todo \subseteq cur.ips
        /\ pc \in UpdateSteps => KeysOf(toAdd) \cap KeysOf(peers) = {}
        /\ op # "none" /\ pc # "get" =>
             routes \subseteq
                 IpsOf(Decoded(peers))
                 \cup (IF pc \in {"config", "unset"} THEN IpsOf(Decoded({cur})) ELSE {})
                 \cup (IF pc = "unroute" THEN todo ELSE {})

LEMMA OrphanStep == CoreInv /\ OrphanInv /\ [Next]_tunnelVars => OrphanInv'
<1> SUFFICES ASSUME CoreInv, OrphanInv, [Next]_tunnelVars, RoutesLast PROVE OrphanInv'
  BY DEF OrphanInv, RoutesLast, RemovalsReliable, RoutesReliable, ListsParse, UniqueKeys, IpsOf
<1> USE DEF OrphanInv, IpsOf, Decoded, KeysOf, Goto, Return, objVars, devVars, callVars,
            loopVars
<1>1. CASE Call
  <2>1. pc = "idle" /\ (op = "none" => peers = {} /\ ~active)
    BY <1>1 DEF Call, GenerateKeys, CallCreate, CallUpdate, CallStart, CallStop,
       CoreInv, PhaseInv
  <2>2. CASE op = "none" /\ \E k \in SelfKeys : GenerateKeys(k)
    BY <2>1, <2>2 DEF GenerateKeys, UpdateSteps, RemoveSteps, AddSteps
  <2>3. CASE op = "none" /\ \E ip \in IPs : CallCreate(ip)
    BY <2>1, <2>3 DEF CallCreate, Enter, UpdateSteps, RemoveSteps, AddSteps
  <2>4. CASE (Created \/ Running) /\ \E L \in Lists : CallUpdate(L)
    BY <2>1, <2>4 DEF CallUpdate, ToAdd, Enter, RemoveSteps, Created, Running, CoreInv,
       PhaseInv
  <2>5. CASE Synced /\ CallStart
    BY <2>1, <2>5 DEF Synced, CallStart, LinkUp, UpdateSteps, RemoveSteps, AddSteps
  <2>6. CASE Running /\ CallStop
    BY <2>1, <2>6 DEF CallStop, DeleteLink, RemovalsReliable, RoutesLast, Running, CoreInv,
       PhaseInv, UpdateSteps, RemoveSteps, AddSteps
  <2> QED
    BY <1>1, <2>2, <2>3, <2>4, <2>5, <2>6 DEF Call
<1>2. CASE CreateStep
  <2>1. /\ op = "create" /\ peers = {}
        /\ link = "absent" => routes = {}
        /\ pc' \notin UpdateSteps
    BY <1>2 DEF CreateStep, CleanOldDevice, MakeDevice, ConfigureDevice, AssignAddress,
       BringUp, GiveUpDevice, CoreInv, PhaseInv, DeviceInv, CreateSteps, UpdateSteps,
       RemoveSteps, AddSteps
  <2>2. pc' \notin RemoveSteps /\ pc' \notin {"route", "config", "unset", "unroute"}
    BY <2>1 DEF UpdateSteps, RemoveSteps, AddSteps
  <2>3. pc # "get" => routes = {}
    BY <1>2, <2>1 DEF CreateStep, CleanOldDevice, MakeDevice, ConfigureDevice,
       AssignAddress, BringUp
  <2>4. peers' = {} /\ op' = op /\ pc' # "get" /\ routes' = {}
    <3>1. CASE CleanOldDevice
      BY <2>1, <3>1 DEF CleanOldDevice, DeleteLink, RemovalsReliable, RoutesLast
    <3>2. CASE MakeDevice
      BY <2>1, <2>3, <3>2 DEF MakeDevice, AddLink
    <3>3. CASE ConfigureDevice
      BY <2>1, <2>3, <3>3 DEF ConfigureDevice, ConfigureLink, GiveUpDevice, DeleteLink
    <3>4. CASE AssignAddress
      BY <2>1, <2>3, <3>4 DEF AssignAddress, AddAddress
    <3>5. CASE BringUp
      BY <2>1, <2>3, <3>5 DEF BringUp, LinkUp, GiveUpDevice, DeleteLink
    <3> QED
      BY <1>2, <3>1, <3>2, <3>3, <3>4, <3>5 DEF CreateStep
  <2> QED
    BY <2>1, <2>2, <2>4
<1>3. CASE UpdateStep
  <2>1. /\ op = "update" /\ pc \in UpdateSteps /\ link = "up"
        /\ pc \in RemoveSteps => active
    BY <1>3 DEF UpdateStep, RemoveFromList, WriteConfig, UnsetPeer, UnroutePeer,
       RemovalsDone, AddToList, SetPeer, RoutePeer, UpdateDone,
       CoreInv, PhaseInv, UpdateSteps, RemoveSteps, AddSteps
  <2> USE DEF UpdateSteps, RemoveSteps, AddSteps
  <2>2. CASE RemoveFromList
    <3>1. PICK p \in toRemove : RemoveFromList /\ cur' = p
                                 /\ peers' = {q \in peers : q.key # p.key}
      BY <2>2 DEF RemoveFromList
    <3>2. p \in peers /\ peers' = peers \ {p}
      BY <2>1, <3>1 DEF CoreInv, UpdateInv, UniquePeerKeys, UniqueKeys
    <3>3. /\ pc = "remove" /\ pc' = "config"
          /\ UNCHANGED <<op, routes, toAdd>>
      BY <3>1 DEF RemoveFromList
    <3> QED
      BY <2>1, <3>1, <3>2, <3>3
  <2>3. CASE WriteConfig
    <3>1. /\ pc = "config" /\ pc' = "unset"
          /\ UNCHANGED <<op, peers, routes, cur, toAdd>>
      BY <2>1, <2>3 DEF WriteConfig, RoutesLast, RemovalsReliable
    <3> QED
      BY <2>1, <3>1
  <2>4. CASE UnsetPeer
    <3>1. /\ pc = "unset" /\ pc' \in {"unroute", "idle"}
          /\ UNCHANGED <<op, peers>>
          /\ KeysOf(toAdd') \cap KeysOf(peers') = {}
      BY <2>1, <2>4 DEF UnsetPeer
    <3>2. CASE pc' = "unroute"
      BY <2>1, <2>4, <3>1, <3>2 DEF UnsetPeer, RemoveKernelPeer
    <3>3. CASE pc' = "idle"
      <4>1. cur.key \in BadKeys /\ routes' = routes
        BY <2>1, <2>4, <3>1, <3>3 DEF UnsetPeer, UnsetFails, RoutesLast, RemovalsReliable
      <4> QED
        BY <2>1, <3>1, <3>3, <4>1
    <3> QED
      BY <3>1, <3>2, <3>3
  <2>5. CASE UnroutePeer
    <3>1. pc = "unroute" /\ UNCHANGED <<op, peers, toAdd>> /\ cur.ips \cap BadIPs = {}
      BY <2>1, <2>5 DEF UnroutePeer, Unroute, CoreInv, UpdateInv
    <3>2. CASE todo = {} /\ pc' = "remove" /\ routes' = routes
      BY <2>1, <3>1, <3>2
    <3>3. ASSUME NEW i \in todo, i \notin BadIPs, routes' = routes \ {i},
                 todo' = todo \ {i}, UNCHANGED <<pc, cur>>
          PROVE  OrphanInv'
      BY <2>1, <3>1, <3>3
    <3>4. todo \cap BadIPs = {}
      BY <2>1, <3>1 DEF CoreInv, UpdateInv
    <3>5. CASE \E i \in todo : Unroute(i)
      <4>1. PICK i \in todo : Unroute(i)
        BY <3>5
      <4>2. /\ i \notin BadIPs /\ routes' = routes \ {i} /\ todo' = todo \ {i}
            /\ UNCHANGED <<pc, cur>>
        BY <3>4, <4>1 DEF Unroute, DeleteRoute, RoutesLast, RoutesReliable
      <4> QED
        BY <3>3, <4>2
    <3> QED
      BY <2>5, <3>2, <3>5 DEF UnroutePeer
  <2>6. CASE RemovalsDone
    BY <2>1, <2>6 DEF RemovalsDone
  <2>7. CASE AddToList
    <3>1. PICK p \in toAdd : AddToList /\ cur' = p /\ toAdd' = toAdd \ {p}
                              /\ peers' = {q \in peers : q.key # p.key} \cup {p}
      BY <2>7 DEF AddToList
    <3>2. /\ pc = "add" /\ pc' = "set" /\ UNCHANGED <<op, routes>>
          /\ want \in Lists \cup {{}} /\ toAdd \subseteq want
      BY <2>1, <3>1 DEF AddToList, CoreInv, TypeOK, UpdateInv
    <3>3. peers' = peers \cup {p}
      BY <2>1, <3>1
    <3>4. KeysOf(toAdd') \cap KeysOf(peers') = {}
      BY <2>1, <3>1, <3>2, <3>3 DEF RoutesLast, UniqueKeys
    <3>5. p.ips \cap BadIPs = {}
      BY <3>1, <3>2 DEF RoutesLast, ListsParse
    <3> QED
      BY <2>1, <3>1, <3>2, <3>3, <3>4, <3>5
  <2>8. CASE SetPeer
    BY <2>1, <2>8 DEF SetPeer, SetFails, SetKernelPeer, CoreInv, UpdateInv
  <2>9. CASE RoutePeer
    BY <2>1, <2>9 DEF RoutePeer, Route, AddRoute, CoreInv, UpdateInv
  <2>10. CASE UpdateDone
    BY <2>1, <2>10 DEF UpdateDone
  <2> QED
    BY <1>3, <2>2, <2>3, <2>4, <2>5, <2>6, <2>7, <2>8, <2>9, <2>10 DEF UpdateStep
<1>4. CASE Restart
  BY <1>4 DEF Restart, RemoveSteps, UpdateSteps, AddSteps
<1>5. CASE UNCHANGED tunnelVars
  BY <1>5 DEF tunnelVars
<1> QED
  BY <1>1, <1>2, <1>3, <1>4, <1>5 DEF Next

LEMMA OrphanInvariant == Spec => []OrphanInv
<1>1. Init => OrphanInv
  BY DEF Init, NewObject, OrphanInv, IpsOf, UpdateSteps, RemoveSteps, AddSteps
<1> QED
  BY <1>1, OrphanStep, CoreInvariant, PTL DEF Spec

(***************************************************************************)
(* No route outlives the peer it leads to when removals and route changes  *)
(* do not fail, across process deaths and also for peers whose keys the    *)
(* device refuses.                                                         *)
(***************************************************************************)
THEOREM NoRouteOrphaned == Spec => []NoOrphanRoutes
<1>1. OrphanInv => NoOrphanRoutes
  BY DEF OrphanInv, RoutesLast, NoOrphanRoutes, Decoded, IpsOf
<1> QED
  BY <1>1, OrphanInvariant, PTL
----------------------------------------------------------------------------
(* What a successful update achieves, and the refinement of PeerSync *)

\* All that was shown to be invariant.
LEMMA IInvInvariant == Spec => [](TypeOK /\ IInv)
<1> DEFINE Inv == /\ ContractInv /\ RoutingInv /\ Carried
                  /\ NoLeftoverPeers /\ NoMissingPeers
<1>1. Init => Inv
  BY DEF Init, NewObject, ContractInv, RoutingInv, Carried, NoLeftoverPeers,
     NoMissingPeers, KeysOf, RemoveSteps, Disjoint
<1>2. CoreInv /\ Inv /\ [Next]_tunnelVars => Inv'
  BY ContractStep, RoutingStep, CarriedStep, LeftoverStep, MissingStep
<1>3. CoreInv /\ Inv => TypeOK /\ IInv
  BY DEF CoreInv, IInv
<1> QED
  BY <1>1, <1>2, <1>3, CoreInvariant, PTL DEF Spec

(***************************************************************************)
(* When removals do not fail, the device holds no peer outside peers_, for *)
(* arbitrary lists and whatever else fails, across process deaths.         *)
(***************************************************************************)
THEOREM NothingLeftOver == Spec => []NoLeftoverPeers
  BY IInvInvariant, PTL DEF IInv

(***************************************************************************)
(* When additions do not fail, every peer in peers_ is on the device: what *)
(* compute_peer_diff takes for connected is connected.                     *)
(***************************************************************************)
THEOREM NothingMissing == Spec => []NoMissingPeers
  BY IInvInvariant, PTL DEF IInv

(***************************************************************************)
(* Under the contract, and when additions and route changes do not fail,   *)
(* every address of every listed peer is routed and owned by its peer at   *)
(* every moment, whatever happens to the other peers: removals come before *)
(* additions, so an address that passes from a peer that left to one that  *)
(* arrives ends with the newcomer and keeps its route.                     *)
(***************************************************************************)
THEOREM PeersAreCarried == Spec => []Carried
  BY IInvInvariant, PTL DEF IInv

\* When nothing fails, an update with nothing left to do has done its work.
LEMMA AppliedAtTheEnd ==
    ASSUME TypeOK, IInv, Reliable, pc = "add", toAdd = {}
    PROVE  /\ kpeers = KeysOf(want)
           /\ \A p \in want : \A i \in p.ips : owner[i] = p.key /\ i \in routes
<1>1. /\ op = "update"
      /\ \A p \in peers : p.key \in KeysOf(want)
      /\ \A p \in want : p.key \in KeysOf(peers)
  BY DEF IInv, PhaseInv, UpdateInv, UpdateSteps, AddSteps, KeysOf
<1>2. kpeers = KeysOf(peers)
  BY <1>1 DEF IInv, NoLeftoverPeers, NoMissingPeers, Reliable
<1>3. want \subseteq peers
  <2>1. want \subseteq UNION Lists /\ peers \subseteq UNION Lists
    BY DEF TypeOK, IInv, ContractInv, Reliable
  <2> QED
    BY <1>1, <2>1 DEF Reliable, Contract, UniqueKeys, KeysOf
<1>4. \A p \in peers : \A i \in p.ips : owner[i] = p.key /\ i \in routes
  BY <1>1 DEF IInv, Carried, Reliable
<1> QED
  BY <1>1, <1>2, <1>3, <1>4 DEF KeysOf

(***************************************************************************)
(* When nothing fails and the control plane keeps its contract,            *)
(* update_peers keeps its promise: it returns success only with exactly    *)
(* the peers of its argument connected and all their addresses routed to   *)
(* them.                                                                   *)
(***************************************************************************)
THEOREM SuccessIsApplied == Reliable => (Spec => []SuccessMeansApplied)
<1> SUFFICES ASSUME Reliable PROVE Spec => []SuccessMeansApplied
  OBVIOUS
<1>1. Init => SuccessMeansApplied
  BY DEF Init, NewObject, SuccessMeansApplied
<1>2. TypeOK /\ IInv /\ SuccessMeansApplied /\ [Next]_tunnelVars => SuccessMeansApplied'
  <2> SUFFICES ASSUME TypeOK, IInv, SuccessMeansApplied, [Next]_tunnelVars,
                      op' = "update", status' = "success"
               PROVE  SuccessMeansApplied'
    BY DEF SuccessMeansApplied
  <2> USE DEF SuccessMeansApplied, KeysOf
  <2>1. CASE Call
    BY <2>1 DEF Call, GenerateKeys, CallCreate, CallUpdate, CallStart, CallStop, Enter,
       callVars, devVars
  <2>2. CASE CreateStep
    BY <2>2 DEF CreateStep, CleanOldDevice, MakeDevice, ConfigureDevice, AssignAddress,
       BringUp, GiveUpDevice, Goto, Return, IInv, PhaseInv, CreateSteps
  <2>3. CASE UpdateStep
    <3>1. CASE UpdateDone
      BY <3>1, AppliedAtTheEnd DEF UpdateDone, Return, devVars
    <3> QED
      BY <2>3, <3>1 DEF UpdateStep, RemoveFromList, WriteConfig, UnsetPeer, UnroutePeer,
         Unroute, RemovalsDone, AddToList, SetPeer, RoutePeer, Route, Goto, Return, callVars,
         IInv, PhaseInv, UpdateSteps, RemoveSteps, AddSteps
  <2>4. CASE Restart
    BY <2>4 DEF Restart
  <2>5. CASE UNCHANGED tunnelVars
    BY <2>5 DEF tunnelVars, callVars, devVars
  <2> QED
    BY <2>1, <2>2, <2>3, <2>4, <2>5 DEF Next
<1> QED
  BY <1>1, <1>2, IInvInvariant, PTL DEF Spec

\* Between two calls the device connects and routes the list of the last
\* update, exactly.
AppliedInv ==
    Reliable /\ pc = "idle" /\ op \in {"update", "start"} =>
        /\ op = "update" => status = "success"
        /\ kpeers = KeysOf(want)
        /\ routes = IpsOf(want)
        /\ \A p \in want : \A i \in p.ips : owner[i] = p.key

LEMMA AppliedStep ==
    CoreInv /\ IInv /\ OrphanInv /\ AppliedInv /\ [Next]_tunnelVars => AppliedInv'
<1> SUFFICES ASSUME CoreInv, IInv, OrphanInv, AppliedInv, [Next]_tunnelVars, Reliable,
                    pc' = "idle", op' \in {"update", "start"}
             PROVE  AppliedInv'
  BY DEF AppliedInv
<1> USE DEF AppliedInv, Goto, Return, objVars, devVars, callVars, loopVars
<1>1. CASE Call
  BY <1>1 DEF Call, GenerateKeys, CallCreate, CallUpdate, CallStart, CallStop, Enter,
     Synced, LinkUp, CoreInv, PhaseInv, KeysOf, IpsOf
<1>2. CASE CreateStep
  BY <1>2 DEF CreateStep, CleanOldDevice, MakeDevice, ConfigureDevice, AssignAddress,
     BringUp, GiveUpDevice, CoreInv, PhaseInv, CreateSteps
<1>3. CASE UpdateStep
  <2>1. CASE UpdateDone
    <3>1. /\ pc = "add" /\ toAdd = {} /\ op = "update" /\ status' = "success"
          /\ want' = want /\ UNCHANGED <<kpeers, routes, owner>>
      BY <2>1 DEF UpdateDone, CoreInv, PhaseInv, UpdateSteps, AddSteps
    <3>2. /\ kpeers = KeysOf(want)
          /\ \A p \in want : \A i \in p.ips : owner[i] = p.key /\ i \in routes
      BY <3>1, AppliedAtTheEnd DEF CoreInv
    <3>3. peers \subseteq want
      <4>1. want \subseteq UNION Lists /\ peers \subseteq UNION Lists
        BY DEF CoreInv, TypeOK, IInv, ContractInv, Reliable
      <4>2. \A p \in peers : p.key \in KeysOf(want)
        BY <3>1 DEF CoreInv, UpdateInv, UpdateSteps, AddSteps
      <4> QED
        BY <4>1, <4>2 DEF Reliable, Contract, UniqueKeys, KeysOf
    <3>4. routes \subseteq IpsOf(peers)
      BY <3>1 DEF OrphanInv, RoutesLast, Reliable, Contract, AddsReliable, Decoded, IpsOf
    <3>5. routes = IpsOf(want)
      BY <3>2, <3>3, <3>4 DEF IpsOf
    <3> QED
      BY <3>1, <3>2, <3>5
  <2>2. CASE UpdateStep /\ ~UpdateDone
    <3>1. link = "up" /\ (pc \in {"unset", "unroute", "set"} => cur.ips \cap BadIPs = {})
      BY <2>2 DEF UpdateStep, RemoveFromList, WriteConfig, UnsetPeer, UnroutePeer,
         RemovalsDone, AddToList, SetPeer, RoutePeer, CoreInv, PhaseInv, UpdateInv,
         OrphanInv, RoutesLast, Reliable, Contract, AddsReliable, UpdateSteps, RemoveSteps,
         AddSteps, IpsOf
    <3>2. pc = "unroute" => todo \subseteq cur.ips
      BY DEF CoreInv, UpdateInv, UpdateSteps, RemoveSteps
    <3> QED
      BY <2>2, <3>1, <3>2 DEF UpdateStep, RemoveFromList, WriteConfig, UnsetPeer, UnsetFails,
         UnroutePeer, Unroute, RemovalsDone, AddToList, SetPeer, SetFails, RoutePeer, Route,
         Reliable, RemovalsReliable, AddsReliable
  <2> QED
    BY <1>3, <2>1, <2>2
<1>4. CASE Restart
  BY <1>4 DEF Restart
<1>5. CASE UNCHANGED tunnelVars
  BY <1>5 DEF tunnelVars, KeysOf, IpsOf
<1> QED
  BY <1>1, <1>2, <1>3, <1>4, <1>5 DEF Next

LEMMA AppliedInvariant == Spec => []AppliedInv
<1>1. Init => AppliedInv
  BY DEF Init, NewObject, AppliedInv
<1> QED
  BY <1>1, AppliedStep, CoreInvariant, IInvInvariant, OrphanInvariant, PTL DEF Spec

(***************************************************************************)
(* When nothing fails the tunnel manager implements PeerSync: update_peers *)
(* drops before it connects, and returns success when the device holds the *)
(* keys of its argument.                                                   *)
(***************************************************************************)
THEOREM Refinement == Reliable => (Spec => ImplementsPeerSync)
<1> SUFFICES ASSUME Reliable PROVE Spec => ImplementsPeerSync
  OBVIOUS
<1>1. Init => Sync!Init
  BY DEF Init, DeviceInit, NewObject, Sync!Init, SyncState, KeysOf
<1>2. TypeOK /\ TypeOK' /\ IInv /\ IInv' /\ [Next]_tunnelVars => [Sync!Next]_(Sync!vars)
  <2> SUFFICES ASSUME TypeOK, TypeOK', IInv, IInv', Next
               PROVE  Sync!Next \/ UNCHANGED Sync!vars
    BY DEF Sync!vars, tunnelVars, callVars, devVars, SyncState, KeysOf
  <2>1. pc # "idle" => status = "busy"
    BY DEF IInv, PhaseInv
  <2>2. CASE Call
    <3>1. CASE op = "none" /\ \E k \in SelfKeys : GenerateKeys(k)
      BY <3>1 DEF GenerateKeys, callVars, devVars, Sync!vars, SyncState, KeysOf
    <3>2. CASE op = "none" /\ \E ip \in IPs : CallCreate(ip)
      BY <3>2 DEF CallCreate, Enter, devVars, Sync!vars, SyncState, KeysOf
    <3>3. CASE \E L \in Lists : CallUpdate(L)
      <4>1. SyncState # "busy" /\ SyncState' = "busy" /\ kpeers' = kpeers
        BY <3>3 DEF CallUpdate, Enter, devVars, SyncState, IInv, PhaseInv
      <4>2. KeysOf(want)' \in SUBSET Keys
        BY ListsAssumption DEF TypeOK, KeysOf, Peer
      <4> QED
        BY <4>1, <4>2 DEF Sync!Next, Sync!Request
    <3>4. CASE Synced /\ CallStart
      BY <3>4 DEF Synced, CallStart, LinkUp, devVars, SyncState, KeysOf,
         Sync!Next, Sync!Close, Sync!vars
    <3>5. CASE CallStop
      BY <3>5 DEF CallStop, DeleteLink, LinkDown, devVars, SyncState, KeysOf,
         Sync!Next, Sync!Close
    <3> QED
      BY <2>2, <3>1, <3>2, <3>3, <3>4, <3>5 DEF Call
  <2>3. CASE CreateStep
    <3>1. op = "create" /\ op' = "create" /\ want' = want
      BY <2>3 DEF CreateStep, CleanOldDevice, MakeDevice, ConfigureDevice, AssignAddress,
         BringUp, GiveUpDevice, Goto, Return, IInv, PhaseInv, CreateSteps
    <3>2. kpeers' \in {kpeers, {}}
      BY <2>3 DEF CreateStep, CleanOldDevice, MakeDevice, ConfigureDevice, AssignAddress,
         BringUp, GiveUpDevice, DeleteLink, AddLink, ConfigureLink, AddAddress, LinkUp,
         devVars
    <3> QED
      BY <3>1, <3>2 DEF SyncState, KeysOf, Sync!Next, Sync!Close
  <2>4. CASE UpdateStep
    <3>1. op = "update" /\ op' = op /\ want' = want /\ status = "busy"
      BY <2>1, <2>4 DEF UpdateStep, RemoveFromList, WriteConfig, UnsetPeer, UnroutePeer,
         Unroute, RemovalsDone, AddToList, SetPeer, RoutePeer, Route, UpdateDone, Goto,
         Return, callVars, IInv, PhaseInv, UpdateSteps, RemoveSteps, AddSteps
    <3>2. SyncState = "busy" /\ KeysOf(want)' = KeysOf(want)
      BY <3>1 DEF SyncState, KeysOf
    <3>3. CASE status' = "busy" /\ kpeers' = kpeers
      BY <3>1, <3>2, <3>3 DEF SyncState, Sync!vars
    <3>4. CASE status' \notin {"busy", "success"} /\ kpeers' = kpeers
      BY <3>1, <3>2, <3>4 DEF SyncState, Sync!Next, Sync!Close
    <3>5. CASE UnsetPeer
      <4>1. CASE status' = "busy" /\ RemoveKernelPeer(cur.key)
        <5>1. cur.key \notin KeysOf(want)
          BY <3>5 DEF UnsetPeer, IInv, UpdateInv, UpdateSteps, RemoveSteps
        <5>2. SyncState' = "busy"
          BY <3>1, <4>1 DEF SyncState
        <5>3. CASE cur.key \in kpeers
          BY <3>2, <4>1, <5>1, <5>2, <5>3 DEF RemoveKernelPeer, Sync!Next, Sync!Drop
        <5>4. CASE cur.key \notin kpeers
          BY <3>2, <4>1, <5>2, <5>4 DEF RemoveKernelPeer, Sync!vars
        <5> QED
          BY <5>3, <5>4
      <4> QED
        BY <3>1, <3>4, <3>5, <4>1 DEF UnsetPeer, Goto, Return, devVars
    <3>6. CASE SetPeer
      <4>1. CASE status' = "busy" /\ SetKernelPeer(cur.key, cur.ips \ PlainIPs)
        <5>1. /\ cur \in want
              /\ \A p \in peers : p.key \in KeysOf(want)
              /\ kpeers \subseteq KeysOf(peers)
          BY <3>1, <3>6 DEF SetPeer, IInv, UpdateInv, UpdateSteps, AddSteps,
             NoLeftoverPeers, Reliable
        <5>2. kpeers \subseteq KeysOf(want) /\ cur.key \in KeysOf(want)
          BY <5>1 DEF KeysOf
        <5>3. SyncState' = "busy"
          BY <3>1, <4>1 DEF SyncState
        <5>4. CASE cur.key \in kpeers
          BY <3>2, <4>1, <5>3, <5>4 DEF SetKernelPeer, Sync!vars
        <5>5. CASE cur.key \notin kpeers
          BY <3>2, <4>1, <5>2, <5>3, <5>5 DEF SetKernelPeer, Sync!Next, Sync!Connect
        <5> QED
          BY <5>4, <5>5
      <4> QED
        BY <3>1, <3>4, <3>6, <4>1 DEF SetPeer, Goto, Return, devVars
    <3>7. CASE UpdateDone
      <4>1. kpeers = KeysOf(want)
        BY <3>7, AppliedAtTheEnd DEF UpdateDone
      <4>2. SyncState' = "synced" /\ kpeers' = kpeers
        BY <3>1, <3>7 DEF UpdateDone, Return, SyncState, devVars
      <4> QED
        BY <3>2, <4>1, <4>2 DEF Sync!Next, Sync!Finish
    <3> QED
      BY <2>4, <3>1, <3>3, <3>4, <3>5, <3>6, <3>7 DEF UpdateStep, RemoveFromList,
         WriteConfig, UnroutePeer, Unroute, DeleteRoute, RemovalsDone, AddToList,
         RoutePeer, Route, AddRoute, Goto, Return, callVars, devVars
  <2>5. CASE Restart
    BY <2>5 DEF Restart, devVars, SyncState, KeysOf, Sync!Next, Sync!Close
  <2> QED
    BY <2>2, <2>3, <2>4, <2>5 DEF Next
<1> QED
  BY <1>1, <1>2, IInvInvariant, PTL DEF Spec, ImplementsPeerSync, Sync!Spec

=============================================================================
