---------------------------- MODULE Agent_proofs ----------------------------
(***************************************************************************)
(* Proofs about Agent and AgentRounds, for every set of keys, addresses,   *)
(* lists, views, faults and bound on events.                               *)
(***************************************************************************)
EXTENDS AgentRounds, TunnelManager_proofs

----------------------------------------------------------------------------
(* What a step of a running call leaves alone *)

\* A step of create_interface or update_peers is taken inside a call, and
\* changes neither the call nor what only calls change.
LEMMA TunnelFrame ==
    CreateStep \/ UpdateStep =>
        pc # "idle" /\ op' = op /\ active' = active /\ selfKey' = selfKey
<1> SUFFICES ASSUME CreateStep \/ UpdateStep
             PROVE  pc # "idle" /\ op' = op /\ active' = active /\ selfKey' = selfKey
  OBVIOUS
<1> USE DEF Goto, Return, objVars, callVars
<1>1. CASE CreateStep
  BY <1>1 DEF CreateStep, CleanOldDevice, MakeDevice, ConfigureDevice,
              GiveUpDevice, AssignAddress, BringUp
<1>2. CASE UpdateStep
  BY <1>2 DEF UpdateStep, RemoveFromList, WriteConfig, UnsetPeer, UnroutePeer,
              Unroute, RemovalsDone, AddToList, SetPeer, RoutePeer, Route,
              UpdateDone
<1> QED
  BY <1>1, <1>2

\* The device has the key of this process from setkey on.
LEMMA TunnelKey ==
    ASSUME pc # "idle" => status = "busy",
           pc \in CreateSteps => op = "create",
           pc \in UpdateSteps => op = "update",
           pc \in {"addr", "up"} \/ Created \/ op \in {"update", "start"}
               => devKey = selfKey,
           CreateStep \/ UpdateStep
    PROVE  /\ pc' # "idle" => status' = "busy"
           /\ pc' \in CreateSteps => op' = "create"
           /\ pc' \in UpdateSteps => op' = "update"
           /\ (pc \in {"addr", "up"} \/ Created \/ op \in {"update", "start"})'
                 => devKey' = selfKey'
<1> USE DEF CreateSteps, UpdateSteps, RemoveSteps, AddSteps, Created, Goto,
            Return, objVars, callVars, devVars
<1>1. CASE CreateStep
  <2>1. CASE CleanOldDevice
    BY <2>1 DEF CleanOldDevice
  <2>2. CASE MakeDevice
    BY <2>2 DEF MakeDevice
  <2>3. CASE ConfigureDevice
    BY <2>3 DEF ConfigureDevice, GiveUpDevice, ConfigureLink
  <2>4. CASE AssignAddress
    BY <2>4 DEF AssignAddress, AddAddress
  <2>5. CASE BringUp
    BY <2>5 DEF BringUp, GiveUpDevice, LinkUp
  <2> QED
    BY <1>1, <2>1, <2>2, <2>3, <2>4, <2>5 DEF CreateStep
<1>2. CASE UpdateStep
  BY <1>2 DEF UpdateStep, RemoveFromList, WriteConfig, UnsetPeer, UnroutePeer,
              Unroute, RemovalsDone, AddToList, SetPeer, RoutePeer, Route,
              UpdateDone, RemoveKernelPeer, DeleteRoute, SetKernelPeer, AddRoute
<1> QED
  BY <1>1, <1>2

\* A view is an own address and a list.
LEMMA ViewParts ==
    ASSUME NEW v \in Views
    PROVE  v.ip \in IPs /\ v.peers \in Lists /\ v # NoView /\ v \in View
  BY ViewsAssumption DEF View
----------------------------------------------------------------------------
(* The invariant *)

LEMMA AgentInitInv == AgentInit => AgentInv
  BY AgentFaultsAssumption
  DEF AgentInit, Init, DeviceInit, NewObject, NewAgent, AgentInv, AgentTypeOK,
      CallInv, KeyInv, AgentSteps, CreateSteps, UpdateSteps, RemoveSteps,
      AddSteps, Created, Beating

\* A registration that is answered, and one that is not.
LEMMA RegisterTypes ==
    ASSUME AgentTypeOK, pubKey \in SelfKeys, regKey \in {None, pubKey},
           RegisterOk \/ RegisterFails
    PROVE  /\ regKey' \in {None, pubKey}
           /\ lastHash' \in Views \cup {NoView}
           /\ cached' \in View \cup {NoView}
           /\ cpView' = cpView /\ reachable' \in BOOLEAN /\ events' = events
           /\ cpAlive' \subseteq SelfKeys
           /\ RegisterOk => cached' \in Views
  BY ViewParts DEF AgentTypeOK, RegisterOk, RegisterFails, Register, HashSent, serverVars

LEMMA VpnUpInv == AgentInv /\ VpnUp => AgentInv'
<1> SUFFICES ASSUME AgentInv, VpnUp PROVE AgentInv'
  OBVIOUS
<1> USE DEF AgentInv, CallInv, KeyInv, AgentSteps, Beating, AgentGoto, Created,
            CreateSteps, UpdateSteps, RemoveSteps, AddSteps, serverVars, clientVars
<1>1. CASE Boot
  BY <1>1 DEF Boot, GenerateKeys, AgentTypeOK, callVars, devVars
<1>2. CASE BootThrows
  BY <1>2 DEF BootThrows, AgentTypeOK, tunnelVars, objVars, callVars, devVars
<1>3. CASE VpnUpRegisters
  BY <1>3, RegisterTypes DEF VpnUpRegisters, CallCreate, Enter, AgentTypeOK, devVars
<1>4. CASE VpnUpNotRegistered
  BY <1>4, RegisterTypes DEF VpnUpNotRegistered, AgentTypeOK, tunnelVars, objVars,
                             callVars, devVars
<1>5. CASE InterfaceCreated
  BY <1>5 DEF InterfaceCreated, CallUpdate, Enter, AgentTypeOK, devVars, objVars
<1>6. CASE PeersConfigured
  BY <1>6 DEF PeersConfigured, CallStart, LinkUp, AgentTypeOK, devVars
<1>7. CASE VpnUpFails
  BY <1>7 DEF VpnUpFails, AgentTypeOK, tunnelVars, objVars, callVars, devVars
<1> QED
  BY <1>1, <1>2, <1>3, <1>4, <1>5, <1>6, <1>7 DEF VpnUp

LEMMA HeartbeatInv == AgentInv /\ Heartbeat => AgentInv'
<1> SUFFICES ASSUME AgentInv, Heartbeat PROVE AgentInv'
  OBVIOUS
<1> USE DEF AgentInv, CallInv, KeyInv, AgentSteps, Beating, AgentGoto, Created,
            CreateSteps, UpdateSteps, RemoveSteps, AddSteps, serverVars, clientVars,
            Ping, HashSent
<1>1. CASE PingFails \/ PingNotModified \/ Applied \/ StillRegistered \/ Reapplied
  BY <1>1 DEF PingFails, PingNotModified, Applied, StillRegistered, Reapplied,
              AgentTypeOK, tunnelVars, objVars, callVars, devVars
<1>2. CASE PingUnknown \/ PingThrows
  BY <1>2 DEF PingUnknown, PingThrows, AgentTypeOK, tunnelVars, objVars, callVars,
              devVars
<1>3. CASE PingModified
  BY <1>3, ViewParts DEF PingModified, CallUpdate, Enter, AgentTypeOK, objVars, devVars
<1>4. CASE ReRegisters
  BY <1>4, RegisterTypes DEF ReRegisters, CallUpdate, Enter, AgentTypeOK, objVars,
                             devVars
<1>5. CASE PingWithoutPeers
  <2>1. cached' \in View
    BY <1>5, ViewParts, AgentFaultsAssumption DEF PingWithoutPeers, AgentTypeOK, View
  <2> QED
    BY <1>5, <2>1 DEF PingWithoutPeers, CallUpdate, Enter, AgentTypeOK, objVars, devVars
<1>6. CASE NotReRegistered
  BY <1>6, RegisterTypes DEF NotReRegistered, AgentTypeOK, tunnelVars, objVars,
                             callVars, devVars
<1> QED
  BY <1>1, <1>2, <1>3, <1>4, <1>5, <1>6 DEF Heartbeat

LEMMA TunnelStepInv == AgentInv /\ TunnelStep => AgentInv'
<1> SUFFICES ASSUME AgentInv, TunnelStep PROVE AgentInv'
  OBVIOUS
<1>1. /\ pc # "idle" /\ op' = op /\ active' = active /\ selfKey' = selfKey
      /\ UNCHANGED <<agentVars, serverVars>>
  BY TunnelFrame DEF TunnelStep
<1>2. AgentTypeOK'
  BY <1>1 DEF AgentInv, AgentTypeOK, agentVars, serverVars, clientVars
<1>3. CallInv'
  BY <1>1 DEF AgentInv, CallInv, Beating, agentVars, clientVars
<1>4. KeyInv'
  BY <1>1, TunnelKey DEF AgentInv, KeyInv, Beating, agentVars, clientVars, TunnelStep
<1> QED
  BY <1>2, <1>3, <1>4 DEF AgentInv

LEMMA StopInv == AgentInv /\ (Stop \/ Hangs \/ Join \/ Destroy) => AgentInv'
<1> SUFFICES ASSUME AgentInv, Stop \/ Hangs \/ Join \/ Destroy PROVE AgentInv'
  OBVIOUS
<1> USE DEF AgentInv, AgentTypeOK, CallInv, KeyInv, AgentSteps, Beating, AgentGoto,
            Created, CreateSteps, UpdateSteps, RemoveSteps, AddSteps, serverVars,
            clientVars, objVars, callVars, devVars
<1>1. CASE Stop
  <2>1. /\ UNCHANGED <<tunnelVars, apc, pubKey, cached, clientVars, serverVars>>
        /\ running' = FALSE
    BY <1>1 DEF Stop
  <2>2. AgentTypeOK'
    BY <2>1
  <2>3. CallInv'
    BY <2>1 DEF tunnelVars
  <2>4. KeyInv'
    BY <2>1 DEF tunnelVars
  <2> QED
    BY <2>2, <2>3, <2>4
<1>2. CASE Hangs
  <2>1. cpAlive' \subseteq SelfKeys /\ cpView' = cpView
        /\ reachable' = reachable /\ events' = events
    BY <1>2 DEF Hangs, Register, Ping
  <2>2. AgentTypeOK'
    BY <1>2, <2>1 DEF Hangs
  <2>3. CallInv' /\ KeyInv'
    BY <1>2, <2>1 DEF Hangs, tunnelVars
  <2> QED
    BY <2>2, <2>3
<1>3. CASE Join
  BY <1>3 DEF Join, tunnelVars
<1>4. CASE Destroy /\ active
  BY <1>4 DEF Destroy, CallStop
<1>5. CASE Destroy /\ ~active
  BY <1>5 DEF Destroy, tunnelVars
<1> QED
  BY <1>1, <1>2, <1>3, <1>4, <1>5

LEMMA EventInv ==
    AgentInv /\ (ChangeView \/ Evict \/ Outage \/ Recover \/ Kill) => AgentInv'
<1> SUFFICES ASSUME AgentInv, ChangeView \/ Evict \/ Outage \/ Recover \/ Kill
             PROVE  AgentInv'
  OBVIOUS
<1> USE AgentFaultsAssumption
    DEF AgentInv, AgentTypeOK, CallInv, KeyInv, AgentSteps, Beating, Created,
        CreateSteps, UpdateSteps, RemoveSteps, AddSteps, serverVars, clientVars,
        agentVars, objVars, callVars, devVars
<1>1. Event => events' \in 0 .. MaxEvents
  BY DEF Event
<1>2. CASE ChangeView
  BY <1>1, <1>2 DEF ChangeView, tunnelVars
<1>3. CASE Evict
  BY <1>1, <1>3 DEF Evict, tunnelVars
<1>4. CASE Outage \/ Recover
  <2>1. /\ UNCHANGED <<tunnelVars, agentVars, cpView, cpAlive>>
        /\ reachable' \in BOOLEAN /\ events' \in 0 .. MaxEvents
    BY <1>1, <1>4 DEF Outage, Recover
  <2>2. AgentTypeOK'
    BY <2>1
  <2>3. CallInv'
    BY <2>1 DEF tunnelVars
  <2>4. KeyInv'
    BY <2>1 DEF tunnelVars
  <2> QED
    BY <2>2, <2>3, <2>4
<1>5. CASE Kill
  BY <1>1, <1>5 DEF Kill, Restart
<1> QED
  BY <1>2, <1>3, <1>4, <1>5

LEMMA AgentStutterInv == AgentInv /\ UNCHANGED vars => AgentInv'
  BY DEF AgentInv, AgentTypeOK, CallInv, KeyInv, Beating, Created, vars, tunnelVars,
         agentVars, serverVars, clientVars, objVars, callVars, devVars

LEMMA AgentInvariant == AgentSpec => []AgentInv
<1>1. AgentInv /\ [AgentNext]_vars => AgentInv'
  BY VpnUpInv, HeartbeatInv, TunnelStepInv, StopInv, EventInv, AgentStutterInv
  DEF AgentNext, Thread, Environment
<1> QED
  BY AgentInitInv, <1>1, PTL DEF AgentSpec

(***************************************************************************)
(* The agent only ever reaches states of the declared types; in particular *)
(* it never registers or pings with an empty key.                          *)
(***************************************************************************)
THEOREM AgentTypeCorrect == AgentSpec => []AgentTypeOK
<1>1. AgentInv => AgentTypeOK
  BY DEF AgentInv
<1> QED
  BY <1>1, AgentInvariant, PTL

(***************************************************************************)
(* In the heartbeat the key that is registered, the pair of the tunnel     *)
(* manager and the key on the device are one, whatever fails and however   *)
(* often the agent is evicted, registers again, or is restarted.           *)
(***************************************************************************)
THEOREM OneKey == AgentSpec => []KeysAgree
<1>1. AgentInv => KeysAgree
  BY DEF AgentInv, CallInv, KeyInv, KeysAgree
<1> QED
  BY <1>1, AgentInvariant, PTL
----------------------------------------------------------------------------
(* The agent uses the tunnel manager as TunnelManager assumes *)

LEMMA AgentStepIsTunnelStep == AgentInv /\ [AgentNext]_vars => [Next]_tunnelVars
<1> SUFFICES ASSUME AgentInv, [AgentNext]_vars PROVE [Next]_tunnelVars
  OBVIOUS
<1> USE DEF AgentInv, AgentGoto
<1>1. CASE TunnelStep
  BY <1>1 DEF TunnelStep, Next
<1>2. CASE VpnUp
  <2>1. CASE Boot
    BY <2>1 DEF Boot, CallInv, Next, Call
  <2>2. CASE VpnUpRegisters
    <3>1. op = "none" /\ cpView.ip \in IPs /\ CallCreate(cpView.ip)
      BY <2>2, ViewParts DEF VpnUpRegisters, CallInv, AgentTypeOK
    <3> QED
      BY <3>1 DEF Next, Call
  <2>3. CASE InterfaceCreated
    <3>1. Created /\ cached.peers \in Lists /\ CallUpdate(cached.peers)
      BY <2>3, ViewParts DEF InterfaceCreated, CallInv, Created
    <3> QED
      BY <3>1 DEF Next, Call
  <2>4. CASE PeersConfigured
    BY <2>4 DEF PeersConfigured, CallInv, Synced, Next, Call
  <2> QED
    BY <1>2, <2>1, <2>2, <2>3, <2>4
    DEF VpnUp, BootThrows, VpnUpNotRegistered, VpnUpFails
<1>3. CASE Heartbeat
  <2>1. CASE PingModified \/ ReRegisters
    <3>1. Running /\ cpView.peers \in Lists /\ CallUpdate(cpView.peers)
      BY <2>1, ViewParts DEF PingModified, ReRegisters, Ping, CallInv, Beating,
                             Running, AgentTypeOK
    <3> QED
      BY <3>1 DEF Next, Call
  <2>2. CASE PingWithoutPeers
    <3>1. Running /\ {} \in Lists /\ CallUpdate({})
      BY <2>2, AgentFaultsAssumption DEF PingWithoutPeers, Ping, CallInv, Beating, Running
    <3> QED
      BY <3>1 DEF Next, Call
  <2> QED
    BY <1>3, <2>1, <2>2
    DEF Heartbeat, PingFails, PingNotModified, PingUnknown, PingThrows, Applied,
        StillRegistered, NotReRegistered, Reapplied
<1>4. CASE Hangs \/ Join \/ Destroy
  BY <1>4 DEF Hangs, Join, Destroy, CallInv, Running, Next, Call
<1>5. CASE Environment
  BY <1>5 DEF Environment, Stop, ChangeView, Evict, Outage, Recover, Kill, Next
<1>6. CASE UNCHANGED vars
  BY <1>6 DEF vars
<1> QED
  BY <1>1, <1>2, <1>3, <1>4, <1>5, <1>6 DEF AgentNext, Thread

(***************************************************************************)
(* The agent is an owner of the tunnel manager such as TunnelManager       *)
(* assumes: every behaviour of the agent is one of Spec.                   *)
(***************************************************************************)
THEOREM AgentImplementsTunnel == AgentSpec => CallsInOrder
<1>1. AgentInit => Init
  BY DEF AgentInit
<1> QED
  BY <1>1, AgentInvariant, AgentStepIsTunnelStep, PTL DEF AgentSpec, CallsInOrder, Spec

(***************************************************************************)
(* So what is proved of the tunnel manager holds in the agent.  In         *)
(* particular an update never takes a wanted peer off the device, and with *)
(* nothing failing update_peers returns success only when it is applied,   *)
(* whenever the heartbeat calls it and wherever the process dies.          *)
(***************************************************************************)
THEOREM AgentInheritsTunnel ==
    /\ AgentSpec => KeepsWantedPeers
    /\ Reliable => (AgentSpec => []SuccessMeansApplied)
<1>1. AgentSpec => KeepsWantedPeers
  BY AgentImplementsTunnel, WantedPeersStay, PTL DEF CallsInOrder
<1>2. ASSUME Reliable PROVE AgentSpec => []SuccessMeansApplied
  BY <1>2, AgentImplementsTunnel, SuccessIsApplied, PTL DEF CallsInOrder
<1> QED
  BY <1>1, <1>2
----------------------------------------------------------------------------
(* The hash stands for what was applied *)

\* The hash the agent holds is the hash of the list it gave, or is about to
\* give, to the tunnel manager.
HashInv ==
    WholeReplies =>
        /\ apc \in {"boot", "register"} => lastHash = NoView
        /\ apc = "creating" => lastHash \in {NoView, cached}
        /\ apc = "configuring" \/ Beating => lastHash = NoView \/ want = lastHash.peers

LEMMA HashStep == AgentInv /\ HashInv /\ [AgentNext]_vars => HashInv'
<1> SUFFICES ASSUME AgentInv, HashInv, [AgentNext]_vars, WholeReplies
             PROVE  HashInv'
  BY DEF HashInv
<1> USE DEF HashInv, Beating, AgentGoto, serverVars, clientVars, agentVars
<1>1. CASE TunnelStep
  <2>1. want' = want
    BY <1>1 DEF TunnelStep, CreateStep, UpdateStep, CleanOldDevice, MakeDevice,
       ConfigureDevice, GiveUpDevice, AssignAddress, BringUp, RemoveFromList, WriteConfig,
       UnsetPeer, UnroutePeer, Unroute, RemovalsDone, AddToList, SetPeer, RoutePeer, Route,
       UpdateDone, Goto, Return, callVars
  <2> QED
    BY <1>1, <2>1 DEF TunnelStep
<1>2. CASE VpnUp
  BY <1>2 DEF VpnUp, Boot, BootThrows, VpnUpRegisters, VpnUpNotRegistered, InterfaceCreated,
     PeersConfigured, VpnUpFails, RegisterOk, RegisterFails, HashSent, GenerateKeys,
     CallCreate, CallUpdate, CallStart, tunnelVars, callVars
<1>3. CASE Heartbeat
  <2>1. CASE PingModified \/ ReRegisters
    BY <2>1 DEF PingModified, ReRegisters, Ping, RegisterOk, HashSent, CallUpdate
  <2>2. CASE NotReRegistered
    BY <2>2 DEF NotReRegistered, RegisterFails, tunnelVars, callVars
  <2> QED
    BY <1>3, <2>1, <2>2 DEF Heartbeat, PingFails, PingNotModified, PingUnknown, PingThrows,
       PingWithoutPeers, WholeReplies, Ping, Applied, StillRegistered, Reapplied, tunnelVars, callVars
<1>4. CASE Hangs \/ Join \/ Destroy
  BY <1>4 DEF Hangs, Join, Destroy, tunnelVars, callVars
<1>5. CASE Stop \/ ChangeView \/ Evict \/ Outage \/ Recover
  BY <1>5 DEF Stop, ChangeView, Evict, Outage, Recover, tunnelVars, callVars
<1>6. CASE Kill
  BY <1>6 DEF Kill
<1>7. CASE UNCHANGED vars
  BY <1>7 DEF vars, tunnelVars, callVars
<1> QED
  BY <1>1, <1>2, <1>3, <1>4, <1>5, <1>6, <1>7 DEF AgentNext, Thread, Environment

(***************************************************************************)
(* An answer 304 hides no change: between two requests the hash the agent  *)
(* sends is that of what its device connects and routes, for every loss,   *)
(* eviction, outage, change and restart, when nothing of the tunnel fails  *)
(* and replies are whole.                                                  *)
(***************************************************************************)
THEOREM HashOfWhatIsApplied == AgentSpec => []HashIsApplied
<1>1. AgentInit => HashInv
  BY DEF AgentInit, NewAgent, HashInv, Beating
<1>2. AgentSpec => []AppliedInv
  BY AgentImplementsTunnel, AppliedInvariant, PTL DEF CallsInOrder
<1>3. AgentInv /\ AppliedInv /\ HashInv => HashIsApplied
  <2> SUFFICES ASSUME AgentInv, AppliedInv, HashInv, Reliable, WholeReplies,
                      apc \in {"ping", "check"}, lastHash # NoView
               PROVE  /\ kpeers = KeysOf(lastHash.peers)
                      /\ routes = IpsOf(lastHash.peers)
                      /\ \A p \in lastHash.peers : \A i \in p.ips : owner[i] = p.key
    BY DEF HashIsApplied
  <2>1. want = lastHash.peers
    BY DEF HashInv, Beating
  <2>2. pc = "idle" /\ op \in {"update", "start"}
    BY DEF AgentInv, CallInv, Beating
  <2> QED
    BY <2>1, <2>2 DEF AppliedInv
<1> QED
  BY <1>1, <1>2, <1>3, HashStep, AgentInvariant, PTL DEF AgentSpec

----------------------------------------------------------------------------
(* AgentRounds: current is a history variable *)

LEMMA RoundIsAgentStep == [RoundsNext]_roundVars => [AgentNext]_vars
BY DEF RoundsNext, roundVars, Answered, Outdated, Unrelated, AgentNext, Thread, VpnUp,
       Heartbeat, Environment

(***************************************************************************)
(* Every behaviour of AgentRounds is one of Agent: what is proved of Agent *)
(* holds of it, and current only watches.                                  *)
(***************************************************************************)
THEOREM RoundsAreAgent == RoundsSpec => AgentSpec
<1>1. RoundsInit => AgentInit
  BY DEF RoundsInit
<1> QED
  BY <1>1, RoundIsAgentStep, PTL DEF RoundsSpec, AgentSpec
----------------------------------------------------------------------------
(* AgentRounds: one answered round *)

\* A request that is answered brings the agent up to date, or tells it to
\* register.
LEMMA AnsweredCurrent ==
    ASSUME AgentInv, HashInv, CurrentInv, Answered, current' = TRUE,
           WholeReplies
    PROVE  CurrentInv'
<1> USE DEF CurrentInv, Beating, AgentGoto, serverVars, clientVars
<1>1. CASE VpnUpRegisters
  BY <1>1 DEF VpnUpRegisters, RegisterOk, Register
<1>2. CASE ReRegisters
  <2>1. pubKey \in cpAlive' /\ regKey' = pubKey /\ want' = cpView.peers /\ cpView' = cpView
        /\ apc' = "reapplying"
    BY <1>2 DEF ReRegisters, RegisterOk, Register, CallUpdate
  <2> QED
    BY <2>1
<1>3. CASE PingNotModified
  <2>1. want = cpView.peers
    BY <1>3, ViewParts DEF PingNotModified, Ping, HashInv, AgentInv, AgentTypeOK
  <2>2. UNCHANGED <<want, cpView, cpAlive, regKey>> /\ apc' = "check" /\ regKey \in cpAlive
    BY <1>3 DEF PingNotModified, tunnelVars, callVars
  <2> QED
    BY <2>1, <2>2
<1>4. CASE PingModified
  BY <1>4 DEF PingModified, CallUpdate
<1>5. CASE PingUnknown
  BY <1>5 DEF PingUnknown
<1> QED
  BY <1>1, <1>2, <1>3, <1>4, <1>5 DEF Answered

\* No other step of the agent undoes that.
LEMMA UnrelatedCurrent ==
    ASSUME AgentInv, CurrentInv, Unrelated, current' = current,
           WholeReplies
    PROVE  CurrentInv'
<1> USE DEF CurrentInv, Beating, AgentGoto, serverVars, clientVars, agentVars
<1>1. CASE TunnelStep
  <2>1. want' = want
    BY <1>1 DEF TunnelStep, CreateStep, UpdateStep, CleanOldDevice, MakeDevice,
       ConfigureDevice, GiveUpDevice, AssignAddress, BringUp, RemoveFromList, WriteConfig,
       UnsetPeer, UnroutePeer, Unroute, RemovalsDone, AddToList, SetPeer, RoutePeer, Route,
       UpdateDone, Goto, Return, callVars
  <2> QED
    BY <1>1, <2>1 DEF TunnelStep
<1>2. CASE Boot \/ BootThrows \/ InterfaceCreated \/ PeersConfigured \/ VpnUpFails
  BY <1>2 DEF Boot, BootThrows, InterfaceCreated, PeersConfigured, VpnUpFails, CallUpdate,
              CallStart
<1>3. CASE PingFails \/ Applied \/ StillRegistered \/ Reapplied
  BY <1>3 DEF PingFails, Ping, Applied, StillRegistered, Reapplied, tunnelVars, callVars
<1>4. CASE Join \/ Destroy
  BY <1>4 DEF Join, Destroy
<1>5. CASE Stop \/ Outage \/ Recover
  BY <1>5 DEF Stop, Outage, Recover, tunnelVars, callVars
<1> QED
  BY <1>1, <1>2, <1>3, <1>4, <1>5 DEF Unrelated

LEMMA CurrentStep ==
    AgentInv /\ HashInv /\ CurrentInv /\ [RoundsNext]_roundVars => CurrentInv'
<1> SUFFICES ASSUME AgentInv, HashInv, CurrentInv, [RoundsNext]_roundVars,
                    WholeReplies
             PROVE  CurrentInv'
  BY DEF CurrentInv
<1>1. CASE Answered /\ current' = TRUE
  BY <1>1, AnsweredCurrent
<1>2. CASE Outdated /\ current' = FALSE
  BY <1>2 DEF CurrentInv
<1>3. CASE Unrelated /\ UNCHANGED current
  BY <1>3, UnrelatedCurrent
<1>4. CASE UNCHANGED roundVars
  BY <1>4 DEF roundVars, vars, tunnelVars, callVars, agentVars, clientVars, serverVars,
              CurrentInv, Beating
<1> QED
  BY <1>1, <1>2, <1>3, <1>4 DEF RoundsNext

(***************************************************************************)
(* One answered round brings an agent up to date, whatever was lost,       *)
(* evicted, changed or restarted before, for all views and lists, when     *)
(* nothing of the tunnel fails and replies are whole.                      *)
(***************************************************************************)
THEOREM OneRoundIsEnough == RoundsSpec => []OneRoundSuffices
<1>1. RoundsInit => CurrentInv /\ HashInv
  BY DEF RoundsInit, AgentInit, NewAgent, CurrentInv, HashInv, Beating
<1>2. RoundsSpec => []AppliedInv
  BY RoundsAreAgent, AgentImplementsTunnel, AppliedInvariant, PTL DEF CallsInOrder
<1>3. RoundsSpec => []AgentInv
  BY RoundsAreAgent, AgentInvariant, PTL
<1>4. AgentInv /\ HashInv /\ [RoundsNext]_roundVars => HashInv'
  BY RoundIsAgentStep, HashStep
<1>5. AgentInv /\ AppliedInv /\ CurrentInv => OneRoundSuffices
  <2> SUFFICES ASSUME AgentInv, AppliedInv, CurrentInv, Reliable,
                      WholeReplies, apc = "ping", current
               PROVE  /\ regKey \in cpAlive
                      /\ kpeers = KeysOf(cpView.peers)
                      /\ routes = IpsOf(cpView.peers)
                      /\ \A p \in cpView.peers : \A i \in p.ips : owner[i] = p.key
    BY DEF OneRoundSuffices
  <2>1. regKey \in cpAlive
    BY DEF CurrentInv, Beating
  <2>2. regKey # None /\ pc = "idle" /\ op \in {"update", "start"}
    BY <2>1, NoneAssumption DEF AgentInv, AgentTypeOK, CallInv, Beating
  <2>3. want = cpView.peers
    BY <2>2 DEF CurrentInv, Beating
  <2> QED
    BY <2>1, <2>2, <2>3 DEF AppliedInv
<1> QED
  BY <1>1, <1>2, <1>3, <1>4, <1>5, CurrentStep, PTL DEF RoundsSpec
=============================================================================
