------------------------------- MODULE Agent -------------------------------
(***************************************************************************)
(* The agent's one background thread: agent_service::start runs vpn_up,    *)
(* then the heartbeat of registration_peers, which talk to the control     *)
(* plane through rest_client and to the device through the tunnel manager. *)
(*                                                                         *)
(* A call of the tunnel manager begins together with the agent's step that *)
(* makes it; the agent then waits until pc is "idle" and looks at status.  *)
(* The control plane is what this agent sees of it: the view it would be   *)
(* sent, and the keys registered.                                          *)
(*                                                                         *)
(* An HTTP exchange is one step.  The server reads and writes its state at *)
(* one moment of it, and the agent does nothing else meanwhile.  Time is   *)
(* left out: the TTL may end a registration at any moment.                 *)
(***************************************************************************)
EXTENDS TunnelManager, Naturals

CONSTANTS
    Views,       \* what the control plane may send: own address and peers
    NoView,      \* an empty last_hash_
    AgentFaults, \* what may go wrong above the tunnel, out of AgentFaultPoints
    MaxEvents    \* bound on what happens to the agent from outside

AgentFaultPoints ==
    {"hostname", \* get_hostname throws
     "lost",     \* no reply, an error status, or a reply that does not parse
     "nohash",   \* a reply without the field hash
     "badhash",  \* a reply to register whose hash is not a string
     "badttl",   \* a reply to ping whose ttl is not a number
     "nopeers",  \* a reply to ping without the field peers
     "hang"}     \* no end of an exchange, for which no timeout is set

View == [ip : IPs, peers : Lists]

ASSUME ViewsAssumption == Views \subseteq View /\ NoView \notin View

ASSUME AgentFaultsAssumption ==
    /\ AgentFaults \subseteq AgentFaultPoints /\ MaxEvents \in Nat
    /\ "nopeers" \in AgentFaults => {} \in Lists

VARIABLES
    apc,        \* where the thread is
    running,    \* running_
    pubKey,     \* self_peer_->self.pub_key
    cached,     \* the rest of self_peer_: its own address and the peers
    regKey,     \* registered_public_key_
    lastHash,   \* last_hash_, as the view it is the hash of
    cpView,     \* what the control plane would send to this agent
    cpAlive,    \* the keys of this host registered there
    reachable,  \* does it answer
    events      \* how much has happened from outside

clientVars == <<regKey, lastHash>>
agentVars == <<apc, running, pubKey, cached, clientVars>>
serverVars == <<cpView, cpAlive, reachable, events>>
vars == <<tunnelVars, agentVars, serverVars>>

AgentSteps ==
    {"boot", "register", "creating", "configuring", "ping", "applying",
     "check", "reapplying", "failed", "hung", "terminated", "joined", "stopped"}

\* The heartbeat loop.
Beating == apc \in {"ping", "applying", "check", "reapplying"}

AgentTypeOK ==
    /\ apc \in AgentSteps
    /\ running \in BOOLEAN
    /\ pubKey \in SelfKeys \cup {None}
    /\ cached \in View \cup {NoView}
    /\ regKey \in SelfKeys \cup {None}
    /\ lastHash \in Views \cup {NoView}
    /\ cpView \in Views
    /\ cpAlive \subseteq SelfKeys
    /\ reachable \in BOOLEAN
    /\ events \in 0 .. MaxEvents

NewAgent ==
    /\ apc = "boot"
    /\ running = TRUE
    /\ pubKey = None
    /\ cached = NoView
    /\ regKey = None
    /\ lastHash = NoView

AgentInit ==
    /\ Init
    /\ NewAgent
    /\ cpView \in Views
    /\ cpAlive = {}
    /\ reachable = TRUE
    /\ events = 0

AgentGoto(a) == apc' = a /\ UNCHANGED <<running, pubKey>>

----------------------------------------------------------------------------
(* rest_client::register_peer *)

\* The server holds the key from the moment it handles the request.
Register ==
    /\ reachable
    /\ cpAlive' = cpAlive \cup {pubKey}
    /\ UNCHANGED <<cpView, reachable, events>>

\* The hash a reply carries, if it carries one.
HashSent == {cpView} \cup (IF "nohash" \in AgentFaults THEN {NoView} ELSE {})

RegisterOk ==
    /\ Register
    /\ regKey' = pubKey
    /\ lastHash' \in HashSent
    /\ cached' = cpView

\* Without a reply nothing is stored.  A hash that is no string throws when
\* the key is stored already.
RegisterFails ==
    /\ \/ /\ ~reachable \/ "lost" \in AgentFaults
          /\ UNCHANGED <<serverVars, regKey>>
       \/ "lost" \in AgentFaults /\ Register /\ UNCHANGED regKey
       \/ "badhash" \in AgentFaults /\ Register /\ regKey' = pubKey
    /\ UNCHANGED <<cached, lastHash>>

----------------------------------------------------------------------------
(* vpn_up *)

\* Slips: the public key is never read, or read before the new pair is
\* generated.
BootForgetsKey ==
    /\ apc = "boot" /\ running
    /\ \E k \in SelfKeys : GenerateKeys(k)
    /\ apc' = "register"
    /\ UNCHANGED <<running, pubKey, cached, clientVars, serverVars>>

BootReadsOldKey ==
    /\ apc = "boot" /\ running
    /\ \E k \in SelfKeys : GenerateKeys(k)
    /\ pubKey' = selfKey
    /\ apc' = "register"
    /\ UNCHANGED <<running, cached, clientVars, serverVars>>

Boot ==
    /\ apc = "boot" /\ running
    /\ \E k \in SelfKeys : GenerateKeys(k) /\ pubKey' = k
    /\ apc' = "register"
    /\ UNCHANGED <<running, cached, clientVars, serverVars>>

\* vpn_up catches system_error only.
BootThrows ==
    /\ apc = "boot" /\ running
    /\ "hostname" \in AgentFaults
    /\ AgentGoto("terminated")
    /\ UNCHANGED <<tunnelVars, cached, clientVars, serverVars>>

VpnUpRegisters ==
    /\ apc = "register"
    /\ RegisterOk
    /\ CallCreate(cpView.ip)
    /\ AgentGoto("creating")

VpnUpNotRegistered ==
    /\ apc = "register"
    /\ RegisterFails
    /\ AgentGoto("failed")
    /\ UNCHANGED tunnelVars

InterfaceCreated ==
    /\ apc = "creating" /\ pc = "idle" /\ status = "success"
    /\ CallUpdate(cached.peers)
    /\ AgentGoto("configuring")
    /\ UNCHANGED <<cached, clientVars, serverVars>>

\* A slip: the result of update_peers is not looked at.
PeersConfiguredUnchecked ==
    /\ apc = "configuring" /\ pc = "idle"
    /\ CallStart
    /\ AgentGoto(IF status' = "success" THEN "ping" ELSE "failed")
    /\ UNCHANGED <<cached, clientVars, serverVars>>

\* start_tunnel is one step; the heartbeat begins if it succeeds.
PeersConfigured ==
    /\ apc = "configuring" /\ pc = "idle" /\ status = "success"
    /\ CallStart
    /\ AgentGoto(IF status' = "success" THEN "ping" ELSE "failed")
    /\ UNCHANGED <<cached, clientVars, serverVars>>

\* The thread ends and leaves everything as it is; an exception that leaves
\* the thread ends the process.
VpnUpFails ==
    /\ apc \in {"creating", "configuring"} /\ pc = "idle"
    /\ status # "success"
    /\ AgentGoto(IF status = "exception" THEN "terminated" ELSE "failed")
    /\ UNCHANGED <<tunnelVars, cached, clientVars, serverVars>>

----------------------------------------------------------------------------
(* heartbeat, with rest_client::ping *)

Ping == apc = "ping" /\ running

\* No key to ping with, no reply, or an exception that the loop catches.
PingFails ==
    /\ Ping
    /\ regKey = None \/ ~reachable \/ "lost" \in AgentFaults
    /\ AgentGoto("check")
    /\ UNCHANGED <<tunnelVars, cached, clientVars, serverVars>>

PingNotModified ==
    /\ Ping /\ reachable
    /\ regKey \in cpAlive /\ lastHash = cpView
    /\ AgentGoto("check")
    /\ UNCHANGED <<tunnelVars, cached, clientVars, serverVars>>

\* A slip: the answer 404 is treated like any other error.
PingUnknownIgnored ==
    /\ Ping /\ reachable
    /\ regKey # None /\ regKey \notin cpAlive
    /\ AgentGoto("check")
    /\ UNCHANGED <<tunnelVars, cached, clientVars, serverVars>>

\* Only the key is cleared; last_hash_ stays.
PingUnknown ==
    /\ Ping /\ reachable
    /\ regKey # None /\ regKey \notin cpAlive
    /\ regKey' = None
    /\ AgentGoto("check")
    /\ UNCHANGED <<tunnelVars, cached, lastHash, serverVars>>

\* A slip: the peers are stored but not given to the tunnel manager.
PingModifiedStored ==
    /\ Ping /\ reachable
    /\ regKey \in cpAlive /\ lastHash # cpView
    /\ lastHash' \in HashSent
    /\ cached' = cpView
    /\ AgentGoto("check")
    /\ UNCHANGED <<tunnelVars, regKey, serverVars>>

\* last_hash_ is stored before the peers are applied.
PingModified ==
    /\ Ping /\ reachable
    /\ regKey \in cpAlive /\ lastHash # cpView
    /\ lastHash' \in HashSent
    /\ cached' = cpView
    /\ CallUpdate(cpView.peers)
    /\ AgentGoto("applying")
    /\ UNCHANGED <<regKey, serverVars>>

\* It is stored even before the ttl is read.
PingThrows ==
    /\ Ping /\ reachable
    /\ regKey \in cpAlive /\ lastHash # cpView
    /\ "badttl" \in AgentFaults
    /\ lastHash' \in HashSent
    /\ AgentGoto("check")
    /\ UNCHANGED <<tunnelVars, cached, regKey, serverVars>>

\* A reply to ping need not have them, and is then one of no peers.
PingWithoutPeers ==
    /\ Ping /\ reachable
    /\ regKey \in cpAlive /\ lastHash # cpView
    /\ "nopeers" \in AgentFaults
    /\ lastHash' \in HashSent
    /\ cached' = [cpView EXCEPT !.peers = {}]
    /\ CallUpdate({})
    /\ AgentGoto("applying")
    /\ UNCHANGED <<regKey, serverVars>>

\* Whatever update_peers returns or throws, the loop goes on.
Applied ==
    /\ apc = "applying" /\ pc = "idle"
    /\ AgentGoto("check")
    /\ UNCHANGED <<tunnelVars, cached, clientVars, serverVars>>

StillRegistered ==
    /\ apc = "check" /\ regKey # None
    /\ AgentGoto("ping")
    /\ UNCHANGED <<tunnelVars, cached, clientVars, serverVars>>

\* re_register
ReRegisters ==
    /\ apc = "check" /\ regKey = None
    /\ RegisterOk
    /\ CallUpdate(cpView.peers)
    /\ AgentGoto("reapplying")

NotReRegistered ==
    /\ apc = "check" /\ regKey = None
    /\ RegisterFails
    /\ AgentGoto("ping")
    /\ UNCHANGED tunnelVars

\* Unlike the update after a ping, this one is outside the try block.
Reapplied ==
    /\ apc = "reapplying" /\ pc = "idle"
    /\ AgentGoto(IF status = "exception" THEN "terminated" ELSE "ping")
    /\ UNCHANGED <<tunnelVars, cached, clientVars, serverVars>>

----------------------------------------------------------------------------
\* The server accepts a connection and does not answer: cpr waits for ever.
Hangs ==
    /\ "hang" \in AgentFaults /\ reachable
    /\ \/ Ping /\ regKey # None /\ UNCHANGED serverVars
       \/ /\ apc = "register" \/ (apc = "check" /\ regKey = None)
          /\ Register \/ UNCHANGED serverVars
    /\ AgentGoto("hung")
    /\ UNCHANGED <<tunnelVars, cached, clientVars>>

----------------------------------------------------------------------------
(* agent_service::stop and the destructors, in a program that calls them *)

Stop ==
    /\ running /\ apc # "terminated"
    /\ running' = FALSE
    /\ UNCHANGED <<tunnelVars, apc, pubKey, cached, clientVars, serverVars>>

\* A slip: only the start of the thread looks at running_.
JoinUnstarted ==
    /\ apc = "boot" /\ ~running
    /\ AgentGoto("joined")
    /\ UNCHANGED <<tunnelVars, cached, clientVars, serverVars>>

\* running_ is read where the thread starts and at the top of the loop.
Join ==
    /\ apc \in {"boot", "ping"} /\ ~running
    /\ AgentGoto("joined")
    /\ UNCHANGED <<tunnelVars, cached, clientVars, serverVars>>

\* The tunnel manager's destructor stops a tunnel that was started.
Destroy ==
    /\ apc \in {"joined", "failed"} /\ ~running
    /\ IF active THEN CallStop ELSE UNCHANGED tunnelVars
    /\ AgentGoto("stopped")
    /\ UNCHANGED <<cached, clientVars, serverVars>>

----------------------------------------------------------------------------
(* What happens from outside *)

Event == events < MaxEvents /\ events' = events + 1

ChangeView ==
    /\ Event
    /\ cpView' \in Views \ {cpView}
    /\ UNCHANGED <<tunnelVars, agentVars, cpAlive, reachable>>

\* The TTL of a registration ends, or the server restarts without it.
Evict ==
    /\ Event
    /\ \E k \in cpAlive : cpAlive' = cpAlive \ {k}
    /\ UNCHANGED <<tunnelVars, agentVars, cpView, reachable>>

Outage ==
    /\ Event
    /\ reachable /\ reachable' = FALSE
    /\ UNCHANGED <<tunnelVars, agentVars, cpView, cpAlive>>

Recover ==
    /\ ~reachable /\ reachable' = TRUE
    /\ UNCHANGED <<tunnelVars, agentVars, cpView, cpAlive, events>>

\* The process ends, at any point, and is started again.
Kill ==
    /\ Event
    /\ Restart
    /\ apc' = "boot"
    /\ running' = TRUE
    /\ pubKey' = None
    /\ cached' = NoView
    /\ regKey' = None
    /\ lastHash' = NoView
    /\ UNCHANGED <<cpView, cpAlive, reachable>>

----------------------------------------------------------------------------
TunnelStep ==
    /\ CreateStep \/ UpdateStep
    /\ UNCHANGED <<agentVars, serverVars>>

VpnUp ==
    \/ Boot \/ BootThrows \/ VpnUpRegisters \/ VpnUpNotRegistered
    \/ InterfaceCreated \/ PeersConfigured \/ VpnUpFails

Heartbeat ==
    \/ PingFails \/ PingNotModified \/ PingUnknown
    \/ PingModified \/ PingThrows \/ PingWithoutPeers \/ Applied
    \/ StillRegistered \/ ReRegisters \/ NotReRegistered \/ Reapplied

Thread == TunnelStep \/ VpnUp \/ Heartbeat \/ Hangs \/ Join \/ Destroy

Environment == Stop \/ ChangeView \/ Evict \/ Outage \/ Recover \/ Kill

AgentNext == Thread \/ Environment

AgentSpec == AgentInit /\ [][AgentNext]_vars

(***************************************************************************)
(* The operating system keeps running the thread, and every call of it     *)
(* returns unless it hangs.  Nothing makes the server come back.           *)
(***************************************************************************)
FairSpec == AgentSpec /\ WF_vars(Thread)

(***************************************************************************)
(* Besides, outages end, and of infinitely many requests of a kind some    *)
(* are answered properly.                                                  *)
(***************************************************************************)
Answers == PingUnknown \/ PingModified

AgentFairness ==
    /\ WF_vars(Thread)
    /\ WF_vars(Recover)
    /\ SF_vars(Answers)
    /\ SF_vars(ReRegisters)
----------------------------------------------------------------------------
(* Properties *)

(***************************************************************************)
(* The agent calls the tunnel manager in the order, and with the checks of *)
(* results, that Spec of TunnelManager assumes of its owner: what holds of *)
(* that module holds in the agent.                                         *)
(***************************************************************************)
CallsInOrder == Spec

(***************************************************************************)
(* One key from end to end: the heartbeat pings with the key it registered *)
(* or with none, the tunnel manager holds that pair and so does the        *)
(* device.  Registering again must not change it                           *)
(* (registration_peers.hpp line 50, "Does not regenerate keys").           *)
(***************************************************************************)
KeysAgree ==
    Beating => /\ regKey \in {None, pubKey}
               /\ selfKey = pubKey
               /\ devKey = pubKey

\* No reply to ping has a hash and not the peers it is of, or throws them
\* away behind it.
WholeReplies == AgentFaults \cap {"badttl", "nopeers"} = {}

(***************************************************************************)
(* Between two requests the hash the agent would send is the hash of what  *)
(* its device connects and routes, so that an answer 304 hides no change:  *)
(* when nothing of the tunnel fails, whatever is lost, evicted or changed, *)
(* and as long as replies are whole.                                       *)
(***************************************************************************)
HashIsApplied ==
    /\ Reliable
    /\ WholeReplies
    /\ apc \in {"ping", "check"}
    /\ lastHash # NoView
    => /\ kpeers = KeysOf(lastHash.peers)
       /\ routes = IpsOf(lastHash.peers)
       /\ \A p \in lastHash.peers : \A i \in p.ips : owner[i] = p.key

(***************************************************************************)
(* When the outside world is quiet, an agent that is in its heartbeat ends *)
(* up registered and connected to exactly the peers of the control plane's *)
(* view, after any evictions, outages, changes and lost messages.          *)
(***************************************************************************)
Converges ==
    <>[](Beating => regKey \in cpAlive /\ kpeers = KeysOf(cpView.peers))

(***************************************************************************)
(* A stop is never in vain: the thread ends, and if the heartbeat had been *)
(* reached the link is gone (agent_service.hpp lines 35 and 25, "wait for  *)
(* threads to complete", "cleans up resources").  It takes that every      *)
(* exchange comes to an end, for which the code sets no timeout.           *)
(***************************************************************************)
StopFinishes ==
    Beating /\ ~running ~> \/ apc = "stopped" /\ link = "absent"
                           \/ running \/ apc = "terminated"

(***************************************************************************)
(* A failed re_register is tried again at the next interval                *)
(* (registration_peers.cpp line 65), which needs the agent to know that it *)
(* is not registered.                                                      *)
(***************************************************************************)
FailedReRegisterIsRetried ==
    apc = "reapplying" /\ pc = "idle" /\ status \notin {"success", "exception"}
        => regKey = None

(***************************************************************************)
(* Without a response from the control plane the tunnel is disabled        *)
(* (openapi.yaml lines 11 and 18).                                         *)
(***************************************************************************)
FailClose == Beating /\ ~reachable ~> reachable \/ ~Beating \/ link # "up"

(***************************************************************************)
(* When nothing fails, the device has the address and the peers that the   *)
(* control plane sent last (openapi.yaml line 12, "If peers/self change    *)
(* (new hash), the agent MUST update its WireGuard configuration").        *)
(***************************************************************************)
ViewApplied ==
    apc = "ping" =>
        /\ addrs = {cached.ip}
        /\ \A p \in cached.peers : \A i \in p.ips : owner[i] = p.key /\ i \in routes
----------------------------------------------------------------------------
(* The inductive invariant behind CallsInOrder and KeysAgree *)

\* What the tunnel manager has done where the thread is.
CallInv ==
    /\ apc \in {"boot", "register"} => op = "none" /\ pc = "idle"
    /\ apc = "creating" => op = "create"
    /\ apc = "configuring" => op = "update" /\ ~active
    /\ Beating => op \in {"update", "start"} /\ active
    /\ apc \in {"ping", "check", "failed", "joined"} => pc = "idle"
    /\ apc \in {"failed", "joined"} => op # "stop"
    /\ op \in {"none", "create"} => ~active
    /\ apc \in {"creating", "configuring"} => cached \in Views

\* The pair that was registered is the one the device got.
KeyInv ==
    /\ pc # "idle" => status = "busy"
    /\ pc \in CreateSteps => op = "create"
    /\ pc \in UpdateSteps => op = "update"
    /\ pc \in {"addr", "up"} \/ Created \/ op \in {"update", "start"} => devKey = selfKey
    /\ apc \in {"register", "creating", "configuring"} \/ Beating =>
          pubKey \in SelfKeys /\ selfKey = pubKey
    /\ regKey \in {None, pubKey}
    /\ apc = "boot" => regKey = None

AgentInv == AgentTypeOK /\ CallInv /\ KeyInv
=============================================================================
