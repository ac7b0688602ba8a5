---------------------------- MODULE AgentRounds ----------------------------
(***************************************************************************)
(* How soon an agent is up to date: the bound, in exchanges with the       *)
(* control plane, that Converges of Agent has no word for.                 *)
(*                                                                         *)
(* current is a history variable, which no step of Agent looks at: the     *)
(* last request that mattered was answered, and nothing the server would   *)
(* tell this agent has changed since.                                      *)
(***************************************************************************)
EXTENDS Agent

VARIABLE current

roundVars == <<vars, current>>

RoundsInit == AgentInit /\ current = FALSE

\* A ping that was answered, also by 404 or 304, or a registration.
Answered ==
    \/ VpnUpRegisters \/ ReRegisters
    \/ PingNotModified \/ PingModified \/ PingUnknown

\* A request that failed behind the server, or a change there.
Outdated ==
    \/ VpnUpNotRegistered \/ NotReRegistered \/ Hangs
    \/ PingThrows \/ PingWithoutPeers
    \/ ChangeView \/ Evict \/ Kill

\* A ping that gets no answer tells nothing new.
Unrelated ==
    \/ TunnelStep \/ Boot \/ BootThrows \/ InterfaceCreated \/ PeersConfigured
    \/ VpnUpFails \/ PingFails \/ Applied \/ StillRegistered \/ Reapplied
    \/ Join \/ Destroy \/ Stop \/ Outage \/ Recover

RoundsNext ==
    \/ Answered /\ current' = TRUE
    \/ Outdated /\ current' = FALSE
    \/ Unrelated /\ UNCHANGED current

RoundsSpec == RoundsInit /\ [][RoundsNext]_roundVars

RoundsLiveSpec == RoundsSpec /\ AgentFairness
----------------------------------------------------------------------------
(* Properties *)

(***************************************************************************)
(* One answered round is enough: at the top of the heartbeat loop an agent *)
(* whose last ping was answered, even by 404, is registered and has the    *)
(* peers of the view that the server has for it now, on the device and in  *)
(* the routes, if nothing changed there meanwhile.  That holds however     *)
(* many replies were lost before, and whatever hash the agent was left     *)
(* with, as long as replies are whole.                                    *)
(***************************************************************************)
OneRoundSuffices ==
    /\ Reliable
    /\ WholeReplies
    /\ apc = "ping" /\ current
    => /\ regKey \in cpAlive
       /\ kpeers = KeysOf(cpView.peers)
       /\ routes = IpsOf(cpView.peers)
       /\ \A p \in cpView.peers : \A i \in p.ips : owner[i] = p.key
----------------------------------------------------------------------------
(* The inductive invariant behind it *)

\* The answer is on its way to the tunnel manager or there, or the agent
\* knows that it has to register.
CurrentInv ==
    WholeReplies /\ current =>
        /\ apc \in {"creating", "configuring"} \/ Beating =>
              regKey \in cpAlive \/ (apc = "check" /\ regKey = None)
        /\ apc = "creating" => cached = cpView
        /\ apc = "configuring" \/ (Beating /\ regKey # None) =>
              want = cpView.peers
=============================================================================
