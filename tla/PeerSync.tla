------------------------------ MODULE PeerSync ------------------------------
(***************************************************************************)
(* What update_peers promises (tunnel_manager_base.hpp: "Update all peers  *)
(* in the tunnel", "all peers that should be connected"), with no peer     *)
(* list, no device and no routes: the agent is given a goal, it drops what *)
(* the goal does not name, then connects what is missing, and it says it   *)
(* is synced only when the connected peers are the goal.                   *)
(***************************************************************************)

CONSTANT Keys

VARIABLES
    goal,       \* keys of the peers that should be connected
    connected,  \* keys of the peers that are
    state       \* "idle", "busy" with an update, or "synced" by the last one

vars == <<goal, connected, state>>

TypeOK ==
    /\ goal \subseteq Keys
    /\ connected \subseteq Keys
    /\ state \in {"idle", "busy", "synced"}

Init ==
    /\ goal = {}
    /\ connected = {}
    /\ state = "idle"

Request ==
    /\ state # "busy"
    /\ goal' \in SUBSET Keys
    /\ state' = "busy"
    /\ UNCHANGED connected

Drop ==
    /\ state = "busy"
    /\ \E k \in connected \ goal : connected' = connected \ {k}
    /\ UNCHANGED <<goal, state>>

\* Nothing is connected before the last unwanted peer is gone: an address
\* may move from a peer that leaves to one that arrives.
Connect ==
    /\ state = "busy"
    /\ connected \subseteq goal
    /\ \E k \in goal \ connected : connected' = connected \cup {k}
    /\ UNCHANGED <<goal, state>>

Finish ==
    /\ state = "busy"
    /\ connected = goal
    /\ state' = "synced"
    /\ UNCHANGED <<goal, connected>>

\* The update is given up, the process ends or the device goes away.
Close ==
    /\ state' = "idle"
    /\ connected' \in {connected, {}}
    /\ goal' \in {goal, {}}

Next == Request \/ Drop \/ Connect \/ Finish \/ Close

Spec == Init /\ [][Next]_vars
=============================================================================
