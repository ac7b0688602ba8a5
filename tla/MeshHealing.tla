---------------------------- MODULE MeshHealing ----------------------------
(***************************************************************************)
(* How long the agents of Mesh take to agree again after whatever has      *)
(* happened to them: MeshConverges with a bound, in seconds.               *)
(*                                                                         *)
(* calm is a history variable, which no step of Mesh looks at: the time    *)
(* since something disturbed the mesh last, not counted beyond the longest *)
(* bound.                                                                  *)
(***************************************************************************)
EXTENDS Mesh

VARIABLE calm

healVars == <<meshVars, calm>>

\* An agent the server has lost sleeps once, is late by up to MaxLag seconds
\* until it is told so, and by as many until it is registered again.
Rejoin == Interval + 2 * MaxLag

\* By then, and one TTL after the last word of the dead, the store is right.
Settle == IF Rejoin > Ttl THEN Rejoin ELSE Ttl

HealTime == Settle + RoundTrip

HealTypeOK == calm \in 0 .. HealTime + 1

HealInit == MeshInit /\ calm = 0

Disturbance == calm' = 0

\* An agent gives up, or a request that a dead one left behind is served.
Aftermath(a) == phase'[a] = "dead"

Watch(a) == IF Aftermath(a) THEN Disturbance ELSE UNCHANGED calm

Wait ==
    IF Late THEN Disturbance
    ELSE calm' = IF calm > HealTime THEN calm ELSE calm + 1

HealNext ==
    \/ \E a \in Agents : Step(a) /\ Watch(a)
    \/ \E a \in Agents : (Start(a) \/ Die(a)) /\ Disturbance
    \/ RestartServer /\ Disturbance
    \/ Tick /\ Wait

HealSpec == HealInit /\ [][HealNext]_healVars
----------------------------------------------------------------------------
(* Properties *)

\* A round that is in time fits into the TTL.
Fits == Interval + MaxLag <= Ttl

(***************************************************************************)
(* Settle seconds after the last disturbance the store has exactly the     *)
(* agents that live, none of them overdue: what a restart, a delay or an   *)
(* eviction between the two halves of a ping took from it has come back by *)
(* itself, and the dead are forgotten.                                     *)
(***************************************************************************)
StoreSettles == Fits /\ calm > Settle => Evicted = Alive

(***************************************************************************)
(* And one round trip later all agents know and connect each other and     *)
(* nobody else, each by the address that one was told last, though each    *)
(* learns of the others only by comparing hashes in rounds of its own.     *)
(***************************************************************************)
HealsInTime ==
    Fits /\ calm > HealTime =>
        \A a \in Alive :
            /\ known[a] # NoView
            /\ DOMAIN known[a].peers = Alive \ {a}
            /\ DOMAIN link[a].peers = Alive \ {a}
            /\ \A p \in Alive \ {a} :
                  known[p] # NoView /\ known[a].peers[p] = known[p].ip
----------------------------------------------------------------------------
(* The inductive invariant behind both *)

\* The store heard of a no longer ago than it has slept and lagged.
Heard(a) ==
    CASE phase[a] = "sleep" -> age[a] + timer[a] <= Interval + lag[a]
      [] phase[a] = "ping" /\ step[a] # "idle" -> age[a] <= Interval + lag[a]
      [] phase[a] \in {"join", "register", "ping"} /\ step[a] = "idle" -> age[a] <= lag[a]
      [] OTHER -> TRUE

\* That can only be wrong of one that was late since.
HeardInv == \A a \in members : Heard(a) \/ lag[a] = MaxLag

Registered(a) ==
    \/ phase[a] \in {"sleep", "ping"}
    \/ phase[a] \in {"join", "register"} /\ step[a] = "idle"

Kept(a) == a \in members /\ Registered(a) /\ Heard(a)

\* How long ago the last disturbance is at most, if a is not kept yet.
Slack(a) ==
    CASE phase[a] \in {"sleep", "retry"} -> Interval - timer[a] + lag[a]
      [] phase[a] = "ping" /\ step[a] # "idle" -> Interval + lag[a]
      [] phase[a] = "ping" /\ step[a] = "idle" /\ answer[a] = "unknown" ->
             Interval + MaxLag + lag[a]
      [] phase[a] \in {"join", "register"} /\ step[a] # "idle" ->
             Interval + MaxLag + lag[a]
      [] OTHER -> lag[a]

KeptInv == \A a \in Alive : Kept(a) \/ calm <= Slack(a)

\* An agent whose hash was right is still there when it is touched, unless it
\* is late itself.
TouchInv ==
    \A a \in Alive :
        phase[a] = "ping" /\ step[a] = "touch" =>
            a \in Evicted \/ (calm = 0 /\ lag[a] = MaxLag)

\* Who is in the store was told so, and lives or has been silent.
SilenceInv ==
    \A p \in members :
        /\ phase[p] # "new" /\ answer[p] \in {"ok", "same"}
        /\ p \in Alive \/ calm <= age[p] \/ age[p] > Ttl

\* What the store sends a when it is right.
Now(a) == ViewOf(a, Alive, vpn)

KnownInv ==
    \A a \in Alive :
        /\ phase[a] \in {"sleep", "ping"} /\ known[a] # Now(a) =>
              calm <= Settle + Window(a) + lag[a]
        /\ Unread(a) /\ sent[a] # Now(a) => calm <= Settle + lag[a]
        /\ phase[a] \in {"join", "register"} /\ step[a] = "idle" => calm <= Settle + lag[a]

\* A device connects whom its agent knows.
LinkInv ==
    \A a \in Agents : known[a] # NoView => DOMAIN link[a].peers = DOMAIN known[a].peers

HealingInv ==
    /\ HealTypeOK
    /\ HeardInv
    /\ SilenceInv
    /\ LinkInv
    /\ Fits => KeptInv /\ TouchInv /\ KnownInv
=============================================================================
