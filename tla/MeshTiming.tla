----------------------------- MODULE MeshTiming -----------------------------
(***************************************************************************)
(* How long the agents of Mesh are out of step with each other: the bound  *)
(* in seconds that MeshConverges has no word for.                          *)
(*                                                                         *)
(* since is a history variable, which no step of Mesh looks at.  It is the *)
(* time since an agent was registered, or, of one that is gone, since the  *)
(* store last heard of it or it died, and is not counted beyond the        *)
(* longest bound.                                                          *)
(***************************************************************************)
EXTENDS Mesh

VARIABLE since

timedVars == <<meshVars, since>>

Longest == Ttl + RoundTrip

TimedTypeOK == since \in [Agents -> 0 .. Longest + 1]

TimedInit == MeshInit /\ since = [a \in Agents |-> 0]

Moved(a) ==
    \/ phase[a] # "dead" /\ phase'[a] = "dead"
    \/ phase[a] \in {"join", "dead"} /\ step[a] # "idle" /\ step'[a] = "idle"

Mark == since' = [a \in Agents |-> IF Moved(a) \/ ~Undisturbed' THEN 0 ELSE since[a]]

Count ==
    since' = [a \in Agents |->
        IF phase[a] = "new" \/ ~Undisturbed' THEN 0
        ELSE IF since[a] > Longest THEN since[a] ELSE since[a] + 1]

TimedNext ==
    \/ \E a \in Agents : Step(a) /\ Mark
    \/ \E a \in Agents : (Start(a) \/ Die(a)) /\ Mark
    \/ RestartServer /\ Mark
    \/ Tick /\ Count

TimedSpec == TimedInit /\ [][TimedNext]_timedVars

TimedLiveSpec == TimedSpec /\ MeshFairness
----------------------------------------------------------------------------
(* Properties *)

Present(p) == phase[p] \in {"sleep", "ping"} \/ (phase[p] = "join" /\ step[p] = "idle")

Gone(p) == phase[p] = "dead" /\ step[p] = "idle"

(***************************************************************************)
(* As long as the server lives and rounds are in time: an agent that is    *)
(* registered is a peer on the device of every other agent one round trip  *)
(* later, though nobody is told of it and the others only compare hashes.  *)
(***************************************************************************)
ArrivalsInTime ==
    Undisturbed =>
        \A a, p \in Agents :
            /\ a # p /\ Beating(a) /\ Present(p)
            /\ since[p] > RoundTrip
            => p \in DOMAIN link[a].peers

(***************************************************************************)
(* And an agent that has died is off every other device one TTL and one    *)
(* round trip after the store last heard of it, though it says no goodbye, *)
(* eviction waits for a request, and a 304 may answer a comparison that    *)
(* was right only when it was made.                                        *)
(***************************************************************************)
DeparturesInTime ==
    Undisturbed =>
        \A a, p \in Agents :
            /\ a # p /\ Beating(a) /\ Gone(p)
            /\ since[p] > Ttl + RoundTrip
            => p \notin DOMAIN link[a].peers
----------------------------------------------------------------------------
(* The inductive invariant behind both *)

\* What is wrong with a view, and how long the store may send it.
Wrong(p, view) ==
    \/ Present(p) /\ p \notin DOMAIN view.peers
    \/ Gone(p) /\ p \in DOMAIN view.peers

Allowed(p) == IF Gone(p) THEN Ttl ELSE 0

\* The store's record of an agent that is gone is as old as since says.
SilenceInv ==
    \A p \in members : Gone(p) => since[p] <= age[p] \/ age[p] > Ttl

WindowInv(a, p) ==
    /\ phase[a] \in {"sleep", "ping"} /\ Wrong(p, known[a]) =>
          since[p] <= Allowed(p) + Window(a) + lag[a]
    /\ Unread(a) /\ Wrong(p, sent[a]) => since[p] <= Allowed(p) + lag[a]

TimingInv ==
    /\ TimedTypeOK
    /\ SilenceInv
    /\ Undisturbed => \A a, p \in Agents : a # p => WindowInv(a, p)
=============================================================================
