-------------------------------- MODULE Mesh --------------------------------
(***************************************************************************)
(* Several agents and the control plane: the heartbeat of                  *)
(* registration_peers as the control plane sees it, with its timing.       *)
(*                                                                         *)
(* An agent is a process with a key of its own, so one that dies does not  *)
(* come back.  It gives its tunnel manager what it is sent, which connects *)
(* the peers of the view (SuccessMeansApplied of TunnelManager), but never *)
(* looks at anything except their keys again.  The server may be restarted *)
(* up to MaxRestarts times.                                                *)
(*                                                                         *)
(* lag counts the seconds of an agent's round that are not its sleep: the  *)
(* requests, the answers on their way, the update of the peers.  A second  *)
(* that makes some agent exceed MaxLag is a delay, and there are at most   *)
(* MaxDelays of them.                                                      *)
(***************************************************************************)
EXTENDS ControlPlane

CONSTANTS
    MaxLag,     \* seconds besides the sleep that a round takes when in time
    MaxDelays,  \* bound on the seconds by which rounds may be late
    MaxRestarts \* bound on the restarts of the server

ASSUME LagAssumption ==
    MaxLag \in Nat /\ MaxDelays \in Nat /\ MaxRestarts \in Nat

VARIABLES
    phase,      \* of each agent: not started, waiting for an answer, asleep, gone
    timer,      \* seconds left of its sleep
    known,      \* self_peer_ and last_hash_
    link,       \* the address and the peers that its device has
    lag,        \* seconds awake since the store last heard of it
    delays,     \* seconds lost beyond MaxLag, by all agents
    restarts    \* how often the server was restarted

agentVars == <<phase, timer, known, link>>
meshVars == <<planeVars, agentVars, lag, delays, restarts>>

\* heartbeat_interval
Interval == IF Ttl > 1 THEN Ttl - 1 ELSE 1

\* In "retry" it sleeps and has no registered key.
Phases == {"new", "join", "register", "retry", "sleep", "ping", "dead"}

MeshTypeOK ==
    /\ PlaneTypeOK
    /\ phase \in [Agents -> Phases]
    /\ timer \in [Agents -> 0 .. Interval]
    /\ lag \in [Agents -> 0 .. MaxLag]
    /\ delays \in 0 .. MaxDelays
    /\ restarts \in 0 .. MaxRestarts

MeshInit ==
    /\ PlaneInit
    /\ phase = [a \in Agents |-> "new"]
    /\ timer = [a \in Agents |-> 0]
    /\ known = [a \in Agents |-> NoView]
    /\ link = [a \in Agents |-> NoView]
    /\ lag = [a \in Agents |-> 0]
    /\ delays = 0
    /\ restarts = 0

Enter(a, p) == phase' = [phase EXCEPT ![a] = p]

\* vpn_up asks to be registered.
Start(a) ==
    /\ phase[a] = "new"
    /\ Ask(a, "register", NoView)
    /\ Enter(a, "join")
    /\ UNCHANGED <<timer, known, link, lag, delays, restarts>>

\* The control plane works on a request; the agent may be dead by then.
Serve(a) ==
    /\ Handler(a)
    /\ lag' = IF step'[a] = "idle" THEN [lag EXCEPT ![a] = 0] ELSE lag
    /\ UNCHANGED <<agentVars, delays, restarts>>

\* A slip: update_peers only adds.
UpdatedKeeps(l, view) ==
    [ip |-> l.ip,
     peers |-> [p \in DOMAIN l.peers \cup DOMAIN view.peers |->
                   IF p \in DOMAIN l.peers THEN l.peers[p] ELSE view.peers[p]]]

\* What a device with the address and peers of l has after update_peers: the
\* address stays, and so does the record of a peer that is there already.
Updated(l, view) ==
    [ip |-> l.ip,
     peers |-> [p \in DOMAIN view.peers |->
                   IF p \in DOMAIN l.peers THEN l.peers[p] ELSE view.peers[p]]]

\* vpn_up makes the device, and the heartbeat begins with a ping.
Join(a) ==
    /\ phase[a] = "join" /\ step[a] = "idle" /\ answer[a] = "ok"
    /\ known' = [known EXCEPT ![a] = sent[a]]
    /\ link' = [link EXCEPT ![a] = sent[a]]
    /\ Enter(a, "sleep")
    /\ UNCHANGED <<planeVars, timer, lag, delays, restarts>>

\* Without an answer vpn_up fails, and the thread ends.
JoinFails(a) ==
    /\ phase[a] = "join" /\ step[a] = "idle" /\ answer[a] = "none"
    /\ Enter(a, "dead")
    /\ UNCHANGED <<planeVars, timer, known, link, lag, delays, restarts>>

Answered(a) == phase[a] \in {"register", "ping"} /\ step[a] = "idle"

Sleep(a, p) ==
    /\ Enter(a, p)
    /\ timer' = [timer EXCEPT ![a] = Interval]

GetView(a) ==
    /\ Answered(a) /\ answer[a] = "ok"
    /\ known' = [known EXCEPT ![a] = sent[a]]
    /\ link' = [link EXCEPT ![a] = Updated(@, sent[a])]
    /\ Sleep(a, "sleep")
    /\ UNCHANGED <<planeVars, lag, delays, restarts>>

GetNotModified(a) ==
    /\ Answered(a) /\ answer[a] = "same"
    /\ Sleep(a, "sleep")
    /\ UNCHANGED <<planeVars, known, link, lag, delays, restarts>>

\* A ping keeps the key; after 404 the key was cleared.
GetNothing(a) ==
    /\ Answered(a) /\ answer[a] = "none"
    /\ Sleep(a, IF phase[a] = "register" THEN "retry" ELSE "sleep")
    /\ UNCHANGED <<planeVars, known, link, lag, delays, restarts>>

\* A slip: the registration waits for the next round.
GetUnknownWaits(a) ==
    /\ Answered(a) /\ answer[a] = "unknown"
    /\ Sleep(a, "retry")
    /\ UNCHANGED <<planeVars, known, link, lag, delays, restarts>>

\* re_register in the same round, with the same key.
GetUnknown(a) ==
    /\ Answered(a) /\ answer[a] = "unknown"
    /\ Ask(a, "register", NoView)
    /\ Enter(a, "register")
    /\ UNCHANGED <<timer, known, link, lag, delays, restarts>>

Wake(a) ==
    /\ phase[a] = "sleep" /\ timer[a] = 0
    /\ Ask(a, "compare", known[a])
    /\ Enter(a, "ping")
    /\ UNCHANGED <<timer, known, link, lag, delays, restarts>>

\* A round without a key to ping with.
Retry(a) ==
    /\ phase[a] = "retry" /\ timer[a] = 0
    /\ Ask(a, "register", NoView)
    /\ Enter(a, "register")
    /\ UNCHANGED <<timer, known, link, lag, delays, restarts>>

\* The process ends, or vpn_up fails behind the registration.
Die(a) ==
    /\ phase[a] \in {"join", "register", "retry", "sleep", "ping"}
    /\ Enter(a, "dead")
    /\ UNCHANGED <<planeVars, timer, known, link, lag, delays, restarts>>

RestartServer ==
    /\ restarts < MaxRestarts /\ restarts' = restarts + 1
    /\ ServerRestart
    /\ UNCHANGED <<agentVars, lag, delays>>

\* Awake, or overdue to wake.
Busy(a) ==
    \/ phase[a] \in {"join", "register", "ping"}
    \/ phase[a] \in {"sleep", "retry"} /\ timer[a] = 0

Late == \E a \in Agents : Busy(a) /\ lag[a] = MaxLag

Tick ==
    /\ Second
    /\ delays' = IF Late THEN delays + 1 ELSE delays
    /\ delays' <= MaxDelays
    /\ timer' = [a \in Agents |-> IF timer[a] > 0 THEN timer[a] - 1 ELSE 0]
    /\ lag' = [a \in Agents |-> IF Busy(a) /\ lag[a] < MaxLag THEN lag[a] + 1 ELSE lag[a]]
    /\ UNCHANGED <<members, vpn, nextOctet, requestVars, phase, known, link, restarts>>

Step(a) ==
    \/ Serve(a) \/ Join(a) \/ JoinFails(a)
    \/ GetView(a) \/ GetNotModified(a) \/ GetUnknown(a) \/ GetNothing(a)
    \/ Wake(a) \/ Retry(a)

MeshNext ==
    \/ \E a \in Agents : Step(a)
    \/ \E a \in Agents : Start(a) \/ Die(a)
    \/ RestartServer
    \/ Tick

MeshSpec == MeshInit /\ [][MeshNext]_meshVars

(***************************************************************************)
(* Time passes, threads run and connections work.  No agent has to start   *)
(* or to die, and the server need not be restarted.                        *)
(***************************************************************************)
MeshFairness == WF_meshVars(Tick) /\ \A a \in Agents : WF_meshVars(Step(a))
----------------------------------------------------------------------------
(* Properties *)

Beating(a) == phase[a] \in {"sleep", "ping", "register", "retry"}

(***************************************************************************)
(* An agent in its heartbeat is never evicted as long as no round was late *)
(* and sleep and lag fit into the TTL: the interval of the agent, the TTL  *)
(* of the store and the sign of life that a 304 is were written apart.  A  *)
(* restart of the server evicts everybody.                                 *)
(***************************************************************************)
Undisturbed == delays = 0 /\ restarts = 0 /\ Interval + MaxLag <= Ttl

KeepAlive == Undisturbed => \A a \in Agents : Beating(a) => a \in members

(***************************************************************************)
(* As long as the server lives, the device of every agent has the address  *)
(* the store keeps for it, and for each peer the address the store keeps   *)
(* for that one, whatever views were missed, repeated or applied out of    *)
(* step with the others: that the agent looks at nothing but keys does no  *)
(* harm until a restart of the server hands the addresses out anew.        *)
(***************************************************************************)
Addressing(a, view) ==
    a \in Addressed /\ \E S \in SUBSET Addressed : view = ViewOf(a, S, vpn)

LinksMatchStore ==
    restarts = 0 => \A a \in Agents :
        link[a] # NoView => link[a] = known[a] /\ Addressing(a, link[a])

(***************************************************************************)
(* Once nobody starts, dies or is late any more, every agent knows all the *)
(* others that live and no one else, each by the address that agent itself *)
(* was told last: the peers the dead have left go away, and evictions and  *)
(* restarts of the server heal.                                            *)
(***************************************************************************)
Alive == {a \in Agents : phase[a] \notin {"new", "dead"}}

MeshConverges ==
    <>[](\A a \in Alive :
            /\ known[a] # NoView
            /\ DOMAIN known[a].peers = Alive \ {a}
            /\ \A p \in Alive \ {a} :
                  known[p] # NoView /\ known[a].peers[p] = known[p].ip)
----------------------------------------------------------------------------
(* The inductive invariant behind KeepAlive *)

\* The request under way is one the agent waits for, and is of the view it
\* was sent last.
RequestInv ==
    /\ DOMAIN known = Agents /\ DOMAIN link = Agents
    /\ \A a \in Agents :
           /\ phase[a] \in {"new", "retry", "sleep"} => step[a] = "idle"
           /\ phase[a] \in {"join", "register"} => step[a] \in {"idle", "register"}
           /\ phase[a] = "ping" => step[a] # "register"
           /\ phase[a] \in {"new", "sleep"} => known[a] = sent[a]
           /\ phase[a] = "ping" /\ (step[a] # "idle" \/ answer[a] # "ok") =>
                 known[a] = sent[a]
           /\ phase[a] \in {"join", "register"} /\ step[a] = "idle" =>
                 answer[a] \in (IF restarts = 0 THEN {"ok"} ELSE {"ok", "none"})
           /\ restarts = 0 /\ phase[a] = "ping" /\ step[a] = "idle" => answer[a] # "none"

\* While every round is in time and fits, and the server lives: the store
\* last heard of an agent no longer ago than it has slept and lagged.
HeartInv ==
    Undisturbed =>
        \A a \in Agents :
            /\ phase[a] \notin {"register", "retry"}
            /\ phase[a] = "sleep" =>
                  a \in members /\ age[a] + timer[a] <= Interval + lag[a]
            /\ phase[a] = "ping" => a \in members /\ age[a] <= Interval + lag[a]
            /\ phase[a] \in {"join", "ping"} /\ step[a] = "idle" =>
                  a \in members /\ age[a] <= lag[a] /\ answer[a] # "unknown"

\* While the server lives, each view that was sent is of the addresses that
\* are still in the store.
ViewInv ==
    restarts = 0 => \A a \in Agents :
        /\ sent[a] # NoView => Addressing(a, sent[a])
        /\ sent[a] = NoView => known[a] = NoView
        /\ known[a] # NoView => Addressing(a, known[a])
        /\ link[a] = known[a]
        /\ phase[a] \in {"sleep", "retry", "ping", "register"} => link[a] # NoView

\* A hash that is compared is that of what the agent knows.
AskedInv ==
    /\ DOMAIN asked = Agents
    /\ \A a \in Agents : phase[a] = "ping" /\ step[a] = "compare" => asked[a] = known[a]

MeshInv == MeshTypeOK /\ PlaneInv /\ RequestInv /\ HeartInv /\ ViewInv /\ AskedInv
----------------------------------------------------------------------------
(* How long a change takes from the store to an agent *)

\* A record whose turn has come is found by the next request, and a change
\* just missed by the one behind it: one sleep, and up to MaxLag seconds each
\* from the comparison to the answer 304, from there to the next comparison,
\* and from that answer to the device.
RoundTrip == Interval + 3 * MaxLag

\* How long what a knows has been allowed to be wrong, by where a is in its
\* round, besides the lag it has at that place.
Window(a) ==
    CASE phase[a] = "sleep" -> MaxLag + Interval - timer[a]
      [] phase[a] = "ping" /\ step[a] = "touch" -> 0
      [] phase[a] = "ping" /\ step[a] = "idle" /\ answer[a] = "same" -> MaxLag
      [] phase[a] = "ping" /\ step[a] = "idle" /\ answer[a] = "ok" -> Interval + 2 * MaxLag
      [] OTHER -> MaxLag + Interval

\* a has been sent a view that it has not looked at yet.
Unread(a) ==
    phase[a] \in {"join", "register", "ping"} /\ step[a] = "idle" /\ answer[a] = "ok"
=============================================================================
