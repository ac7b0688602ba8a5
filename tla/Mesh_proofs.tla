---------------------------- MODULE Mesh_proofs ----------------------------
(***************************************************************************)
(* Proofs about Mesh, for every set of agents, every TTL and every bound   *)
(* on lag and delays.                                                      *)
(***************************************************************************)
EXTENDS Mesh, ControlPlane_proofs

LEMMA IntervalType ==
    Interval \in Nat \ {0}
BY TtlAssumption DEF Interval

----------------------------------------------------------------------------
(* Requests and answers *)

\* What serving the request of k does, to k and to the others.
LEMMA HandlerFrame ==
    ASSUME PlaneInv, NEW k \in Agents, Handler(k)
    PROVE  /\ Evicted \subseteq members'
           /\ step[k] # "idle"
           /\ \A j \in Agents \ {k} :
                 /\ step'[j] = step[j] /\ answer'[j] = answer[j]
                 /\ sent'[j] = sent[j] /\ age'[j] = age[j]
           /\ step'[k] \in {"idle", "touch", "ping"}
           /\ step'[k] # "idle" \/ answer'[k] # "ok" => sent'[k] = sent[k]
           /\ step[k] = "register" =>
                 /\ step'[k] = "idle" /\ answer'[k] = "ok"
                 /\ k \in members' /\ age'[k] = 0
           /\ step'[k] = "idle" => answer'[k] # "none"
           /\ k \in Evicted =>
                 /\ k \in members' /\ age'[k] \in {age[k], 0}
                 /\ step'[k] = "idle" => age'[k] = 0 /\ answer'[k] # "unknown"
<1> USE EvictedMembers DEF PlaneInv, PlaneTypeOK, Seen, Answer, AnswerView
<1>1. CASE Register(k)
  BY <1>1 DEF Register
<1>2. CASE CompareHash(k)
  BY <1>2 DEF CompareHash
<1>3. CASE Touch(k)
  BY <1>3 DEF Touch
<1>4. CASE Ping(k)
  BY <1>4 DEF Ping
<1> QED
  BY <1>1, <1>2, <1>3, <1>4 DEF Handler

\* An address that was given out stays, and a view that is sent is of such
\* addresses.
LEMMA HandlerViews ==
    ASSUME PlaneInv, NEW k \in Agents, Handler(k)
    PROVE  /\ \A j \in Addressed : j \in Addressed' /\ vpn'[j] = vpn[j]
           /\ \/ sent' = sent
              \/ /\ k \in Addressed'
                 /\ \E S \in SUBSET (Addressed') :
                       sent' = [sent EXCEPT ![k] = ViewOf(k, S, vpn')]
<1> USE EvictedMembers DEF PlaneInv, PlaneTypeOK, AddressesUnique, Addressed
<1>1. CASE Register(k)
  <2>1. nextOctet # 0
    OBVIOUS
  <2>2. vpn'[k] # 0 /\ \A j \in Agents : vpn[j] # 0 => vpn'[j] = vpn[j]
    BY <1>1, <2>1 DEF Register
  <2>3. members' = Evicted \cup {k}
        /\ sent' = [sent EXCEPT ![k] = ViewOf(k, members', vpn')]
    BY <1>1 DEF Register, AnswerView
  <2>4. \A j \in members' : j \in Agents /\ vpn'[j] # 0
    BY <2>2, <2>3
  <2> QED
    BY <2>2, <2>3, <2>4
<1>2. CASE CompareHash(k)
  BY <1>2 DEF CompareHash
<1>3. CASE Touch(k)
  BY <1>3 DEF Touch
<1>4. CASE Ping(k)
  <2>1. vpn' = vpn
    BY <1>4 DEF Ping
  <2>2. sent' = sent \/ (k \in Evicted /\ sent' = [sent EXCEPT ![k] = ViewOf(k, Evicted, vpn)])
    BY <1>4 DEF Ping, AnswerView
  <2> QED
    BY <2>1, <2>2
<1> QED
  BY <1>1, <1>2, <1>3, <1>4 DEF Handler

\* A view of addresses that stay stays right.
LEMMA ViewsKept ==
    ASSUME \A j \in Addressed : vpn'[j] = vpn[j]
    PROVE  \A a \in Addressed, S \in SUBSET Addressed :
               ViewOf(a, S, vpn') = ViewOf(a, S, vpn)
BY DEF ViewOf

\* update_peers on a device that is right already.
LEMMA UpdatedView ==
    ASSUME NEW a, NEW view1, NEW view2, Addressing(a, view1), Addressing(a, view2)
    PROVE  Updated(view1, view2) = view2
BY DEF Addressing, Updated, ViewOf

\* An agent that beats in time is not stale.
LEMMA BeatingIsFresh ==
    ASSUME MeshInv, Undisturbed, NEW a \in Agents,
           \/ phase[a] \in {"sleep", "ping"}
           \/ phase[a] = "join" /\ step[a] = "idle"
    PROVE  a \in Evicted
<1> USE IntervalType, LagAssumption, TtlAssumption
    DEF MeshInv, MeshTypeOK, PlaneTypeOK, HeartInv, Undisturbed
<1>1. a \in members /\ age[a] <= Interval + lag[a]
  OBVIOUS
<1>2. age[a] <= Ttl
  BY <1>1
<1> QED
  BY <1>1, <1>2 DEF Evicted

LEMMA UndisturbedKept ==
    ASSUME UNCHANGED <<delays, restarts>>
    PROVE  Undisturbed' = Undisturbed
BY DEF Undisturbed, Interval

\* The phases of an agent that has a device.
Linked == {"sleep", "retry", "ping", "register"}

\* The steps that neither give out an address nor send or apply a view.
LEMMA ViewInvKept ==
    ASSUME ViewInv, UNCHANGED <<vpn, sent, known, link, restarts>>,
           \A a \in Agents : phase'[a] \in Linked => phase[a] \in Linked
    PROVE  ViewInv'
<1>1. \A a \in Agents : Addressing(a, sent[a])' <=> Addressing(a, sent[a])
  BY DEF Addressing, Addressed, ViewOf
<1>2. \A a \in Agents : Addressing(a, known[a])' <=> Addressing(a, known[a])
  BY DEF Addressing, Addressed, ViewOf
<1> QED
  BY <1>1, <1>2 DEF ViewInv, Linked

LEMMA ServeViewInv ==
    ASSUME MeshInv, NEW a \in Agents, Serve(a)
    PROVE  ViewInv'
<1>1. PlaneInv /\ ViewInv /\ Handler(a) /\ UNCHANGED <<phase, known, link, restarts>>
  BY DEF Serve, MeshInv, agentVars
<1> SUFFICES ASSUME restarts = 0, NEW b \in Agents
             PROVE  /\ sent'[b] # NoView => Addressing(b, sent[b])'
                    /\ sent'[b] = NoView => known[b] = NoView
                    /\ known[b] # NoView => Addressing(b, known[b])'
                    /\ link[b] = known[b]
                    /\ phase[b] \in Linked => link[b] # NoView
  BY <1>1 DEF ViewInv, Linked
<1>2. \A j \in Addressed : j \in Addressed' /\ vpn'[j] = vpn[j]
  BY <1>1, HandlerViews
<1>3. \A j \in Addressed, S \in SUBSET Addressed :
          S \in SUBSET (Addressed') /\ ViewOf(j, S, vpn') = ViewOf(j, S, vpn)
  BY <1>2, ViewsKept
<1>4. known[b] # NoView => Addressing(b, known[b])'
  BY <1>1, <1>2, <1>3 DEF ViewInv, Addressing
<1>5. ASSUME sent'[b] = sent[b]
      PROVE  /\ sent'[b] # NoView => Addressing(b, sent[b])'
             /\ sent'[b] = NoView => known[b] = NoView
  BY <1>1, <1>2, <1>3, <1>5 DEF ViewInv, Addressing
<1>6. ASSUME b = a, a \in Addressed',
             NEW S \in SUBSET (Addressed'), sent' = [sent EXCEPT ![a] = ViewOf(a, S, vpn')]
      PROVE  /\ Addressing(b, sent[b])'
             /\ sent'[b] = NoView => known[b] = NoView
  <2>1. sent'[a] = ViewOf(a, S, vpn')
    BY <1>1, <1>6 DEF PlaneInv
  <2>2. sent'[a] # NoView
    <3>1. vpn' \in [Agents -> Nat]
      BY <1>1, HandlerInv DEF PlaneInv, PlaneTypeOK
    <3>2. S \in SUBSET Agents
      BY <1>6 DEF Addressed
    <3> QED
      BY <2>1, <3>1, <3>2, ViewIsThere
  <2> QED
    BY <1>6, <2>1, <2>2 DEF Addressing
<1>7. \/ sent'[b] = sent[b]
      \/ /\ b = a /\ a \in Addressed'
         /\ \E S \in SUBSET (Addressed') : sent' = [sent EXCEPT ![a] = ViewOf(a, S, vpn')]
  BY <1>1, HandlerViews DEF PlaneInv
<1> QED
  BY <1>1, <1>4, <1>5, <1>6, <1>7 DEF ViewInv, Linked

LEMMA ServeInv ==
    ASSUME MeshInv, NEW a \in Agents, Serve(a)
    PROVE  MeshInv'
<1> USE LagAssumption, IntervalType
<1>1. PlaneInv' /\ UNCHANGED <<phase, timer, known, link, delays, restarts>> /\ Handler(a)
  BY HandlerInv DEF Serve, MeshInv, agentVars
<1>2. /\ lag' \in [Agents -> 0 .. MaxLag]
      /\ \A j \in Agents \ {a} : lag'[j] = lag[j]
      /\ lag'[a] = (IF step'[a] = "idle" THEN 0 ELSE lag[a])
  BY DEF Serve, MeshInv, MeshTypeOK
<1>3. MeshTypeOK'
  BY <1>1, <1>2 DEF MeshInv, MeshTypeOK, PlaneInv
<1>4. RequestInv'
  BY <1>1, HandlerFrame DEF MeshInv, RequestInv
<1>5. ASSUME Undisturbed, NEW b \in Agents
      PROVE  /\ phase[b] \notin {"register", "retry"}
             /\ phase[b] = "sleep" =>
                   b \in members' /\ age'[b] + timer[b] <= Interval + lag'[b]
             /\ phase[b] = "ping" => b \in members' /\ age'[b] <= Interval + lag'[b]
             /\ phase[b] \in {"join", "ping"} /\ step'[b] = "idle" =>
                   b \in members' /\ age'[b] <= lag'[b] /\ answer'[b] # "unknown"
  <2> USE DEF MeshInv, HeartInv, Undisturbed
  <2>1. CASE b # a
    BY <1>1, <1>2, <1>5, <2>1, HandlerFrame, BeatingIsFresh
  <2>2. CASE b = a
    <3>1. phase[a] \notin {"sleep", "retry", "register"}
      BY <1>1, <1>5, HandlerFrame DEF RequestInv
    <3>2. CASE phase[a] = "join"
      BY <1>1, <1>2, <1>5, <2>2, <3>2, HandlerFrame DEF RequestInv, MeshTypeOK
    <3>3. CASE phase[a] = "ping"
      <4>1. a \in Evicted /\ age[a] <= Interval + lag[a]
        BY <1>5, <3>3, BeatingIsFresh
      <4>2. a \in members' /\ age'[a] \in {age[a], 0}
            /\ (step'[a] = "idle" => age'[a] = 0 /\ answer'[a] # "unknown")
        BY <1>1, <4>1, HandlerFrame
      <4>3. age'[a] <= Interval + lag'[a]
        BY <1>2, <4>1, <4>2
      <4> QED
        BY <1>2, <2>2, <3>3, <4>2, <4>3
    <3> QED
      BY <2>2, <3>1, <3>2, <3>3
  <2> QED
    BY <2>1, <2>2
<1>6. HeartInv'
  BY <1>1, <1>5, UndisturbedKept DEF HeartInv, Interval
<1>7. AskedInv'
  <2>1. asked' = asked
    BY <1>1 DEF Handler, Register, CompareHash, Touch, Ping
  <2> QED
    BY <1>1, <2>1, HandlerFrame DEF MeshInv, AskedInv
<1> QED
  BY <1>1, <1>3, <1>4, <1>6, <1>7, ServeViewInv DEF MeshInv

----------------------------------------------------------------------------
(* The agents' own steps *)

\* The steps that end in a request.
LEMMA AskingInv ==
    ASSUME MeshInv, NEW a \in Agents, Start(a) \/ Wake(a) \/ Retry(a) \/ GetUnknown(a)
    PROVE  MeshInv'
<1>1. /\ UNCHANGED <<storeVars, answer, sent, timer, known, link, lag, delays, restarts>>
      /\ \E s \in {"register", "compare"} : step' = [step EXCEPT ![a] = s]
      /\ PlaneInv'
  BY AskInv DEF Start, Wake, Retry, GetUnknown, Ask, MeshInv
<1>2. Undisturbed' = Undisturbed
  BY <1>1, UndisturbedKept
<1> USE DEF Enter, Ask, MeshInv, MeshTypeOK, Phases, PlaneInv, PlaneTypeOK, storeVars,
            Interval
<1>3. \E p \in {"join", "ping", "register"} : phase' = [phase EXCEPT ![a] = p]
  BY DEF Start, Wake, Retry, GetUnknown
<1>4. MeshTypeOK'
  BY <1>1, <1>3
<1>5. ViewInv'
  <2>1. \A b \in Agents : phase'[b] \in Linked => phase[b] \in Linked
    BY DEF Start, Wake, Retry, GetUnknown, Answered, Linked
  <2> QED
    BY <1>1, <2>1, ViewInvKept
<1>0. AskedInv'
  <2>1. CASE Wake(a)
    BY <1>1, <1>3, <2>1 DEF Wake, AskedInv
  <2>2. CASE Start(a) \/ Retry(a) \/ GetUnknown(a)
    BY <1>1, <1>3, <2>2 DEF Start, Retry, GetUnknown, AskedInv
  <2> QED
    BY <2>1, <2>2
<1>6. CASE Start(a)
  BY <1>0, <1>1, <1>2, <1>4, <1>5, <1>6 DEF Start, RequestInv, HeartInv
<1>7. CASE Wake(a)
  BY <1>0, <1>1, <1>2, <1>4, <1>5, <1>7 DEF Wake, RequestInv, HeartInv
<1>8. CASE GetUnknown(a)
  BY <1>0, <1>1, <1>2, <1>4, <1>5, <1>8 DEF GetUnknown, Answered, RequestInv, HeartInv
<1>9. CASE Retry(a)
  BY <1>0, <1>1, <1>2, <1>4, <1>5, <1>9 DEF Retry, RequestInv, HeartInv
<1> QED
  BY <1>6, <1>7, <1>8, <1>9

\* The views an agent takes over are right as long as the server lives.
LEMMA AppliedViewInv ==
    ASSUME MeshInv, NEW a \in Agents, Join(a) \/ GetView(a)
    PROVE  ViewInv'
<1> USE DEF MeshInv, MeshTypeOK, RequestInv, ViewInv
<1> SUFFICES ASSUME restarts = 0, NEW b \in Agents
             PROVE  /\ sent[b] # NoView => Addressing(b, sent[b])'
                    /\ sent[b] = NoView => known'[b] = NoView
                    /\ known'[b] # NoView => Addressing(b, known[b])'
                    /\ link'[b] = known'[b]
                    /\ phase'[b] \in Linked => link'[b] # NoView
  BY DEF Join, GetView, planeVars, requestVars, Linked
<1>1. /\ UNCHANGED <<vpn, sent>>
      /\ known' = [known EXCEPT ![a] = sent[a]]
      /\ phase' = [phase EXCEPT ![a] = "sleep"]
      /\ \A c \in Agents \ {a} : link'[c] = link[c]
  BY DEF Join, GetView, Sleep, Enter, planeVars, storeVars, requestVars
<1>2. ASSUME NEW view
      PROVE  (Addressing(b, view))' <=> Addressing(b, view)
  BY <1>1 DEF Addressing, Addressed, ViewOf
<1>3. CASE b # a
  BY <1>1, <1>2, <1>3 DEF Linked
<1>4. CASE b = a
  <2>1. link'[a] = sent[a]
    <3>1. CASE Join(a)
      BY <3>1 DEF Join
    <3>2. CASE GetView(a)
      <4>1. /\ link[a] # NoView /\ link[a] = known[a] /\ sent[a] # NoView
            /\ Addressing(a, link[a]) /\ Addressing(a, sent[a])
        BY <3>2 DEF GetView, Answered
      <4>2. link'[a] = Updated(link[a], sent[a])
        BY <3>2 DEF GetView
      <4> QED
        BY <4>1, <4>2, UpdatedView
    <3> QED
      BY <3>1, <3>2
  <2>2. sent[a] # NoView
    BY DEF Join, GetView, PlaneInv
  <2> QED
    BY <1>1, <1>2, <1>4, <2>1, <2>2
<1> QED
  BY <1>3, <1>4

\* The steps that look at an answer, or end everything.
LEMMA AnsweredInv ==
    ASSUME MeshInv, NEW a \in Agents,
           \/ Join(a) \/ JoinFails(a) \/ GetView(a) \/ GetNotModified(a)
           \/ GetNothing(a) \/ Die(a)
    PROVE  MeshInv'
<1> USE IntervalType
<1>1. UNCHANGED <<planeVars, lag, delays, restarts>>
  BY DEF Join, JoinFails, GetView, GetNotModified, GetNothing, Die
<1>2. PlaneInv'
  BY <1>1, SameAddresses DEF MeshInv, planeVars, storeVars, requestVars, PlaneInv,
     PlaneTypeOK, AddressesUnique
<1>3. \E p \in {"sleep", "retry", "dead"} : phase' = [phase EXCEPT ![a] = p]
  BY DEF Join, JoinFails, GetView, GetNotModified, GetNothing, Die, Sleep, Enter
<1>4. timer' = timer \/ timer' = [timer EXCEPT ![a] = Interval]
  BY DEF Join, JoinFails, GetView, GetNotModified, GetNothing, Die, Sleep
<1>5. MeshTypeOK'
  BY <1>1, <1>2, <1>3, <1>4 DEF MeshInv, MeshTypeOK, Phases, PlaneInv
<1>6. RequestInv'
  <2> USE DEF MeshInv, MeshTypeOK, RequestInv, planeVars, requestVars
  <2>1. CASE Join(a)
    BY <1>1, <2>1 DEF Join, Enter, PlaneInv
  <2>2. CASE GetView(a)
    BY <1>1, <2>2 DEF GetView, Answered, Sleep, Enter
  <2>3. CASE GetNotModified(a)
    BY <1>1, <2>3 DEF GetNotModified, Answered, Sleep, Enter
  <2>4. CASE Die(a)
    BY <1>1, <2>4 DEF Die, Enter
  <2>5. CASE JoinFails(a)
    BY <1>1, <2>5 DEF JoinFails, Enter
  <2>6. CASE GetNothing(a)
    BY <1>1, <2>6 DEF GetNothing, Answered, Sleep, Enter
  <2> QED
    BY <2>1, <2>2, <2>3, <2>4, <2>5, <2>6
<1>7. ASSUME Undisturbed, NEW b \in Agents
      PROVE  /\ phase'[b] \notin {"register", "retry"}
             /\ phase'[b] = "sleep" =>
                   b \in members /\ age[b] + timer'[b] <= Interval + lag[b]
             /\ phase'[b] = "ping" => b \in members /\ age[b] <= Interval + lag[b]
             /\ phase'[b] \in {"join", "ping"} /\ step[b] = "idle" =>
                   b \in members /\ age[b] <= lag[b] /\ answer[b] # "unknown"
  <2> USE DEF MeshInv, HeartInv, MeshTypeOK
  <2>1. CASE b # a
    <3>1. phase'[b] = phase[b] /\ timer'[b] = timer[b]
      BY <1>3, <1>4, <2>1
    <3> QED
      BY <1>7, <3>1
  <2>2. CASE b = a /\ (Die(a) \/ JoinFails(a))
    BY <2>2 DEF Die, JoinFails, Enter
  <2>3. CASE b = a /\ (Join(a) \/ GetView(a) \/ GetNotModified(a) \/ GetNothing(a))
    <3>1. phase[a] \in {"join", "ping"} /\ step[a] = "idle"
      BY <1>7, <2>3 DEF Join, GetView, GetNotModified, GetNothing, Answered
    <3>2. a \in members /\ age[a] <= lag[a]
      BY <1>7, <3>1
    <3>3. timer'[a] \in 0 .. Interval
      BY <1>5
    <3>4. age[a] \in Nat /\ lag[a] \in Nat
      BY TtlAssumption, LagAssumption DEF PlaneTypeOK
    <3>5. age[a] + timer'[a] <= Interval + lag[a]
      BY <3>2, <3>3, <3>4
    <3>6. phase'[a] = "sleep"
      BY <2>3, <3>1 DEF Join, GetView, GetNotModified, GetNothing, Answered, Sleep, Enter
    <3> QED
      BY <2>3, <3>2, <3>5, <3>6
  <2> QED
    BY <2>1, <2>2, <2>3
<1>8. HeartInv'
  BY <1>1, <1>7, UndisturbedKept DEF HeartInv, Interval, planeVars, storeVars, requestVars
<1>9. ViewInv'
  <2>1. CASE Join(a) \/ GetView(a)
    BY <2>1, AppliedViewInv
  <2>2. CASE JoinFails(a) \/ GetNotModified(a) \/ GetNothing(a) \/ Die(a)
    <3>1. UNCHANGED <<vpn, sent, known, link, restarts>>
      BY <2>2 DEF JoinFails, GetNotModified, GetNothing, Die, planeVars, storeVars, requestVars
    <3>2. \A b \in Agents : phase'[b] \in Linked => phase[b] \in Linked
      BY <2>2 DEF JoinFails, GetNotModified, GetNothing, Die, Answered, Sleep, Enter, Linked,
         MeshInv, MeshTypeOK
    <3> QED
      BY <3>1, <3>2, ViewInvKept DEF MeshInv
  <2> QED
    BY <2>1, <2>2
<1>10. AskedInv'
  <2>1. \A b \in Agents : phase'[b] = "ping" => phase[b] = "ping" /\ b # a
    BY <1>3 DEF MeshInv, MeshTypeOK
  <2>2. \A b \in Agents \ {a} : known'[b] = known[b]
    BY DEF Join, JoinFails, GetView, GetNotModified, GetNothing, Die, MeshInv, RequestInv
  <2> QED
    BY <1>1, <2>1, <2>2 DEF MeshInv, AskedInv, planeVars, requestVars
<1> QED
  BY <1>2, <1>5, <1>6, <1>8, <1>9, <1>10 DEF MeshInv

\* A restart of the server ends what is claimed of a server that lives.
LEMMA RestartServerInv ==
    ASSUME MeshInv, RestartServer
    PROVE  MeshInv'
<1>1. restarts' \in 0 .. MaxRestarts /\ restarts' # 0
  BY LagAssumption DEF RestartServer, MeshInv, MeshTypeOK
<1>2. PlaneInv'
  BY RestartInv DEF RestartServer, MeshInv
<1>3. /\ UNCHANGED <<phase, timer, known, link, lag, delays, sent>>
      /\ answer' = [k \in Agents |-> IF step[k] = "idle" THEN answer[k] ELSE "none"]
      /\ step' = [k \in Agents |-> "idle"]
  BY DEF RestartServer, ServerRestart, agentVars
<1>4. MeshTypeOK'
  BY <1>1, <1>2, <1>3 DEF MeshInv, MeshTypeOK, PlaneInv, Interval
<1>5. RequestInv'
  BY <1>1, <1>3 DEF MeshInv, RequestInv
<1>6. HeartInv' /\ ViewInv'
  BY <1>1 DEF HeartInv, Undisturbed, ViewInv
<1>7. AskedInv'
  BY <1>3 DEF RestartServer, ServerRestart, MeshInv, AskedInv
<1> QED
  BY <1>2, <1>4, <1>5, <1>6, <1>7 DEF MeshInv

----------------------------------------------------------------------------
(* Time *)

LEMMA TickInv ==
    ASSUME MeshInv, Tick
    PROVE  MeshInv'
<1> USE IntervalType, LagAssumption, TtlAssumption DEF MeshInv, MeshTypeOK
<1>1. PassTime
  BY DEF Tick, PassTime
<1>2. PlaneInv'
  BY <1>1, PassTimeInv
<1>3. /\ timer' \in [Agents -> 0 .. Interval]
      /\ lag' \in [Agents -> 0 .. MaxLag]
      /\ delays' \in 0 .. MaxDelays
  BY DEF Tick
<1>4. MeshTypeOK'
  BY <1>2, <1>3 DEF Tick, PlaneInv, Interval
<1>5. RequestInv'
  BY DEF Tick, RequestInv, requestVars
<1>6. ASSUME Undisturbed', NEW a \in Agents
      PROVE  /\ Undisturbed
             /\ age'[a] <= age[a] + 1
             /\ Busy(a) => lag'[a] = lag[a] + 1
             /\ ~Busy(a) => lag'[a] = lag[a]
             /\ timer'[a] = (IF timer[a] > 0 THEN timer[a] - 1 ELSE 0)
  <2>1. delays = 0 /\ ~Late /\ Undisturbed
    BY <1>6 DEF Tick, Undisturbed, Interval
  <2>2. age'[a] <= age[a] + 1
    BY OlderType DEF Tick, Second, PlaneTypeOK
  <2>3. Busy(a) => lag'[a] = lag[a] + 1
    BY <2>1 DEF Tick, Late
  <2> QED
    BY <2>1, <2>2, <2>3 DEF Tick, Busy
<1>7. HeartInv'
  <2>1. ASSUME Undisturbed', NEW a \in Agents
        PROVE  /\ phase[a] \notin {"register", "retry"}
               /\ phase[a] = "sleep" =>
                     a \in members /\ age'[a] + timer'[a] <= Interval + lag'[a]
               /\ phase[a] = "ping" => a \in members /\ age'[a] <= Interval + lag'[a]
               /\ phase[a] \in {"join", "ping"} /\ step[a] = "idle" =>
                     a \in members /\ age'[a] <= lag'[a] /\ answer[a] # "unknown"
    <3>1. /\ age[a] \in Nat /\ age'[a] \in Nat
          /\ lag[a] \in Nat /\ lag'[a] \in Nat
          /\ timer[a] \in Nat
      BY <1>2, <1>4, <2>1 DEF PlaneInv, PlaneTypeOK
    <3>2. CASE phase[a] = "sleep" /\ timer[a] > 0
      BY <1>6, <2>1, <3>1, <3>2 DEF HeartInv, Undisturbed, Busy
    <3>3. CASE phase[a] = "sleep" /\ timer[a] = 0
      BY <1>6, <2>1, <3>1, <3>3 DEF HeartInv, Undisturbed, Busy
    <3>4. CASE phase[a] # "sleep"
      BY <1>6, <2>1, <3>1, <3>4 DEF HeartInv, Undisturbed, Busy
    <3> QED
      BY <3>1, <3>2, <3>3, <3>4
  <2> QED
    BY <2>1 DEF HeartInv, Undisturbed, Tick, Interval, requestVars
<1>8. ViewInv'
  BY ViewInvKept DEF Tick, requestVars
<1>9. AskedInv'
  BY DEF Tick, requestVars, AskedInv
<1> QED
  BY <1>2, <1>4, <1>5, <1>7, <1>8, <1>9

----------------------------------------------------------------------------
(* Theorems *)

LEMMA MeshInitInv ==
    MeshInit => MeshInv
<1> SUFFICES ASSUME MeshInit PROVE MeshInv
  OBVIOUS
<1>1. PlaneInv
  BY InitInv DEF MeshInit
<1>2. MeshTypeOK
  BY <1>1, IntervalType, LagAssumption DEF MeshInit, MeshTypeOK, Phases, PlaneInv
<1> QED
  BY <1>1, <1>2 DEF MeshInit, PlaneInit, MeshInv, RequestInv, HeartInv, ViewInv, AskedInv

LEMMA MeshStepInv ==
    MeshInv /\ [MeshNext]_meshVars => MeshInv'
<1> SUFFICES ASSUME MeshInv, [MeshNext]_meshVars
             PROVE  MeshInv'
  OBVIOUS
<1>1. CASE \E a \in Agents : Step(a)
  BY <1>1, ServeInv, AskingInv, AnsweredInv DEF Step
<1>2. CASE \E a \in Agents : Start(a) \/ Die(a)
  BY <1>2, AskingInv, AnsweredInv
<1>3. CASE Tick
  BY <1>3, TickInv
<1>4. CASE UNCHANGED meshVars
  BY <1>4, SameAddresses, ViewInvKept
  DEF meshVars, planeVars, storeVars, requestVars, agentVars, MeshInv, MeshTypeOK,
      PlaneInv, PlaneTypeOK, AddressesUnique, RequestInv, HeartInv, AskedInv, Undisturbed,
      Interval
<1>5. CASE RestartServer
  BY <1>5, RestartServerInv
<1> QED
  BY <1>1, <1>2, <1>3, <1>4, <1>5 DEF MeshNext

(***************************************************************************)
(* The inductive invariant of the mesh holds of every reachable state.     *)
(***************************************************************************)
THEOREM MeshInvariant ==
    MeshSpec => []MeshInv
BY MeshInitInv, MeshStepInv, PTL DEF MeshSpec

(***************************************************************************)
(* An agent in its heartbeat is never evicted, and never told that it is   *)
(* unknown, while the server lives, every round is in time and a round     *)
(* fits into the TTL.                                                      *)
(***************************************************************************)
THEOREM HeartbeatKeepsAlive ==
    MeshSpec => []KeepAlive
<1>1. MeshInv => KeepAlive
  BY DEF MeshInv, HeartInv, KeepAlive, Beating
<1> QED
  BY <1>1, MeshInvariant, PTL

(***************************************************************************)
(* While the server lives, each device has the address the store keeps for *)
(* its agent and for each peer the one the store keeps for that peer.      *)
(***************************************************************************)
THEOREM LinksStayRight ==
    MeshSpec => []LinksMatchStore
<1>1. MeshInv => LinksMatchStore
  BY DEF MeshInv, ViewInv, LinksMatchStore
<1> QED
  BY <1>1, MeshInvariant, PTL

(***************************************************************************)
(* The agents use the control plane as PlaneSpec allows: what is proved of *)
(* the store alone holds with real agents around it.                       *)
(***************************************************************************)
THEOREM MeshUsesPlane ==
    MeshSpec => PlaneSpec
<1>1. MeshInit => PlaneInit
  BY DEF MeshInit
<1>2. ASSUME MeshInv, [MeshNext]_meshVars
      PROVE  [PlaneNext]_planeVars
  <2>1. ASSUME NEW a \in Agents, Serve(a)
        PROVE  PlaneNext
    BY <2>1 DEF Serve, PlaneNext
  <2>2. ASSUME NEW a \in Agents, Start(a) \/ GetUnknown(a) \/ Retry(a)
        PROVE  PlaneNext
    BY <2>2 DEF Start, GetUnknown, Retry, PlaneNext
  <2>3. ASSUME NEW a \in Agents, Wake(a)
        PROVE  PlaneNext
    <3>1. known[a] = sent[a]
      BY <1>2, <2>3 DEF MeshInv, RequestInv, Wake
    <3> QED
      BY <2>3, <3>1 DEF Wake, PlaneNext
  <2>4. ASSUME NEW a \in Agents,
               \/ Join(a) \/ JoinFails(a) \/ GetView(a) \/ GetNotModified(a)
               \/ GetNothing(a) \/ Die(a)
        PROVE  UNCHANGED planeVars
    BY <2>4 DEF Join, JoinFails, GetView, GetNotModified, GetNothing, Die
  <2>5. CASE Tick
    BY <2>5 DEF Tick, PlaneNext, PassTime
  <2>6. CASE UNCHANGED meshVars
    BY <2>6 DEF meshVars
  <2>7. CASE RestartServer
    BY <2>7 DEF RestartServer, PlaneNext
  <2> QED
    BY <1>2, <2>1, <2>2, <2>3, <2>4, <2>5, <2>6, <2>7 DEF MeshNext, Step
<1> QED
  BY <1>1, <1>2, MeshInvariant, PTL DEF MeshSpec, PlaneSpec

(***************************************************************************)
(* To the agents the control plane is the register that drops them in time *)
(* and answers in one step, with addresses that are unique and kept, and   *)
(* views of nobody who has been silent for too long.                       *)
(***************************************************************************)
THEOREM MeshUsesRegistry ==
    MeshSpec => /\ ImplementsRegistry
                /\ KeepsAddress
                /\ SendsFreshPeers
                /\ []AddressesUnique
BY MeshUsesPlane, StoreIsRegistry, AddressesKept, FreshPeersSent, UniqueAddresses, PTL
=============================================================================
