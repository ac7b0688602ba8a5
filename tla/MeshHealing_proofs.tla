------------------------- MODULE MeshHealing_proofs -------------------------
(***************************************************************************)
(* Proofs of the bounds of MeshHealing, for every set of agents, every TTL *)
(* and every bound on lag, delays and restarts.                            *)
(***************************************************************************)
EXTENDS MeshHealing, Mesh_proofs

HealInv == MeshInv /\ HealingInv

LEMMA HealConstants ==
    /\ Ttl \in Nat /\ MaxLag \in Nat /\ Interval \in Nat \ {0}
    /\ Settle \in Nat /\ Settle >= Ttl /\ Settle >= Interval + 2 * MaxLag
    /\ HealTime = Settle + RoundTrip /\ RoundTrip = Interval + 3 * MaxLag
    /\ Interval' = Interval /\ Settle' = Settle /\ HealTime' = HealTime /\ Fits' = Fits
<1>1. Ttl \in Nat /\ MaxLag \in Nat /\ Interval \in Nat \ {0}
  BY TtlAssumption, LagAssumption, IntervalType
<1>2. Settle \in Nat /\ Settle >= Ttl /\ Settle >= Interval + 2 * MaxLag
  BY <1>1 DEF Settle, Rejoin
<1> QED
  BY <1>1, <1>2 DEF HealTime, Settle, Rejoin, RoundTrip, Interval, Fits

LEMMA HealTypes ==
    ASSUME HealInv, NEW a \in Agents
    PROVE  /\ calm \in Nat /\ calm <= HealTime + 1
           /\ age[a] \in 0 .. Ttl + 1
           /\ lag[a] \in 0 .. MaxLag
           /\ timer[a] \in 0 .. Interval
           /\ Window(a) \in 0 .. Interval + 2 * MaxLag
           /\ Slack(a) \in Nat /\ Slack(a) <= Settle
<1>1. /\ calm \in Nat /\ calm <= HealTime + 1
      /\ age[a] \in 0 .. Ttl + 1 /\ lag[a] \in 0 .. MaxLag /\ timer[a] \in 0 .. Interval
  BY HealConstants DEF HealInv, HealingInv, HealTypeOK, MeshInv, MeshTypeOK, PlaneTypeOK
<1>2. Window(a) \in 0 .. Interval + 2 * MaxLag
  BY <1>1, HealConstants DEF Window
<1>3. Slack(a) \in 0 .. Interval + 2 * MaxLag
  BY <1>1, HealConstants DEF Slack
<1> QED
  BY <1>1, <1>2, <1>3, HealConstants

\* The same of the next state, before its HealingInv is known.
LEMMA NextTypes ==
    ASSUME MeshInv', NEW a \in Agents
    PROVE  /\ age'[a] \in 0 .. Ttl + 1
           /\ lag'[a] \in 0 .. MaxLag
           /\ timer'[a] \in 0 .. Interval
           /\ Window(a)' \in 0 .. Interval + 2 * MaxLag
           /\ Slack(a)' \in Nat
<1>1. /\ age'[a] \in 0 .. Ttl + 1 /\ lag'[a] \in 0 .. MaxLag /\ timer'[a] \in 0 .. Interval
  BY HealConstants DEF MeshInv, MeshTypeOK, PlaneTypeOK
<1>2. Window(a)' \in 0 .. Interval + 2 * MaxLag
  BY <1>1, HealConstants DEF Window
<1>3. Slack(a)' \in Nat
  BY <1>1, HealConstants DEF Slack
<1> QED
  BY <1>1, <1>2, <1>3

\* An agent that is kept is not overdue.
LEMMA KeptIsFresh ==
    ASSUME HealInv, Fits, NEW a \in Agents, Kept(a)
    PROVE  a \in Evicted
<1>1. age[a] <= Interval + lag[a]
  <2>1. CASE phase[a] = "sleep"
    BY <2>1, HealTypes, HealConstants DEF Kept, Heard
  <2>2. CASE phase[a] = "ping" /\ step[a] # "idle"
    BY <2>2 DEF Kept, Heard
  <2>3. CASE phase[a] \in {"join", "register", "ping"} /\ step[a] = "idle"
    BY <2>3, HealTypes, HealConstants DEF Kept, Heard
  <2> QED
    BY <2>1, <2>2, <2>3 DEF Kept, Registered
<1>2. age[a] <= Ttl
  BY <1>1, HealTypes, HealConstants DEF Fits
<1> QED
  BY <1>2, HealTypes, HealConstants DEF Kept, Evicted

\* After Settle seconds everybody is.
LEMMA SettledKept ==
    ASSUME HealInv, Fits, calm > Settle, NEW a \in Alive
    PROVE  Kept(a) /\ a \in Evicted
<1>1. a \in Agents
  BY DEF Alive
<1>2. Kept(a)
  BY <1>1, HealTypes, HealConstants DEF HealInv, HealingInv, KeptInv
<1> QED
  BY <1>1, <1>2, KeptIsFresh

LEMMA SettledStore ==
    ASSUME HealInv, Fits, calm > Settle
    PROVE  Evicted = Alive
<1>1. ASSUME NEW p \in Evicted
      PROVE  p \in Alive
  <2>1. p \in members /\ p \in Agents
    BY EvictedMembers DEF HealInv, MeshInv, PlaneInv, PlaneTypeOK
  <2>2. age[p] <= Ttl
    BY <2>1, HealTypes, HealConstants DEF Evicted
  <2>3. p \in Alive \/ calm <= age[p] \/ age[p] > Ttl
    BY <2>1 DEF HealInv, HealingInv, SilenceInv
  <2> QED
    BY <2>1, <2>2, <2>3, HealTypes, HealConstants
<1> QED
  BY <1>1, SettledKept

----------------------------------------------------------------------------
(* After a disturbance nothing is claimed *)

LEMMA CalmKept ==
    ASSUME MeshInv', calm' = 0
    PROVE  KeptInv'
<1> SUFFICES ASSUME NEW a \in Alive'
             PROVE  calm' <= Slack(a)'
  BY DEF KeptInv
<1>1. a \in Agents
  BY DEF Alive
<1> QED
  BY <1>1, NextTypes

LEMMA CalmKnown ==
    ASSUME MeshInv', calm' \in Nat, calm' <= Settle
    PROVE  KnownInv'
<1> SUFFICES ASSUME NEW a \in Alive'
             PROVE  calm' <= Settle + Window(a)' + lag'[a] /\ calm' <= Settle + lag'[a]
  BY HealConstants DEF KnownInv
<1>1. a \in Agents
  BY DEF Alive
<1> QED
  BY <1>1, NextTypes, HealConstants

----------------------------------------------------------------------------
(* The control plane works on a request *)

\* What the store knows of the agent it serves.
LEMMA Served ==
    ASSUME PlaneInv, NEW k \in Agents, Handler(k)
    PROVE  /\ k \in members' /\ step'[k] = "idle" =>
                 age'[k] = 0 /\ answer'[k] \in {"ok", "same"}
           /\ step'[k] # "idle" =>
                 /\ step[k] = "compare" /\ k \in Evicted /\ k \in Evicted'
                 /\ age'[k] = age[k] /\ answer'[k] = answer[k]
           /\ k \notin members' =>
                 \/ step[k] \in {"compare", "ping"} /\ k \notin Evicted
                       /\ step'[k] = "idle" /\ answer'[k] = "unknown"
                 \/ step[k] = "touch" /\ k \notin members
                       /\ step'[k] = "idle" /\ answer'[k] = "same"
<1> USE EvictedMembers DEF PlaneInv, PlaneTypeOK, Seen, Answer, AnswerView
<1>1. CASE Register(k)
  BY <1>1 DEF Register
<1>2. CASE CompareHash(k)
  <2>1. CASE k \in Evicted
    <3>1. members' = Evicted /\ age' = age /\ answer' = answer /\ step[k] = "compare"
          /\ step'[k] \in {"touch", "ping"}
      BY <1>2, <2>1 DEF CompareHash
    <3>2. k \in Evicted'
      BY <2>1, <3>1 DEF Evicted
    <3> QED
      BY <2>1, <3>1, <3>2
  <2>2. CASE k \notin Evicted
    BY <1>2, <2>2 DEF CompareHash
  <2> QED
    BY <2>1, <2>2
<1>3. CASE Touch(k)
  BY <1>3 DEF Touch
<1>4. CASE Ping(k)
  BY <1>4 DEF Ping
<1> QED
  BY <1>1, <1>2, <1>3, <1>4 DEF Handler

LEMMA ServeFrame ==
    ASSUME HealInv, NEW a \in Agents, Serve(a), Watch(a)
    PROVE  /\ MeshInv' /\ PlaneInv /\ Handler(a)
           /\ UNCHANGED <<phase, timer, known, link, asked>>
           /\ Alive' = Alive
           /\ step[a] # "idle" /\ step'[a] \in {"idle", "touch", "ping"}
           /\ phase[a] \in {"join", "register", "ping", "dead"}
           /\ members' \subseteq members \cup {a}
           /\ calm' = (IF phase[a] = "dead" THEN 0 ELSE calm)
           /\ lag'[a] = (IF step'[a] = "idle" THEN 0 ELSE lag[a])
           /\ \A b \in Agents \ {a} :
                 /\ step'[b] = step[b] /\ answer'[b] = answer[b]
                 /\ sent'[b] = sent[b] /\ age'[b] = age[b] /\ lag'[b] = lag[b]
                 /\ b \in Evicted => b \in members' /\ b \in Evicted'
<1>1. MeshInv' /\ PlaneInv /\ Handler(a)
  BY ServeInv DEF HealInv, MeshInv, Serve
<1>2. UNCHANGED <<phase, timer, known, link, asked>>
  BY <1>1 DEF Serve, agentVars, Handler, Register, CompareHash, Touch, Ping
<1>3. Alive' = Alive
  BY <1>2 DEF Alive
<1>4. step[a] # "idle" /\ step'[a] \in {"idle", "touch", "ping"}
  BY <1>1, HandlerFrame
<1>5. phase[a] \in {"join", "register", "ping", "dead"}
  BY <1>4 DEF HealInv, MeshInv, MeshTypeOK, Phases, RequestInv
<1>6. members' \subseteq members \cup {a}
  BY <1>1, EvictedMembers DEF Handler, Register, CompareHash, Touch, Ping
<1>7. calm' = (IF phase[a] = "dead" THEN 0 ELSE calm)
  BY <1>2 DEF Watch, Aftermath, Disturbance
<1>8. /\ lag'[a] = (IF step'[a] = "idle" THEN 0 ELSE lag[a])
      /\ \A b \in Agents \ {a} : lag'[b] = lag[b]
  BY DEF Serve, HealInv, MeshInv, MeshTypeOK
<1>9. \A b \in Agents \ {a} :
         /\ step'[b] = step[b] /\ answer'[b] = answer[b]
         /\ sent'[b] = sent[b] /\ age'[b] = age[b]
         /\ b \in Evicted => b \in members' /\ b \in Evicted'
  BY <1>1, HandlerFrame DEF Evicted
<1> QED
  BY <1>1, <1>2, <1>3, <1>4, <1>5, <1>6, <1>7, <1>8, <1>9

LEMMA ServeHeard ==
    ASSUME HealInv, NEW a \in Agents, Serve(a), Watch(a)
    PROVE  HeardInv' /\ SilenceInv'
<1> USE ServeFrame
<1>1. members' \subseteq Agents
  BY DEF MeshInv, PlaneInv, PlaneTypeOK
<1>2. HeardInv'
  <2> SUFFICES ASSUME NEW b \in members'
               PROVE  Heard(b)' \/ lag'[b] = MaxLag
    BY DEF HeardInv
  <2>1. CASE b # a
    <3>1. b \in members /\ (Heard(b) \/ lag[b] = MaxLag)
      BY <2>1 DEF HealInv, HealingInv, HeardInv
    <3>2. /\ b \in Agents \ {a}
          /\ phase'[b] = phase[b] /\ step'[b] = step[b] /\ age'[b] = age[b]
          /\ timer'[b] = timer[b] /\ lag'[b] = lag[b] /\ Interval' = Interval
      BY <1>1, <2>1, HealConstants
    <3>3. Heard(b) => Heard(b)'
      BY <3>2 DEF Heard
    <3> QED
      BY <3>1, <3>2, <3>3
  <2>2. CASE b = a /\ step'[a] = "idle"
    <3>1. age'[a] = 0 /\ lag'[a] = 0
      BY <2>2, Served
    <3> QED
      BY <2>2, <3>1 DEF Heard
  <2>3. CASE b = a /\ step'[a] # "idle"
    <3>1. /\ step[a] = "compare" /\ a \in members
          /\ age'[a] = age[a] /\ lag'[a] = lag[a]
      BY <2>3, Served, EvictedMembers
    <3>2. Heard(a) \/ lag[a] = MaxLag
      BY <3>1 DEF HealInv, HealingInv, HeardInv
    <3>3. phase[a] \in {"ping", "dead"}
      BY <3>1 DEF HealInv, MeshInv, RequestInv
    <3> QED
      BY <2>3, <3>1, <3>2, <3>3, HealConstants DEF Heard
  <2> QED
    BY <2>1, <2>2, <2>3
<1>3. SilenceInv'
  <2> SUFFICES ASSUME NEW b \in members'
               PROVE  /\ phase[b] # "new" /\ answer'[b] \in {"ok", "same"}
                      /\ b \in Alive \/ calm' <= age'[b] \/ age'[b] > Ttl
    BY DEF SilenceInv
  <2>0. age'[b] \in Nat
    BY <1>1, NextTypes
  <2>1. CASE b # a
    <3>1. /\ phase[b] # "new" /\ answer[b] \in {"ok", "same"}
          /\ b \in Alive \/ calm <= age[b] \/ age[b] > Ttl
      BY <2>1 DEF HealInv, HealingInv, SilenceInv
    <3> QED
      BY <1>1, <2>0, <2>1, <3>1
  <2>2. CASE b = a
    <3>1. answer'[a] \in {"ok", "same"}
      <4>1. CASE step'[a] = "idle"
        BY <2>2, <4>1, Served
      <4>2. CASE step'[a] # "idle"
        <5>1. answer'[a] = answer[a] /\ a \in members
          BY <4>2, Served, EvictedMembers
        <5> QED
          BY <5>1 DEF HealInv, HealingInv, SilenceInv
      <4> QED
        BY <4>1, <4>2
    <3> QED
      BY <2>0, <2>2, <3>1 DEF Alive
  <2> QED
    BY <2>1, <2>2
<1> QED
  BY <1>2, <1>3

LEMMA ServeKept ==
    ASSUME HealInv, Fits, NEW a \in Agents, Serve(a), Watch(a)
    PROVE  KeptInv' /\ TouchInv'
<1> USE ServeFrame, HealConstants
<1>1. CASE phase[a] = "dead"
  <2>1. KeptInv'
    BY <1>1, CalmKept
  <2>2. TouchInv'
    <3> SUFFICES ASSUME NEW b \in Alive, phase[b] = "ping", step'[b] = "touch"
                 PROVE  b \in Evicted' \/ (calm' = 0 /\ lag'[b] = MaxLag)
      BY DEF TouchInv
    <3>1. b \in Agents \ {a}
      BY <1>1 DEF Alive
    <3>2. b \in Evicted \/ lag[b] = MaxLag
      BY <3>1 DEF HealInv, HealingInv, TouchInv
    <3> QED
      BY <1>1, <3>1, <3>2
  <2> QED
    BY <2>1, <2>2
<1>2. CASE phase[a] # "dead"
  <2> USE <1>2
  <2>1. a \in Alive /\ calm' = calm
    BY DEF Alive
  <2>2. Kept(a) \/ calm <= Slack(a)
    BY <2>1 DEF HealInv, HealingInv, KeptInv
  <2>3. ASSUME NEW b \in Alive, b # a
        PROVE  /\ Kept(b)' \/ calm' <= Slack(b)'
               /\ phase[b] = "ping" /\ step'[b] = "touch" =>
                     b \in Evicted' \/ (calm' = 0 /\ lag'[b] = MaxLag)
    <3>1. b \in Agents \ {a}
      BY <2>3 DEF Alive
    <3>2. CASE Kept(b)
      <4>1. b \in members'
        BY <3>1, <3>2, KeptIsFresh
      <4> QED
        BY <2>1, <3>1, <3>2, <4>1, KeptIsFresh DEF Kept, Registered, Heard
    <3>3. CASE ~Kept(b)
      <4>1. calm <= Slack(b)
        BY <2>3, <3>3 DEF HealInv, HealingInv, KeptInv
      <4>2. Slack(b)' = Slack(b)
        BY <3>1 DEF Slack
      <4>3. phase[b] = "ping" /\ step[b] = "touch" =>
               b \in Evicted \/ (calm = 0 /\ lag[b] = MaxLag)
        BY <2>3 DEF HealInv, HealingInv, TouchInv
      <4> QED
        BY <2>1, <3>1, <4>1, <4>2, <4>3
    <3> QED
      BY <3>2, <3>3
  <2>4. CASE step'[a] # "idle"
    <3>1. /\ step[a] = "compare" /\ phase[a] = "ping" /\ a \in members /\ a \in Evicted'
          /\ age'[a] = age[a] /\ lag'[a] = lag[a] /\ a \in members'
      <4>1. step[a] = "compare" /\ a \in Evicted /\ a \in Evicted' /\ age'[a] = age[a]
        BY <2>4, Served
      <4>2. phase[a] = "ping"
        BY <4>1 DEF HealInv, MeshInv, RequestInv
      <4>3. a \in members /\ a \in members'
        BY <4>1, EvictedMembers, HandlerFrame
      <4> QED
        BY <2>4, <4>1, <4>2, <4>3
    <3>2. Kept(a)' \/ calm' <= Slack(a)'
      <4>1. CASE Kept(a)
        BY <2>4, <3>1, <4>1 DEF Kept, Registered, Heard
      <4>2. CASE calm <= Slack(a)
        BY <2>1, <2>4, <3>1, <4>2 DEF Slack
      <4> QED
        BY <2>2, <4>1, <4>2
    <3> QED
      BY <2>3, <3>1, <3>2 DEF KeptInv, TouchInv
  <2>5. CASE step'[a] = "idle" /\ a \in members'
    <3>1. Kept(a)'
      BY <2>5, Served DEF Kept, Registered, Heard
    <3> QED
      BY <2>3, <2>5, <3>1 DEF KeptInv, TouchInv
  <2>6. CASE a \notin members'
    <3>1. calm' <= Slack(a)'
      <4>1. CASE step[a] \in {"compare", "ping"} /\ answer'[a] = "unknown" /\ a \notin Evicted
                 /\ step'[a] = "idle"
        <5>1. phase[a] = "ping"
          BY <4>1 DEF HealInv, MeshInv, RequestInv
        <5>2. calm <= Slack(a) /\ Slack(a) = Interval + lag[a]
          BY <2>2, <4>1, <5>1, KeptIsFresh DEF Slack
        <5>3. Slack(a)' = Interval + MaxLag + lag'[a] /\ lag'[a] = 0
          BY <4>1, <5>1 DEF Slack
        <5> QED
          BY <2>1, <5>2, <5>3, HealTypes
      <4>2. CASE step[a] = "touch" /\ a \notin members
        <5>1. phase[a] = "ping"
          BY <4>2 DEF HealInv, MeshInv, RequestInv
        <5>2. calm = 0
          BY <2>1, <4>2, <5>1, EvictedMembers DEF HealInv, HealingInv, TouchInv
        <5> QED
          BY <2>1, <5>2, NextTypes
      <4> QED
        BY <2>6, <4>1, <4>2, Served
    <3>2. step'[a] = "idle"
      BY <2>6, Served
    <3> QED
      BY <2>3, <3>1, <3>2 DEF KeptInv, TouchInv
  <2> QED
    BY <2>4, <2>5, <2>6
<1> QED
  BY <1>1, <1>2

LEMMA ServeKnown ==
    ASSUME HealInv, Fits, NEW a \in Agents, Serve(a), Watch(a)
    PROVE  KnownInv'
<1> USE ServeFrame, HealConstants
<1>0. calm \in Nat
  BY HealTypes
<1>1. CASE phase[a] = "dead" \/ calm <= Settle
  BY <1>0, <1>1, CalmKnown
<1>2. CASE phase[a] # "dead" /\ calm > Settle
  <2>1. /\ a \in Alive /\ calm' = calm
        /\ Evicted = Alive /\ a \in Evicted /\ Kept(a)
    BY <1>2, SettledStore, SettledKept DEF Alive
  <2>2. phase[a] = "ping"
    BY <1>2, <2>1 DEF Kept, Registered
  <2>3. step[a] \in {"compare", "touch", "ping"}
    BY <2>2 DEF HealInv, MeshInv, RequestInv, PlaneInv, PlaneTypeOK, HandlerSteps
  <2>4. vpn' = vpn /\ (CompareHash(a) \/ Touch(a) \/ Ping(a))
    BY <2>3 DEF Handler, Register, CompareHash, Touch, Ping
  <2>5. \A b : Now(b)' = Now(b)
    BY <2>4 DEF Now, ViewOf
  <2>6. ASSUME NEW b \in Alive, b # a
        PROVE  /\ phase[b] \in {"sleep", "ping"} /\ known[b] # Now(b) =>
                     calm <= Settle + Window(b)' + lag'[b]
               /\ Unread(b)' /\ sent'[b] # Now(b) => calm <= Settle + lag'[b]
               /\ phase[b] \in {"join", "register"} /\ step'[b] = "idle" =>
                     calm <= Settle + lag'[b]
    <3>1. b \in Agents \ {a}
      BY <2>6 DEF Alive
    <3>2. /\ step'[b] = step[b] /\ answer'[b] = answer[b] /\ sent'[b] = sent[b]
          /\ lag'[b] = lag[b]
      BY <3>1
    <3>3. Window(b)' = Window(b) /\ (Unread(b)' => Unread(b))
      BY <3>2 DEF Window, Unread
    <3> QED
      BY <2>6, <3>2, <3>3 DEF HealInv, HealingInv, KnownInv
  <2>7. ASSUME known[a] # Now(a)
        PROVE  calm <= Settle + Window(a)' + lag'[a]
    <3>1. calm <= Settle + Window(a) + lag[a] /\ lag[a] \in 0 .. MaxLag
      BY <2>1, <2>2, <2>7, HealTypes DEF HealInv, HealingInv, KnownInv
    <3>2. CASE CompareHash(a)
      <4>1. step[a] = "compare" /\ asked[a] = known[a]
        BY <2>2, <3>2 DEF CompareHash, HealInv, MeshInv, AskedInv
      <4>2. known[a] # ViewOf(a, Evicted, vpn)
        BY <2>1, <2>7 DEF Now
      <4>3. step'[a] = "ping"
        BY <2>1, <3>2, <4>1, <4>2 DEF CompareHash, HashOf, Answer, PlaneInv, PlaneTypeOK
      <4>4. Window(a)' = Window(a) /\ lag'[a] = lag[a]
        BY <2>2, <4>1, <4>3 DEF Window
      <4> QED
        BY <3>1, <4>4
    <3>3. CASE Touch(a)
      <4>1. step[a] = "touch" /\ step'[a] = "idle" /\ answer'[a] = "same"
        BY <3>3 DEF Touch, Answer, PlaneInv, PlaneTypeOK
      <4>2. Window(a) = 0 /\ Window(a)' = MaxLag /\ lag'[a] = 0
        BY <2>2, <4>1 DEF Window
      <4> QED
        BY <1>0, <3>1, <4>2
    <3>4. CASE Ping(a)
      <4>1. step[a] = "ping" /\ step'[a] = "idle" /\ answer'[a] = "ok"
        BY <2>1, <3>4 DEF Ping, Answer, AnswerView, PlaneInv, PlaneTypeOK
      <4>2. /\ Window(a) = MaxLag + Interval /\ Window(a)' = Interval + 2 * MaxLag
            /\ lag'[a] = 0
        BY <2>2, <4>1 DEF Window
      <4> QED
        BY <1>0, <3>1, <4>2
    <3> QED
      BY <2>4, <3>2, <3>3, <3>4
  <2>8. ASSUME Unread(a)'
        PROVE  sent'[a] = Now(a)
    <3>1. step'[a] = "idle" /\ answer'[a] = "ok"
      BY <2>8 DEF Unread
    <3>2. Ping(a)
      <4>1. ~CompareHash(a) /\ ~Touch(a)
        BY <2>1, <3>1 DEF CompareHash, Touch, Answer, PlaneInv, PlaneTypeOK
      <4> QED
        BY <2>4, <4>1
    <3>3. sent' = [sent EXCEPT ![a] = ViewOf(a, Evicted, vpn)]
      BY <2>1, <3>2 DEF Ping, AnswerView
    <3> QED
      BY <2>1, <3>3 DEF Now, PlaneInv
  <2>9. ASSUME NEW b \in Alive
        PROVE  /\ phase[b] \in {"sleep", "ping"} /\ known[b] # Now(b) =>
                     calm <= Settle + Window(b)' + lag'[b]
               /\ Unread(b)' /\ sent'[b] # Now(b) => calm <= Settle + lag'[b]
               /\ phase[b] \in {"join", "register"} /\ step'[b] = "idle" =>
                     calm <= Settle + lag'[b]
    BY <2>2, <2>6, <2>7, <2>8
  <2> QED
    BY <2>1, <2>5, <2>9 DEF KnownInv
<1> QED
  BY <1>0, <1>1, <1>2

LEMMA ServeHealing ==
    ASSUME HealInv, NEW a \in Agents, Serve(a), Watch(a)
    PROVE  HealingInv'
<1>1. HealTypeOK'
  BY ServeFrame, HealConstants DEF HealInv, HealingInv, HealTypeOK
<1>2. LinkInv'
  BY ServeFrame DEF HealInv, HealingInv, LinkInv
<1> QED
  BY <1>1, <1>2, ServeHeard, ServeKept, ServeKnown, HealConstants DEF HealingInv

----------------------------------------------------------------------------
(* The steps of one agent *)

\* A disturbance that leaves the store alone.
LEMMA DisturbedHealing ==
    ASSUME HealInv, MeshInv', NEW a \in Agents, Disturbance,
           UNCHANGED <<members, age, answer, timer, known, link, lag>>,
           \A b \in Agents \ {a} : phase'[b] = phase[b] /\ step'[b] = step[b],
           \/ phase'[a] = "dead"
           \/ phase'[a] = "join" /\ a \notin members
    PROVE  HealingInv'
<1> USE DEF Disturbance
<1>1. HealTypeOK'
  BY HealConstants DEF HealTypeOK
<1>2. HeardInv'
  <2> SUFFICES ASSUME NEW b \in members
               PROVE  Heard(b)' \/ lag[b] = MaxLag
    BY DEF HeardInv
  <2>1. CASE b = a
    BY <2>1 DEF Heard
  <2>2. CASE b # a
    <3>1. b \in Agents \ {a} /\ Interval' = Interval
      BY <2>2, HealConstants DEF HealInv, MeshInv, PlaneInv, PlaneTypeOK
    <3>2. phase'[b] = phase[b] /\ step'[b] = step[b]
      BY <3>1
    <3>3. Heard(b) => Heard(b)'
      BY <3>1, <3>2 DEF Heard
    <3> QED
      BY <3>3 DEF HealInv, HealingInv, HeardInv
  <2> QED
    BY <2>1, <2>2
<1>3. SilenceInv'
  <2> SUFFICES ASSUME NEW p \in members
               PROVE  phase'[p] # "new" /\ answer[p] \in {"ok", "same"} /\ calm' <= age[p]
    BY DEF SilenceInv
  <2>1. p \in Agents
    BY DEF HealInv, MeshInv, PlaneInv, PlaneTypeOK
  <2>2. phase'[p] # "new"
    BY <2>1 DEF HealInv, HealingInv, SilenceInv
  <2> QED
    BY <2>1, <2>2, HealTypes DEF HealInv, HealingInv, SilenceInv
<1>4. LinkInv'
  BY DEF HealInv, HealingInv, LinkInv
<1>5. ASSUME Fits PROVE TouchInv'
  <2> SUFFICES ASSUME NEW b \in Alive', phase'[b] = "ping", step'[b] = "touch"
               PROVE  b \in Evicted' \/ lag[b] = MaxLag
    BY DEF TouchInv
  <2>1. b \in Agents \ {a}
    BY DEF Alive
  <2>2. b \in Alive /\ phase[b] = "ping" /\ step[b] = "touch"
    BY <2>1 DEF Alive
  <2>3. b \in Evicted \/ lag[b] = MaxLag
    BY <1>5, <2>2 DEF HealInv, HealingInv, TouchInv
  <2> QED
    BY <2>3 DEF Evicted
<1>6. KeptInv'
  BY CalmKept
<1>7. KnownInv'
  BY CalmKnown, HealConstants
<1> QED
  BY <1>1, <1>2, <1>3, <1>4, <1>5, <1>6, <1>7, HealConstants DEF HealingInv

\* What KnownInv says of one agent.
KnownOf(a) ==
    /\ phase[a] \in {"sleep", "ping"} /\ known[a] # Now(a) =>
          calm <= Settle + Window(a) + lag[a]
    /\ Unread(a) /\ sent[a] # Now(a) => calm <= Settle + lag[a]
    /\ phase[a] \in {"join", "register"} /\ step[a] = "idle" => calm <= Settle + lag[a]

\* A step in which one agent goes on and nothing is disturbed.
LEMMA OneMoves ==
    ASSUME HealInv, NEW a \in Alive,
           UNCHANGED <<members, age, vpn, answer, sent, lag, calm>>,
           \A b \in Agents \ {a} :
               /\ phase'[b] = phase[b] /\ step'[b] = step[b] /\ timer'[b] = timer[b]
               /\ known'[b] = known[b] /\ link'[b] = link[b],
           phase'[a] \notin {"new", "dead"}, step'[a] # "touch",
           a \in members => Heard(a)' \/ lag[a] = MaxLag,
           known'[a] # NoView => DOMAIN link'[a].peers = DOMAIN known'[a].peers,
           Fits => Kept(a)' \/ calm <= Slack(a)',
           Fits => KnownOf(a)'
    PROVE  HealingInv'
<1>1. /\ Alive' = Alive /\ a \in Agents /\ members \subseteq Agents
      /\ \A b \in Agents : Now(b)' = Now(b)
  <2>1. Alive' = Alive
    BY DEF Alive
  <2> QED
    BY <2>1 DEF Alive, Now, ViewOf, HealInv, MeshInv, PlaneInv, PlaneTypeOK
<1>2. ASSUME NEW b \in Agents \ {a}
      PROVE  /\ Heard(b)' = Heard(b) /\ Kept(b)' = Kept(b) /\ Slack(b)' = Slack(b)
             /\ KnownOf(b)' = KnownOf(b)
  <2>1. /\ phase'[b] = phase[b] /\ step'[b] = step[b] /\ timer'[b] = timer[b]
        /\ known'[b] = known[b] /\ Interval' = Interval /\ Settle' = Settle
        /\ Now(b)' = Now(b)
    BY <1>1, HealConstants
  <2>2. Heard(b)' = Heard(b) /\ Registered(b)' = Registered(b) /\ Slack(b)' = Slack(b)
        /\ Window(b)' = Window(b) /\ Unread(b)' = Unread(b)
    BY <2>1 DEF Heard, Registered, Slack, Window, Unread
  <2> QED
    BY <2>1, <2>2 DEF Kept, KnownOf
<1>3. HeardInv'
  BY <1>1, <1>2 DEF HealInv, HealingInv, HeardInv
<1>4. SilenceInv'
  BY <1>1 DEF HealInv, HealingInv, SilenceInv
<1>5. LinkInv'
  BY DEF HealInv, HealingInv, LinkInv
<1>6. ASSUME Fits
      PROVE  KeptInv' /\ TouchInv' /\ KnownInv'
  <2>1. KeptInv /\ TouchInv /\ KnownInv
    BY <1>6 DEF HealInv, HealingInv
  <2>2. ASSUME NEW b \in Alive
        PROVE  (Kept(b)' \/ calm <= Slack(b)') /\ KnownOf(b)'
    <3>1. CASE b = a
      BY <1>6, <3>1
    <3>2. CASE b # a
      <4>1. b \in Agents \ {a}
        BY <3>2 DEF Alive
      <4>2. (Kept(b) \/ calm <= Slack(b)) /\ KnownOf(b)
        BY <2>1 DEF KeptInv, KnownInv, KnownOf
      <4> QED
        BY <1>2, <4>1, <4>2
    <3> QED
      BY <3>1, <3>2
  <2>3. TouchInv'
    BY <1>1, <2>1 DEF TouchInv, Evicted, Alive
  <2>4. KeptInv'
    BY <1>1, <2>2 DEF KeptInv
  <2>5. KnownInv'
    BY <1>1, <2>2 DEF KnownInv, KnownOf
  <2> QED
    BY <2>3, <2>4, <2>5
<1> QED
  BY <1>3, <1>4, <1>5, <1>6, HealConstants DEF HealInv, HealingInv, HealTypeOK

\* An agent asks.
LEMMA AskingHealing ==
    ASSUME HealInv, NEW a \in Agents, Wake(a) \/ Retry(a) \/ GetUnknown(a), Watch(a)
    PROVE  HealingInv'
<1>1. /\ UNCHANGED <<members, age, vpn, answer, sent, timer, known, link, lag, calm>>
      /\ phase'[a] \in {"ping", "register"} /\ step'[a] \in {"compare", "register"}
      /\ \A b \in Agents \ {a} : phase'[b] = phase[b] /\ step'[b] = step[b]
  <2>1. UNCHANGED <<members, age, vpn, answer, sent, timer, known, link, lag>>
    BY DEF Wake, Retry, GetUnknown, Ask, storeVars
  <2>2. /\ phase'[a] \in {"ping", "register"} /\ step'[a] \in {"compare", "register"}
        /\ \A b \in Agents \ {a} : phase'[b] = phase[b] /\ step'[b] = step[b]
    BY DEF Wake, Retry, GetUnknown, Ask, Enter, HealInv, MeshInv, MeshTypeOK,
           PlaneInv, PlaneTypeOK
  <2> QED
    BY <2>1, <2>2 DEF Watch, Aftermath
<1>2. a \in Alive /\ phase[a] \in {"sleep", "retry", "register", "ping"}
  BY DEF Wake, Retry, GetUnknown, Answered, Alive
<1>3. /\ calm \in Nat /\ age[a] \in Nat /\ lag[a] \in 0 .. MaxLag /\ Interval' = Interval
      /\ MaxLag \in Nat /\ Interval \in Nat
  BY HealTypes, HealConstants
<1>4. known'[a] # NoView => DOMAIN link'[a].peers = DOMAIN known'[a].peers
  BY <1>1 DEF HealInv, HealingInv, LinkInv
<1>5. ASSUME Fits
      PROVE  Kept(a) \/ calm <= Slack(a)
  BY <1>2, <1>5 DEF HealInv, HealingInv, KeptInv
<1>6. CASE Wake(a)
  <2>1. /\ phase[a] = "sleep" /\ timer[a] = 0 /\ step[a] = "idle"
        /\ phase'[a] = "ping" /\ step'[a] = "compare"
    BY <1>6 DEF Wake, Ask, Enter, HealInv, MeshInv, MeshTypeOK, PlaneInv, PlaneTypeOK
  <2>2. Heard(a) => Heard(a)'
    BY <1>1, <1>3, <2>1 DEF Heard
  <2>3. a \in members => Heard(a)' \/ lag[a] = MaxLag
    BY <2>2 DEF HealInv, HealingInv, HeardInv
  <2>4. ASSUME Fits
        PROVE  Kept(a)' \/ calm <= Slack(a)'
    <3>1. Slack(a)' = Slack(a)
      BY <1>1, <1>3, <2>1 DEF Slack
    <3>2. Kept(a) => Kept(a)'
      BY <1>1, <2>1, <2>2 DEF Kept, Registered
    <3> QED
      BY <1>5, <2>4, <3>1, <3>2
  <2>5. ASSUME Fits
        PROVE  KnownOf(a)'
    <3>1. Window(a)' = Window(a) /\ ~Unread(a)'
      BY <1>1, <1>3, <2>1 DEF Window, Unread
    <3>2. Now(a)' = Now(a)
      BY <1>1, <1>2 DEF Now, ViewOf, Alive
    <3>3. known[a] # Now(a) => calm <= Settle + Window(a) + lag[a]
      BY <1>2, <2>1, <2>5 DEF HealInv, HealingInv, KnownInv
    <3> QED
      BY <1>1, <2>1, <3>1, <3>2, <3>3, HealConstants DEF KnownOf
  <2> QED
    BY <1>1, <1>2, <1>4, <2>3, <2>4, <2>5, OneMoves
<1>7. CASE Retry(a) \/ GetUnknown(a)
  <2>1. phase'[a] = "register" /\ step'[a] = "register"
    BY <1>7 DEF Retry, GetUnknown, Ask, Enter, HealInv, MeshInv, MeshTypeOK,
                PlaneInv, PlaneTypeOK
  <2>2. Heard(a)'
    BY <2>1 DEF Heard
  <2>3. ASSUME Fits
        PROVE  calm <= Slack(a)'
    <3>1. Slack(a)' = Interval + MaxLag + lag[a]
      BY <1>1, <1>3, <2>1 DEF Slack
    <3>2. ~Kept(a) /\ Slack(a) <= Interval + MaxLag + lag[a]
      <4>1. CASE Retry(a)
        <5>1. phase[a] = "retry" /\ timer[a] = 0
          BY <4>1 DEF Retry
        <5> QED
          BY <1>3, <5>1 DEF Kept, Registered, Slack
      <4>2. CASE GetUnknown(a)
        <5>1. answer[a] = "unknown" /\ step[a] = "idle"
          BY <4>2 DEF GetUnknown, Answered
        <5>2. a \notin members
          BY <5>1 DEF HealInv, HealingInv, SilenceInv
        <5>3. phase[a] = "ping"
          BY <4>2, <5>1 DEF GetUnknown, Answered, HealInv, MeshInv, RequestInv
        <5> QED
          BY <1>3, <5>1, <5>2, <5>3 DEF Kept, Slack
      <4> QED
        BY <1>7, <4>1, <4>2
    <3> QED
      BY <1>3, <1>5, <2>3, <3>1, <3>2, HealTypes
  <2>4. KnownOf(a)'
    BY <2>1 DEF KnownOf, Unread
  <2> QED
    BY <1>1, <1>2, <1>4, <2>2, <2>3, <2>4, OneMoves
<1> QED
  BY <1>6, <1>7

\* An agent looks at an answer.
LEMMA AnsweredHealing ==
    ASSUME HealInv, NEW a \in Agents,
           Join(a) \/ GetView(a) \/ GetNotModified(a) \/ GetNothing(a), Watch(a)
    PROVE  HealingInv'
<1>1. /\ UNCHANGED <<members, age, vpn, step, answer, sent, lag, calm>>
      /\ phase'[a] \in {"sleep", "retry"} /\ timer'[a] \in 0 .. Interval
      /\ \A b \in Agents \ {a} : phase'[b] = phase[b] /\ timer'[b] = timer[b]
      /\ \A b \in Agents \ {a} : known'[b] = known[b] /\ link'[b] = link[b]
  <2>1. UNCHANGED <<members, age, vpn, step, answer, sent, lag>>
    BY DEF Join, GetView, GetNotModified, GetNothing, planeVars, storeVars, requestVars
  <2>2. /\ phase'[a] \in {"sleep", "retry"} /\ timer'[a] \in 0 .. Interval
        /\ \A b \in Agents \ {a} : phase'[b] = phase[b] /\ timer'[b] = timer[b]
    BY HealConstants
    DEF Join, GetView, GetNotModified, GetNothing, Sleep, Enter, HealInv, MeshInv, MeshTypeOK
  <2>3. \A b \in Agents \ {a} : known'[b] = known[b] /\ link'[b] = link[b]
    BY DEF Join, GetView, GetNotModified, GetNothing, HealInv, MeshInv, RequestInv
  <2> QED
    BY <2>1, <2>2, <2>3 DEF Watch, Aftermath
<1>2. a \in Alive /\ phase[a] \in {"join", "register", "ping"} /\ step[a] = "idle"
  BY DEF Join, GetView, GetNotModified, GetNothing, Answered, Alive
<1>3. /\ calm \in Nat /\ age[a] \in Nat /\ lag[a] \in 0 .. MaxLag /\ Interval' = Interval
      /\ MaxLag \in Nat /\ Interval \in Nat /\ Settle \in Nat /\ Window(a) \in Nat
      /\ Window(a)' = MaxLag + Interval - timer'[a] \/ phase'[a] # "sleep"
  BY HealTypes, HealConstants DEF Window
<1>4. known'[a] # NoView => DOMAIN link'[a].peers = DOMAIN known'[a].peers
  <2>1. CASE Join(a)
    BY <2>1 DEF Join, HealInv, MeshInv, RequestInv
  <2>2. CASE GetView(a)
    <3>1. known'[a] = sent[a] /\ link'[a] = Updated(link[a], sent[a])
      BY <2>2 DEF GetView, HealInv, MeshInv, RequestInv
    <3> QED
      BY <3>1 DEF Updated
  <2>3. CASE GetNotModified(a) \/ GetNothing(a)
    BY <2>3 DEF GetNotModified, GetNothing, HealInv, HealingInv, LinkInv
  <2> QED
    BY <2>1, <2>2, <2>3
<1>5. Heard(a) => Heard(a)'
  <2>1. CASE phase'[a] = "sleep"
    BY <1>1, <1>2, <1>3, <2>1 DEF Heard
  <2>2. CASE phase'[a] = "retry"
    BY <2>2 DEF Heard
  <2> QED
    BY <1>1, <2>1, <2>2
<1>6. a \in members => Heard(a)' \/ lag[a] = MaxLag
  BY <1>5 DEF HealInv, HealingInv, HeardInv
<1>7. phase'[a] = "retry" => a \notin members
  <2> SUFFICES ASSUME phase'[a] = "retry"
               PROVE  answer[a] = "none"
    BY DEF HealInv, HealingInv, SilenceInv
  <2> QED
    BY DEF Join, GetView, GetNotModified, GetNothing, Sleep, Enter, HealInv, MeshInv, MeshTypeOK
<1>8. ASSUME Fits
      PROVE  Kept(a)' \/ calm <= Slack(a)'
  <2>1. CASE Kept(a)
    BY <1>1, <1>5, <1>7, <2>1 DEF Kept, Registered
  <2>2. CASE ~Kept(a)
    <3>1. answer[a] # "unknown"
      BY DEF Join, GetView, GetNotModified, GetNothing
    <3>2. calm <= Slack(a) /\ Slack(a) = lag[a]
      BY <1>2, <1>8, <2>2, <3>1 DEF Slack, HealInv, HealingInv, KeptInv
    <3>3. Slack(a)' = Interval - timer'[a] + lag[a]
      BY <1>1, <1>3 DEF Slack
    <3> QED
      BY <1>1, <1>3, <3>2, <3>3
  <2> QED
    BY <2>1, <2>2
<1>9. ASSUME Fits
      PROVE  KnownOf(a)'
  <2> SUFFICES ASSUME phase'[a] = "sleep", known'[a] # Now(a)
               PROVE  calm <= Settle + Window(a)' + lag[a]
    <3>1. Now(a)' = Now(a) /\ ~Unread(a)'
      BY <1>1, <1>2 DEF Now, ViewOf, Alive, Unread
    <3> QED
      BY <1>1, <3>1, HealConstants DEF KnownOf
  <2>1. Window(a)' = MaxLag + Interval - timer'[a]
    BY <1>3
  <2>2. CASE Join(a) \/ GetView(a)
    <3>1. known'[a] = sent[a] /\ Unread(a)
      BY <2>2 DEF Join, GetView, Answered, Unread, HealInv, MeshInv, RequestInv
    <3>2. calm <= Settle + lag[a]
      BY <1>2, <1>9, <3>1 DEF HealInv, HealingInv, KnownInv
    <3> QED
      BY <1>1, <1>3, <2>1, <3>2
  <2>3. CASE GetNotModified(a)
    <3>1. known' = known /\ answer[a] = "same"
      BY <2>3 DEF GetNotModified
    <3>2. phase[a] = "ping"
      BY <1>2, <2>3, <3>1 DEF GetNotModified, Answered, HealInv, MeshInv, RequestInv
    <3>3. Window(a) = MaxLag
      BY <1>2, <3>1, <3>2 DEF Window
    <3>4. calm <= Settle + Window(a) + lag[a]
      BY <1>2, <1>9, <3>1, <3>2 DEF HealInv, HealingInv, KnownInv
    <3> QED
      BY <1>1, <1>3, <2>1, <3>3, <3>4
  <2>4. CASE GetNothing(a)
    <3>1. a \notin members /\ answer[a] = "none"
      BY <2>4 DEF GetNothing, HealInv, HealingInv, SilenceInv
    <3>2. calm <= Slack(a) /\ Slack(a) = lag[a]
      BY <1>2, <1>9, <3>1 DEF Kept, Slack, HealInv, HealingInv, KeptInv
    <3> QED
      BY <1>1, <1>3, <2>1, <3>2
  <2> QED
    BY <2>2, <2>3, <2>4
<1> QED
  BY <1>1, <1>2, <1>4, <1>6, <1>8, <1>9, OneMoves

----------------------------------------------------------------------------
(* A restart of the server, and time *)

LEMMA RestartHealing ==
    ASSUME HealInv, RestartServer, Disturbance
    PROVE  HealingInv'
<1>1. MeshInv'
  BY RestartServerInv DEF HealInv
<1>2. /\ members' = {} /\ calm' = 0 /\ UNCHANGED <<known, link>>
      /\ \A a \in Agents : step'[a] = "idle"
  BY DEF RestartServer, ServerRestart, Disturbance, agentVars
<1>3. HealTypeOK' /\ HeardInv' /\ SilenceInv'
  BY <1>2, HealConstants DEF HealTypeOK, HeardInv, SilenceInv
<1>4. LinkInv'
  BY <1>2 DEF HealInv, HealingInv, LinkInv
<1>5. TouchInv'
  BY <1>2 DEF TouchInv, Alive
<1> QED
  BY <1>1, <1>2, <1>3, <1>4, <1>5, CalmKept, CalmKnown, HealConstants DEF HealingInv

\* A second, late or not.
LEMMA TickFrame ==
    ASSUME HealInv, Tick, Wait
    PROVE  /\ MeshInv'
           /\ UNCHANGED <<members, vpn, step, asked, answer, sent, phase, known, link>>
           /\ Alive' = Alive /\ Interval' = Interval
           /\ calm' \in 0 .. HealTime + 1 /\ calm' <= calm + 1
           /\ Late => calm' = 0
           /\ \A b \in Agents :
                 /\ age'[b] = (IF age[b] > Ttl THEN age[b] ELSE age[b] + 1)
                 /\ timer'[b] = (IF timer[b] > 0 THEN timer[b] - 1 ELSE 0)
                 /\ lag'[b] = (IF Busy(b) /\ lag[b] < MaxLag THEN lag[b] + 1 ELSE lag[b])
                 /\ ~Late /\ Busy(b) => lag[b] < MaxLag /\ lag'[b] = lag[b] + 1
<1>1. MeshInv'
  BY TickInv DEF HealInv
<1>2. /\ UNCHANGED <<members, vpn, step, asked, answer, sent, phase, known, link>>
      /\ Alive' = Alive /\ Interval' = Interval
  BY HealConstants DEF Tick, requestVars, Alive
<1>3. /\ calm' \in 0 .. HealTime + 1 /\ calm' <= calm + 1
      /\ Late => calm' = 0
  <2>1. calm \in 0 .. HealTime + 1 /\ HealTime \in Nat
    BY HealConstants DEF HealInv, HealingInv, HealTypeOK
  <2> QED
    BY <2>1 DEF Wait, Disturbance
<1>4. ASSUME NEW b \in Agents
      PROVE  /\ age'[b] = (IF age[b] > Ttl THEN age[b] ELSE age[b] + 1)
             /\ timer'[b] = (IF timer[b] > 0 THEN timer[b] - 1 ELSE 0)
             /\ lag'[b] = (IF Busy(b) /\ lag[b] < MaxLag THEN lag[b] + 1 ELSE lag[b])
             /\ ~Late /\ Busy(b) => lag[b] < MaxLag /\ lag'[b] = lag[b] + 1
  <2>1. lag[b] \in 0 .. MaxLag
    BY HealTypes
  <2>2. ~Late /\ Busy(b) => lag[b] < MaxLag
    BY <2>1, HealConstants DEF Late
  <2> QED
    BY <2>2 DEF Tick, Second, Older
<1> QED
  BY <1>1, <1>2, <1>3, <1>4

\* What was heard of an agent stays in time as long as the agent is.
LEMMA TickHeard ==
    ASSUME HealInv, Tick, Wait, NEW b \in Agents, Busy(b) => lag[b] < MaxLag
    PROVE  Heard(b) => Heard(b)'
<1> USE TickFrame, HealTypes, HealConstants
<1>0. /\ age'[b] <= age[b] + 1 /\ age[b] \in Nat /\ age'[b] \in Nat
      /\ timer[b] \in Nat /\ lag[b] \in Nat
  OBVIOUS
<1>1. CASE phase[b] = "sleep" /\ timer[b] > 0
  <2>1. ~Busy(b)
    BY <1>1 DEF Busy
  <2>2. timer'[b] = timer[b] - 1 /\ lag'[b] = lag[b] /\ phase'[b] = "sleep"
    BY <1>1, <2>1
  <2> QED
    BY <1>0, <1>1, <2>2 DEF Heard
<1>2. CASE phase[b] = "sleep" /\ timer[b] = 0
  <2>1. timer'[b] = 0 /\ lag'[b] = lag[b] + 1 /\ phase'[b] = "sleep"
    BY <1>2 DEF Busy
  <2> QED
    BY <1>0, <1>2, <2>1 DEF Heard
<1>3. CASE phase[b] \in {"join", "register", "ping"}
  <2>1. lag'[b] = lag[b] + 1 /\ phase'[b] = phase[b] /\ step'[b] = step[b]
    BY <1>3 DEF Busy
  <2> QED
    BY <1>0, <1>3, <2>1 DEF Heard
<1>4. CASE phase[b] \notin {"sleep", "join", "register", "ping"}
  BY <1>4 DEF Heard
<1> QED
  BY <1>1, <1>2, <1>3, <1>4

\* A second in time lets everything that is counted grow by one.
LEMMA TickWindows ==
    ASSUME HealInv, Tick, Wait, ~Late, NEW b \in Agents
    PROVE  /\ Slack(b)' = Slack(b) + 1 \/ phase[b] \in {"new", "dead"}
           /\ Window(b)' + lag'[b] = Window(b) + lag[b] + 1 \/ phase[b] \notin {"sleep", "ping"}
           /\ lag'[b] = lag[b] + 1 \/ phase[b] \notin {"join", "register", "ping"}
           /\ Unread(b)' = Unread(b)
<1> USE TickFrame, HealTypes, HealConstants
<1>1. /\ timer[b] \in Nat /\ lag[b] \in Nat /\ phase'[b] = phase[b]
      /\ step'[b] = step[b] /\ answer'[b] = answer[b]
      /\ phase[b] \in Phases
  BY DEF HealInv, MeshInv, MeshTypeOK
<1>2. CASE phase[b] \in {"sleep", "retry"} /\ timer[b] > 0
  <2>1. ~Busy(b)
    BY <1>2 DEF Busy
  <2>2. timer'[b] = timer[b] - 1 /\ lag'[b] = lag[b]
    BY <1>2, <2>1
  <2> QED
    BY <1>1, <1>2, <2>2 DEF Slack, Window, Unread
<1>3. CASE phase[b] \in {"sleep", "retry"} /\ timer[b] = 0
  <2>1. timer'[b] = 0 /\ lag'[b] = lag[b] + 1
    BY <1>3 DEF Busy
  <2> QED
    BY <1>1, <1>3, <2>1 DEF Slack, Window, Unread
<1>4. CASE phase[b] \in {"join", "register", "ping"}
  <2>1. lag'[b] = lag[b] + 1
    BY <1>4 DEF Busy
  <2>2. Window(b)' = Window(b) \/ phase[b] # "ping"
    BY <1>1, <1>4 DEF Window
  <2>3. Slack(b)' = Slack(b) + 1
    BY <1>1, <1>4, <2>1 DEF Slack
  <2>4. Window(b) \in Nat
    OBVIOUS
  <2>5. Unread(b)' = Unread(b)
    BY <1>1 DEF Unread
  <2> QED
    BY <1>1, <1>4, <2>1, <2>2, <2>3, <2>4, <2>5
<1>5. CASE phase[b] \in {"new", "dead"}
  BY <1>1, <1>5 DEF Unread
<1> QED
  BY <1>1, <1>2, <1>3, <1>4, <1>5 DEF Phases

LEMMA TickKept ==
    ASSUME HealInv, Tick, Wait, Fits
    PROVE  KeptInv' /\ TouchInv' /\ KnownInv'
<1> USE TickFrame
<1>0. \A b \in Alive : b \in Agents /\ phase[b] \notin {"new", "dead"}
  BY DEF Alive
<1>1. KeptInv /\ TouchInv /\ KnownInv
  BY DEF HealInv, HealingInv
<1>2. CASE Late
  <2>1. KeptInv' /\ KnownInv'
    BY <1>2, CalmKept, CalmKnown, HealConstants
  <2>2. TouchInv'
    <3> SUFFICES ASSUME NEW b \in Alive, phase[b] = "ping", step[b] = "touch",
                        lag'[b] # MaxLag
                 PROVE  b \in Evicted'
      BY <1>2 DEF TouchInv
    <3>1. b \in Agents /\ lag[b] < MaxLag
      BY <1>0, HealTypes, HealConstants
    <3>2. b \in Evicted
      BY <1>1, <3>1, HealConstants DEF TouchInv
    <3>3. b \in members /\ Heard(b)
      BY <3>1, <3>2, EvictedMembers, HealConstants DEF HealInv, HealingInv, HeardInv
    <3>4. age[b] <= Interval + lag[b]
      BY <3>3 DEF Heard
    <3>5. age'[b] <= Ttl
      BY <3>1, <3>4, HealTypes, HealConstants DEF Fits
    <3> QED
      BY <3>1, <3>3, <3>5, HealTypes, HealConstants DEF Evicted
  <2> QED
    BY <2>1, <2>2
<1>3. CASE ~Late
  <2>1. ASSUME NEW b \in Alive
        PROVE  Kept(b)' \/ calm' <= Slack(b)'
    <3>1. b \in Agents
      BY <1>0
    <3>2. CASE Kept(b)
      <4>1. Heard(b)'
        BY <1>3, <3>1, <3>2, TickHeard DEF Kept
      <4> QED
        BY <3>1, <3>2, <4>1 DEF Kept, Registered
    <3>3. CASE calm <= Slack(b)
      <4>1. Slack(b)' = Slack(b) + 1
        BY <1>0, <1>3, <2>1, <3>1, TickWindows
      <4> QED
        BY <3>1, <3>3, <4>1, HealTypes
    <3> QED
      BY <1>1, <3>2, <3>3 DEF KeptInv
  <2>2. TouchInv'
    <3> SUFFICES ASSUME NEW b \in Alive, phase[b] = "ping", step[b] = "touch"
                 PROVE  b \in Evicted'
      BY DEF TouchInv
    <3>1. b \in Agents /\ lag[b] < MaxLag
      BY <1>0, <1>3 DEF Busy
    <3>2. b \in Evicted
      BY <1>1, <3>1, HealTypes, HealConstants DEF TouchInv
    <3>3. b \in members /\ Heard(b)
      BY <3>1, <3>2, EvictedMembers, HealTypes, HealConstants DEF HealInv, HealingInv, HeardInv
    <3>4. age[b] <= Interval + lag[b]
      BY <3>3 DEF Heard
    <3>5. age'[b] <= Ttl
      BY <3>1, <3>4, HealTypes, HealConstants DEF Fits
    <3> QED
      BY <3>1, <3>3, <3>5, HealTypes, HealConstants DEF Evicted
  <2>3. ASSUME NEW b \in Alive
        PROVE  KnownOf(b)'
    <3>1. KnownOf(b) /\ b \in Agents
      BY <1>0, <1>1 DEF KnownInv, KnownOf
    <3>2. Now(b)' = Now(b)
      BY DEF Now, ViewOf
    <3>3. /\ Window(b)' + lag'[b] = Window(b) + lag[b] + 1 \/ phase[b] \notin {"sleep", "ping"}
          /\ lag'[b] = lag[b] + 1 \/ phase[b] \notin {"join", "register", "ping"}
          /\ Unread(b)' = Unread(b)
      BY <1>3, <3>1, TickWindows
    <3>4. /\ calm \in Nat /\ calm' \in Nat /\ calm' <= calm + 1
          /\ Window(b) \in Nat /\ lag[b] \in Nat /\ Settle \in Nat /\ Settle' = Settle
          /\ Window(b)' \in Nat /\ lag'[b] \in Nat
      BY <3>1, HealTypes, NextTypes, HealConstants
    <3>5. phase[b] \in {"sleep", "ping"} /\ known[b] # Now(b) =>
              calm' <= Settle + Window(b)' + lag'[b]
      BY <3>1, <3>3, <3>4 DEF KnownOf
    <3>6. Unread(b) /\ sent[b] # Now(b) => calm' <= Settle + lag'[b]
      BY <3>1, <3>3, <3>4 DEF KnownOf, Unread
    <3>7. phase[b] \in {"join", "register"} /\ step[b] = "idle" => calm' <= Settle + lag'[b]
      BY <3>1, <3>3, <3>4 DEF KnownOf
    <3> QED
      BY <3>2, <3>3, <3>4, <3>5, <3>6, <3>7 DEF KnownOf
  <2> QED
    BY <2>1, <2>2, <2>3 DEF KeptInv, KnownInv, KnownOf
<1> QED
  BY <1>2, <1>3

LEMMA TickHealing ==
    ASSUME HealInv, Tick, Wait
    PROVE  HealingInv'
<1> USE TickFrame
<1>0. members \subseteq Agents
  BY DEF HealInv, MeshInv, PlaneInv, PlaneTypeOK
<1>1. HealTypeOK'
  BY HealConstants DEF HealTypeOK
<1>2. HeardInv'
  <2> SUFFICES ASSUME NEW b \in members, lag'[b] # MaxLag
               PROVE  Heard(b)'
    BY DEF HeardInv
  <2>1. b \in Agents /\ lag[b] < MaxLag
    BY <1>0, HealTypes, HealConstants
  <2>2. Heard(b)
    BY <2>1, HealConstants DEF HealInv, HealingInv, HeardInv
  <2> QED
    BY <2>1, <2>2, TickHeard
<1>3. SilenceInv'
  <2> SUFFICES ASSUME NEW p \in members
               PROVE  /\ phase[p] # "new" /\ answer[p] \in {"ok", "same"}
                      /\ p \in Alive \/ calm' <= age'[p] \/ age'[p] > Ttl
    BY DEF SilenceInv
  <2>1. /\ phase[p] # "new" /\ answer[p] \in {"ok", "same"}
        /\ p \in Alive \/ calm <= age[p] \/ age[p] > Ttl
    BY DEF HealInv, HealingInv, SilenceInv
  <2> QED
    BY <1>0, <2>1, HealTypes, HealConstants
<1>4. LinkInv'
  BY DEF HealInv, HealingInv, LinkInv
<1> QED
  BY <1>1, <1>2, <1>3, <1>4, TickKept, HealConstants DEF HealingInv

----------------------------------------------------------------------------
(* Theorems *)

LEMMA HealInitInv ==
    HealInit => HealInv
<1> SUFFICES ASSUME HealInit PROVE HealInv
  OBVIOUS
<1>1. MeshInv
  BY MeshInitInv DEF HealInit
<1>2. /\ \A a \in Agents : phase[a] = "new" /\ known[a] = NoView
      /\ members = {} /\ Alive = {}
  BY DEF HealInit, MeshInit, PlaneInit, Alive
<1>3. HealTypeOK
  BY HealConstants DEF HealInit, HealTypeOK
<1> QED
  BY <1>1, <1>2, <1>3
  DEF HealInv, HealingInv, HeardInv, SilenceInv, LinkInv, KeptInv, TouchInv, KnownInv

LEMMA HealStepIsMeshStep ==
    [HealNext]_healVars => [MeshNext]_meshVars
BY DEF HealNext, MeshNext, healVars

LEMMA HealStepInv ==
    HealInv /\ [HealNext]_healVars => HealInv'
<1> SUFFICES ASSUME HealInv, [HealNext]_healVars
             PROVE  HealingInv'
  BY HealStepIsMeshStep, MeshStepInv DEF HealInv
<1>0. MeshInv'
  BY HealStepIsMeshStep, MeshStepInv DEF HealInv
<1>1. ASSUME NEW a \in Agents, Step(a), Watch(a)
      PROVE  HealingInv'
  <2>1. CASE JoinFails(a)
    <3>1. /\ UNCHANGED <<members, age, step, answer, timer, known, link, lag>>
          /\ phase'[a] = "dead" /\ \A b \in Agents \ {a} : phase'[b] = phase[b]
      BY <2>1 DEF JoinFails, Enter, planeVars, storeVars, requestVars, HealInv, MeshInv,
                  MeshTypeOK
    <3> QED
      BY <1>0, <1>1, <3>1, DisturbedHealing DEF Watch, Aftermath
  <2> QED
    BY <1>1, <2>1, ServeHealing, AskingHealing, AnsweredHealing DEF Step
<1>2. ASSUME NEW a \in Agents, Start(a), Disturbance
      PROVE  HealingInv'
  <2>1. /\ UNCHANGED <<members, age, answer, timer, known, link, lag>>
        /\ phase[a] = "new" /\ phase'[a] = "join"
        /\ \A b \in Agents \ {a} : phase'[b] = phase[b] /\ step'[b] = step[b]
    BY <1>2 DEF Start, Ask, Enter, storeVars, HealInv, MeshInv, MeshTypeOK,
                PlaneInv, PlaneTypeOK
  <2>2. a \notin members
    BY <2>1 DEF HealInv, HealingInv, SilenceInv
  <2> QED
    BY <1>0, <1>2, <2>1, <2>2, DisturbedHealing
<1>3. ASSUME NEW a \in Agents, Die(a), Disturbance
      PROVE  HealingInv'
  <2>1. /\ UNCHANGED <<members, age, step, answer, timer, known, link, lag>>
        /\ phase'[a] = "dead" /\ \A b \in Agents \ {a} : phase'[b] = phase[b]
    BY <1>3 DEF Die, Enter, planeVars, storeVars, requestVars, HealInv, MeshInv, MeshTypeOK
  <2> QED
    BY <1>0, <1>3, <2>1, DisturbedHealing
<1>4. CASE UNCHANGED healVars
  <2>1. /\ UNCHANGED <<members, age, vpn, step, answer, sent>>
        /\ UNCHANGED <<phase, timer, known, link, lag, calm>>
    BY <1>4 DEF healVars, meshVars, planeVars, storeVars, requestVars, agentVars
  <2>2. Alive' = Alive /\ Interval' = Interval /\ Settle' = Settle /\ Evicted' = Evicted
    BY <2>1, HealConstants DEF Alive, Evicted
  <2>3. \A b : /\ Heard(b)' = Heard(b) /\ Kept(b)' = Kept(b) /\ Slack(b)' = Slack(b)
               /\ Now(b)' = Now(b) /\ Unread(b)' = Unread(b) /\ Window(b)' = Window(b)
    BY <2>1, <2>2 DEF Heard, Kept, Registered, Slack, Now, ViewOf, Unread, Window
  <2>4. HealTypeOK' /\ HeardInv' /\ SilenceInv' /\ LinkInv'
    BY <2>1, <2>2, <2>3, HealConstants
    DEF HealInv, HealingInv, HealTypeOK, HeardInv, SilenceInv, LinkInv
  <2>5. ASSUME Fits PROVE KeptInv' /\ TouchInv' /\ KnownInv'
    BY <2>1, <2>2, <2>3, <2>5 DEF HealInv, HealingInv, KeptInv, TouchInv, KnownInv
  <2> QED
    BY <2>4, <2>5, HealConstants DEF HealingInv
<1> QED
  BY <1>1, <1>2, <1>3, <1>4, RestartHealing, TickHealing DEF HealNext

(***************************************************************************)
(* calm is a history variable: with it the mesh does what it does without  *)
(* it, so the theorems on MeshSpec hold of HealSpec.                       *)
(***************************************************************************)
THEOREM HealIsMesh ==
    HealSpec => MeshSpec
<1>1. HealInit => MeshInit
  BY DEF HealInit
<1> QED
  BY <1>1, HealStepIsMeshStep, PTL DEF HealSpec, MeshSpec

\* The inductive invariant: what is left to do is at most what calm still
\* allows for, by the place in its round where each agent is.
THEOREM HealInvariant ==
    HealSpec => []HealInv
BY HealInitInv, HealStepInv, PTL DEF HealSpec

(***************************************************************************)
(* Settle seconds after the last start, death, restart or late second the  *)
(* store has exactly the agents that live, if a round in time fits into    *)
(* the TTL.                                                                *)
(***************************************************************************)
THEOREM StoreIsSettled ==
    HealSpec => []StoreSettles
<1>1. HealInv => StoreSettles
  BY SettledStore DEF StoreSettles
<1> QED
  BY <1>1, HealInvariant, PTL

\* An agent that nothing has disturbed for that long is in its rounds.
LEMMA HealedKnows ==
    ASSUME HealInv, Fits, calm > HealTime, NEW a \in Alive
    PROVE  known[a] = Now(a) /\ known[a] # NoView
<1>1. /\ a \in Agents /\ calm \in Nat /\ Settle \in Nat
      /\ lag[a] \in 0 .. MaxLag /\ Window(a) \in 0 .. Interval + 2 * MaxLag
      /\ HealTime = Settle + Interval + 3 * MaxLag /\ MaxLag \in Nat /\ Interval \in Nat
  BY HealTypes, HealConstants DEF Alive
<1>2. calm > Settle + lag[a] /\ calm > Settle /\ calm > Settle + Window(a) + lag[a]
  BY <1>1
<1>3. Kept(a)
  BY <1>2, SettledKept
<1>4. phase[a] \in {"sleep", "ping"}
  BY <1>1, <1>2, <1>3 DEF Kept, Registered, HealInv, HealingInv, KnownInv
<1>5. known[a] = Now(a)
  BY <1>1, <1>2, <1>4 DEF HealInv, HealingInv, KnownInv
<1>6. Now(a) # NoView
  BY <1>1, ViewIsThere DEF Now, Alive, HealInv, MeshInv, PlaneInv, PlaneTypeOK
<1> QED
  BY <1>5, <1>6

(***************************************************************************)
(* And one round trip later every agent that lives knows and connects all  *)
(* others that live and nobody else, each by the address which that agent  *)
(* was told last.                                                          *)
(***************************************************************************)
THEOREM MeshHeals ==
    HealSpec => []HealsInTime
<1>1. ASSUME HealInv, Fits, calm > HealTime, NEW a \in Alive
      PROVE  /\ known[a] # NoView
             /\ DOMAIN known[a].peers = Alive \ {a}
             /\ DOMAIN link[a].peers = Alive \ {a}
             /\ \A p \in Alive \ {a} :
                   known[p] # NoView /\ known[a].peers[p] = known[p].ip
  <2>1. known[a] = Now(a) /\ known[a] # NoView
    BY <1>1, HealedKnows
  <2>2. DOMAIN known[a].peers = Alive \ {a}
    BY <2>1 DEF Now, ViewOf
  <2>3. DOMAIN link[a].peers = Alive \ {a}
    BY <1>1, <2>1, <2>2 DEF HealInv, HealingInv, LinkInv, Alive
  <2>4. ASSUME NEW p \in Alive \ {a}
        PROVE  known[p] # NoView /\ known[a].peers[p] = known[p].ip
    <3>1. known[p] = Now(p) /\ known[p] # NoView
      BY <1>1, HealedKnows
    <3> QED
      BY <2>1, <3>1 DEF Now, ViewOf
  <2> QED
    BY <2>1, <2>2, <2>3, <2>4
<1>2. HealInv => HealsInTime
  BY <1>1 DEF HealsInTime
<1> QED
  BY <1>2, HealInvariant, PTL
=============================================================================
