------------------------- MODULE MeshTiming_proofs -------------------------
(***************************************************************************)
(* Proofs of the bounds of MeshTiming, for every set of agents, every TTL  *)
(* and every bound on lag and delays.                                      *)
(***************************************************************************)
EXTENDS MeshTiming, Mesh_proofs

TimedInv == MeshInv /\ TimingInv

LEMMA TimedTypes ==
    ASSUME TimedInv, NEW a \in Agents
    PROVE  /\ Ttl \in Nat /\ MaxLag \in Nat /\ Interval \in Nat /\ Longest \in Nat
           /\ Longest = Ttl + RoundTrip /\ RoundTrip = Interval + 3 * MaxLag
           /\ since[a] \in Nat
           /\ age[a] \in Nat
           /\ lag[a] \in 0 .. MaxLag
           /\ timer[a] \in 0 .. Interval
           /\ Allowed(a) \in {0, Ttl}
           /\ Window(a) \in 0 .. Interval + 2 * MaxLag
BY IntervalType, TtlAssumption, LagAssumption
DEF TimedInv, TimingInv, TimedTypeOK, MeshInv, MeshTypeOK, PlaneTypeOK, Longest, RoundTrip,
    Allowed, Window

\* What is left of the phases while nothing disturbs the heartbeat.
LEMMA UndisturbedPhases ==
    ASSUME TimedInv, Undisturbed, NEW a \in Agents
    PROVE  /\ phase[a] \in {"new", "join", "sleep", "ping", "dead"}
           /\ restarts = 0
           /\ phase[a] = "ping" => a \in members /\ a \in Evicted
           /\ phase[a] = "ping" => step[a] \in {"idle", "compare", "touch", "ping"}
           /\ phase[a] = "ping" /\ step[a] = "idle" => answer[a] \in {"ok", "same"}
           /\ phase[a] = "join" => step[a] \in {"idle", "register"}
           /\ phase[a] \in {"new", "sleep"} => step[a] = "idle"
<1> USE DEF TimedInv, MeshInv, MeshTypeOK, PlaneTypeOK, HandlerSteps
<1>1. restarts = 0
  BY DEF Undisturbed
<1>2. phase[a] \in {"new", "join", "sleep", "ping", "dead"}
  BY DEF HeartInv, Phases
<1>3. /\ phase[a] = "ping" => step[a] \in {"idle", "compare", "touch", "ping"}
      /\ phase[a] = "join" => step[a] \in {"idle", "register"}
      /\ phase[a] \in {"new", "sleep"} => step[a] = "idle"
  BY DEF RequestInv
<1>4. phase[a] = "ping" /\ step[a] = "idle" => answer[a] \in {"ok", "same"}
  BY <1>1 DEF RequestInv, HeartInv
<1>5. phase[a] = "ping" => a \in members /\ a \in Evicted
  BY BeatingIsFresh DEF HeartInv
<1> QED
  BY <1>1, <1>2, <1>3, <1>4, <1>5

\* What the store sends or compares at some moment is wrong about no agent
\* for longer than is allowed.
LEMMA SnapshotRight ==
    ASSUME TimedInv, Undisturbed, NEW a \in Agents, NEW p \in Agents, a # p,
           NEW S \in SUBSET Agents, Evicted \subseteq S, S \subseteq Evicted \cup {a},
           NEW v, Wrong(p, ViewOf(a, S, v))
    PROVE  since[p] <= Allowed(p)
<1>1. p \in DOMAIN ViewOf(a, S, v).peers <=> p \in Evicted
  BY DEF ViewOf
<1>2. Present(p) => p \in Evicted
  BY BeatingIsFresh DEF Present, TimedInv
<1>3. Gone(p) /\ p \in Evicted /\ p \in members /\ age[p] <= Ttl
  <2>1. Gone(p) /\ p \in Evicted
    BY <1>1, <1>2 DEF Wrong
  <2>2. age[p] \in Nat /\ Ttl \in Nat
    BY TimedTypes
  <2> QED
    BY <2>1, <2>2 DEF Evicted
<1>4. since[p] <= Ttl
  <2>1. since[p] <= age[p]
    BY <1>3, TimedTypes DEF TimedInv, TimingInv, SilenceInv
  <2> QED
    BY <1>3, <2>1, TimedTypes
<1> QED
  BY <1>3, <1>4 DEF Allowed

\* The types of the counters after a step.
LEMMA MarkTypes ==
    ASSUME TimedInv, Mark
    PROVE  /\ TimedTypeOK'
           /\ \A p \in Agents : since'[p] \in {0, since[p]}
           /\ Undisturbed' => \A p \in Agents :
                 since'[p] = (IF Moved(p) THEN 0 ELSE since[p])
<1>1. 0 \in 0 .. Longest + 1
  BY IntervalType, TtlAssumption, LagAssumption DEF Longest, RoundTrip
<1>2. Longest' = Longest
  BY DEF Longest, RoundTrip, Interval
<1> QED
  BY <1>1, <1>2 DEF Mark, TimedInv, TimingInv, TimedTypeOK

\* Who is wrong about p is so for the same reason as before, unless the clock
\* of p starts again.
LEMMA WrongKept ==
    ASSUME NEW p, phase'[p] = phase[p], step'[p] = step[p]
    PROVE  Present(p)' = Present(p) /\ Gone(p)' = Gone(p) /\ Allowed(p)' = Allowed(p)
BY DEF Present, Gone, Allowed

LEMMA ZeroIsEnough ==
    ASSUME MeshInv', NEW a \in Agents, NEW p \in Agents, since'[p] = 0
    PROVE  WindowInv(a, p)'
<1>1. /\ lag'[a] \in Nat /\ timer'[a] \in 0 .. Interval
      /\ Allowed(p)' \in Nat
      /\ Interval' = Interval
  BY TtlAssumption, LagAssumption DEF MeshInv, MeshTypeOK, Allowed, Interval
<1>2. Window(a)' \in Nat
  BY <1>1, IntervalType, LagAssumption DEF Window
<1>3. Allowed(p)' + Window(a)' + lag'[a] >= 0 /\ Allowed(p)' + lag'[a] >= 0
  BY <1>1, <1>2
<1> QED
  BY <1>3 DEF WindowInv

----------------------------------------------------------------------------
(* The control plane works on a request *)

LEMMA ServeFrame ==
    ASSUME TimedInv, NEW a \in Agents, Serve(a), Mark
    PROVE  /\ MeshInv' /\ PlaneInv /\ Handler(a)
           /\ UNCHANGED <<phase, timer, known, link, delays, restarts, asked>>
           /\ Undisturbed' = Undisturbed
           /\ members' \subseteq members \cup {a}
           /\ step[a] # "idle"
           /\ step'[a] \in {"idle", "touch", "ping"}
           /\ lag'[a] = (IF step'[a] = "idle" THEN 0 ELSE lag[a])
           /\ \A b \in Agents \ {a} :
                 /\ step'[b] = step[b] /\ answer'[b] = answer[b]
                 /\ sent'[b] = sent[b] /\ age'[b] = age[b] /\ lag'[b] = lag[b]
                 /\ since'[b] \in {0, since[b]}
                 /\ Undisturbed => since'[b] = since[b]
<1>1. MeshInv' /\ PlaneInv /\ Handler(a)
  BY ServeInv DEF TimedInv, MeshInv, Serve
<1>2. UNCHANGED <<phase, timer, known, link, delays, restarts, asked>>
  BY <1>1 DEF Serve, agentVars, Handler, Register, CompareHash, Touch, Ping
<1>3. Undisturbed' = Undisturbed
  BY <1>2, UndisturbedKept
<1>4. members' \subseteq members \cup {a}
  BY <1>1, EvictedMembers DEF Handler, Register, CompareHash, Touch, Ping
<1>5. /\ lag'[a] = (IF step'[a] = "idle" THEN 0 ELSE lag[a])
      /\ \A b \in Agents \ {a} : lag'[b] = lag[b]
  BY DEF Serve, TimedInv, MeshInv, MeshTypeOK
<1>6. ASSUME NEW b \in Agents \ {a}, Undisturbed
      PROVE  since'[b] = since[b]
  BY <1>1, <1>2, <1>3, <1>6, HandlerFrame, MarkTypes DEF Moved
<1> QED
  BY <1>1, <1>2, <1>3, <1>4, <1>5, <1>6, HandlerFrame, MarkTypes

\* The other agents, as a's request is served: what is wrong about a starts
\* to be so with this step, or was so before.
LEMMA ServeOthers ==
    ASSUME TimedInv, NEW a \in Agents, Serve(a), Mark, Undisturbed,
           NEW b \in Agents, NEW p \in Agents, b # p, b # a
    PROVE  WindowInv(b, p)'
<1> USE ServeFrame
<1>1. WindowInv(b, p)
  BY DEF TimedInv, TimingInv
<1>2. Window(b)' = Window(b) /\ Unread(b)' = Unread(b)
  BY DEF Window, Unread, Interval
<1>3. ASSUME since'[p] = since[p], Allowed(p)' = Allowed(p),
             Present(p)' => Present(p), Gone(p)' => Gone(p)
      PROVE  WindowInv(b, p)'
  BY <1>1, <1>2, <1>3 DEF WindowInv, Wrong
<1>4. CASE p # a
  BY <1>3, <1>4, WrongKept
<1>5. CASE p = a
  <2>1. CASE phase[a] = "ping"
    <3>1. since'[a] = since[a]
      BY <2>1, MarkTypes, UndisturbedPhases DEF Moved
    <3>2. /\ Allowed(a)' = Allowed(a)
          /\ Present(a)' => Present(a)
          /\ Gone(a)' => Gone(a)
      BY <2>1 DEF Allowed, Gone, Present
    <3> QED
      BY <1>3, <1>5, <3>1, <3>2
  <2>2. CASE phase[a] \in {"join", "dead"} /\ step'[a] = "idle"
    <3>1. since'[a] = 0
      BY <2>2, MarkTypes DEF Moved
    <3> QED
      BY <1>5, <3>1, ZeroIsEnough
  <2>3. CASE phase[a] \in {"join", "dead"} /\ step'[a] # "idle"
    <3>1. ~Present(a)' /\ ~Gone(a)'
      BY <2>3 DEF Gone, Present
    <3> QED
      BY <1>5, <3>1 DEF WindowInv, Wrong
  <2> QED
    BY <2>1, <2>2, <2>3, UndisturbedPhases
<1> QED
  BY <1>4, <1>5

\* The agent whose request it is.
LEMMA ServeAsker ==
    ASSUME TimedInv, NEW a \in Agents, Serve(a), Mark, Undisturbed,
           NEW p \in Agents, a # p
    PROVE  WindowInv(a, p)'
<1> USE ServeFrame
<1>0. PlaneInv /\ UNCHANGED <<phase, known>>
  OBVIOUS
<1>1. /\ since'[p] = since[p] /\ Allowed(p)' = Allowed(p)
      /\ Present(p)' = Present(p) /\ Gone(p)' = Gone(p)
  BY WrongKept
<1>2. /\ phase[a] \in {"sleep", "ping"} /\ Wrong(p, known[a]) =>
             since[p] <= Allowed(p) + Window(a) + lag[a]
  BY DEF TimedInv, TimingInv, WindowInv
<1>3. /\ Ttl \in Nat /\ MaxLag \in Nat /\ Interval \in Nat
      /\ since[p] \in Nat /\ lag[a] \in 0 .. MaxLag /\ Allowed(p) \in Nat
      /\ Interval' = Interval
  BY TimedTypes DEF Interval
<1>4. ASSUME Unread(a)', Wrong(p, sent'[a])
      PROVE  since[p] <= Allowed(p)
  <2>1. step'[a] = "idle" /\ answer'[a] = "ok" /\ phase[a] \in {"join", "ping"}
    BY <1>4, UndisturbedPhases DEF Unread
  <2>2. \E S \in SUBSET Agents :
           /\ Evicted \subseteq S /\ S \subseteq Evicted \cup {a}
           /\ \E v : sent'[a] = ViewOf(a, S, v)
    <3>1. Register(a) \/ Ping(a)
      <4>1. ~CompareHash(a) /\ ~Touch(a)
        BY <2>1, UndisturbedPhases DEF CompareHash, Touch, Answer, PlaneInv, PlaneTypeOK
      <4> QED
        BY <4>1 DEF Handler
    <3>2. Evicted \subseteq Agents
      BY EvictedMembers DEF PlaneInv, PlaneTypeOK
    <3>3. CASE Register(a)
      BY <3>2, <3>3 DEF Register, AnswerView, PlaneInv
    <3>4. CASE Ping(a)
      <4>1. sent' = [sent EXCEPT ![a] = ViewOf(a, Evicted, vpn)]
        BY <1>0, <2>1, <3>4 DEF Ping, Answer, AnswerView, PlaneInv, PlaneTypeOK
      <4> QED
        BY <3>2, <4>1 DEF PlaneInv
    <3> QED
      BY <3>1, <3>3, <3>4
  <2> QED
    BY <1>4, <2>2, SnapshotRight
<1>5. ASSUME phase[a] = "ping", Wrong(p, known[a])
      PROVE  since[p] <= Allowed(p) + Window(a)' + lag'[a]
  <2>1. a \in Evicted /\ step[a] \in {"compare", "touch", "ping"}
    BY <1>5, UndisturbedPhases
  <2>2. CASE CompareHash(a)
    <3>1. step[a] = "compare" /\ asked[a] = known[a]
      BY <1>5, <2>2 DEF CompareHash, TimedInv, MeshInv, AskedInv
    <3>2. step'[a] = (IF known[a] = ViewOf(a, Evicted, vpn) THEN "touch" ELSE "ping")
      BY <1>0, <2>1, <2>2, <3>1 DEF CompareHash, HashOf, Answer, PlaneInv, PlaneTypeOK
    <3>3. CASE step'[a] = "touch"
      <4>1. known[a] = ViewOf(a, Evicted, vpn) /\ Evicted \in SUBSET Agents
        BY <3>2, <3>3, EvictedMembers DEF PlaneInv, PlaneTypeOK
      <4>2. since[p] <= Allowed(p)
        BY <1>5, <4>1, SnapshotRight
      <4>3. Window(a)' = 0 /\ lag'[a] = lag[a]
        BY <1>5, <3>3 DEF Window
      <4> QED
        BY <1>3, <4>2, <4>3
    <3>4. CASE step'[a] = "ping"
      <4>1. Window(a)' = Window(a) /\ lag'[a] = lag[a]
        BY <1>3, <1>5, <3>1, <3>4 DEF Window
      <4> QED
        BY <1>2, <1>5, <4>1
    <3> QED
      BY <3>2, <3>3, <3>4
  <2>3. CASE Touch(a)
    <3>1. step[a] = "touch" /\ step'[a] = "idle" /\ answer'[a] = "same"
      BY <1>0, <2>3 DEF Touch, Answer, PlaneInv, PlaneTypeOK
    <3>2. Window(a) = 0 /\ Window(a)' = MaxLag /\ lag'[a] = 0
      BY <1>5, <3>1 DEF Window
    <3> QED
      BY <1>2, <1>3, <1>5, <3>2
  <2>4. CASE Ping(a)
    <3>1. step[a] = "ping" /\ step'[a] = "idle" /\ answer'[a] = "ok"
      BY <1>0, <2>1, <2>4 DEF Ping, Answer, AnswerView, PlaneInv, PlaneTypeOK
    <3>2. Window(a) = MaxLag + Interval /\ Window(a)' = Interval + 2 * MaxLag /\ lag'[a] = 0
      BY <1>3, <1>5, <3>1 DEF Window
    <3> QED
      BY <1>2, <1>3, <1>5, <3>2
  <2> QED
    BY <2>1, <2>2, <2>3, <2>4 DEF Handler, Register
<1>6. phase[a] # "sleep"
  BY UndisturbedPhases
<1>7. Unread(a)' => lag'[a] = 0
  BY DEF Unread
<1> QED
  BY <1>0, <1>1, <1>3, <1>4, <1>5, <1>6, <1>7 DEF WindowInv, Wrong

LEMMA ServeTiming ==
    ASSUME TimedInv, NEW a \in Agents, Serve(a), Mark
    PROVE  TimingInv'
<1> USE ServeFrame
<1>1. TimedTypeOK'
  BY MarkTypes
<1>3. SilenceInv'
  <2> SUFFICES ASSUME NEW p \in members', Gone(p)'
               PROVE  since'[p] <= age'[p] \/ age'[p] > Ttl
    BY DEF SilenceInv
  <2>1. p \in Agents /\ age'[p] \in Nat
    BY DEF MeshInv, PlaneInv, PlaneTypeOK
  <2>2. CASE p # a
    <3>1. p \in members /\ Gone(p) /\ age'[p] = age[p] /\ since'[p] \in {0, since[p]}
      BY <2>1, <2>2 DEF Gone
    <3>2. since[p] <= age[p] \/ age[p] > Ttl
      BY <3>1 DEF TimedInv, TimingInv, SilenceInv
    <3> QED
      BY <2>1, <3>1, <3>2
  <2>3. CASE p = a
    <3>1. since'[a] = 0
      BY <2>3 DEF Gone, Moved, Mark
    <3> QED
      BY <2>1, <2>3, <3>1
  <2> QED
    BY <2>2, <2>3
<1>4. ASSUME Undisturbed', NEW b \in Agents, NEW p \in Agents, b # p
      PROVE  WindowInv(b, p)'
  BY <1>4, ServeOthers, ServeAsker
<1> QED
  BY <1>1, <1>3, <1>4 DEF TimingInv

----------------------------------------------------------------------------
(* The agents' own steps *)

\* A step that leaves the store and the clocks of the others alone.
LEMMA QuietSilence ==
    ASSUME TimedInv, Mark, UNCHANGED <<members, age, step>>,
           \A p \in Agents : phase'[p] = "dead" => phase[p] = "dead" \/ Moved(p)
    PROVE  SilenceInv'
<1> SUFFICES ASSUME NEW p \in members, Gone(p)'
             PROVE  since'[p] <= age[p] \/ age[p] > Ttl
  BY DEF SilenceInv
<1>1. p \in Agents /\ age[p] \in Nat
  BY DEF TimedInv, MeshInv, PlaneInv, PlaneTypeOK
<1>2. CASE Moved(p)
  BY <1>1, <1>2 DEF Mark
<1>3. CASE ~Moved(p)
  <2>1. Gone(p)
    BY <1>1, <1>3 DEF Gone
  <2>2. since[p] <= age[p] \/ age[p] > Ttl
    BY <2>1 DEF TimedInv, TimingInv, SilenceInv
  <2> QED
    BY <1>1, <2>2, MarkTypes
<1> QED
  BY <1>2, <1>3

LEMMA AskingTiming ==
    ASSUME TimedInv, NEW a \in Agents, Mark,
           Start(a) \/ Wake(a) \/ Retry(a) \/ GetUnknown(a)
    PROVE  TimingInv'
<1>1. /\ UNCHANGED <<storeVars, answer, sent, timer, known, link, lag, delays, restarts>>
      /\ step[a] = "idle"
      /\ \E s \in {"register", "compare"} : \E view :
            /\ step' = [step EXCEPT ![a] = s]
            /\ asked' = [asked EXCEPT ![a] = view]
      /\ MeshInv' /\ Undisturbed' = Undisturbed
  BY AskingInv, UndisturbedKept DEF Start, Wake, Retry, GetUnknown, Ask, TimedInv
<1>2. /\ \E ph \in {"join", "ping", "register"} : phase' = [phase EXCEPT ![a] = ph]
      /\ phase[a] # "dead"
  BY DEF Start, Wake, Retry, GetUnknown, Answered, Enter
<1>3. DOMAIN phase = Agents /\ DOMAIN step = Agents
  BY DEF TimedInv, MeshInv, MeshTypeOK, PlaneTypeOK
<1>4. \A p \in Agents : ~Moved(p)
  BY <1>1, <1>2, <1>3 DEF Moved
<1>6. SilenceInv'
  <2> SUFFICES ASSUME NEW p \in members, Gone(p)'
               PROVE  since'[p] <= age[p] \/ age[p] > Ttl
    BY <1>1 DEF SilenceInv, storeVars
  <2>1. p \in Agents /\ age[p] \in Nat
    BY DEF TimedInv, MeshInv, PlaneInv, PlaneTypeOK
  <2>2. Gone(p)
    BY <1>1, <1>2, <1>3, <2>1 DEF Gone
  <2>3. since[p] <= age[p] \/ age[p] > Ttl
    BY <2>2 DEF TimedInv, TimingInv, SilenceInv
  <2> QED
    BY <2>1, <2>3, MarkTypes
<1>7. ASSUME Undisturbed', NEW b \in Agents, NEW p \in Agents, b # p
      PROVE  WindowInv(b, p)'
  <2>1. WindowInv(b, p) /\ Undisturbed /\ since'[p] = since[p] /\ Interval' = Interval
    BY <1>1, <1>4, <1>7, MarkTypes DEF TimedInv, TimingInv, Interval
  <2>2. Start(a) \/ Wake(a)
    <3>1. ~Retry(a) /\ ~GetUnknown(a)
      BY <2>1, UndisturbedPhases DEF Retry, GetUnknown, Answered
    <3> QED
      BY <3>1
  <2>3. Present(p)' => Present(p)
    BY <1>1, <1>2, <1>3, <2>2 DEF Present, Start, Wake, Enter, Ask
  <2>4. (Gone(p)' <=> Gone(p)) /\ Allowed(p)' = Allowed(p)
    BY <1>1, <1>2, <1>3 DEF Gone, Allowed
  <2>5. CASE b # a
    <3>1. Window(b)' = Window(b) /\ (Unread(b)' => Unread(b)) /\ phase'[b] = phase[b]
      BY <1>1, <1>2, <1>3, <2>1, <2>5 DEF Window, Unread
    <3> QED
      BY <1>1, <2>1, <2>3, <2>4, <3>1 DEF WindowInv, Wrong
  <2>6. CASE b = a
    <3>1. ~Unread(a)'
      BY <1>1, <1>3 DEF Unread
    <3>2. CASE Start(a)
      <4>1. phase'[a] = "join"
        BY <1>3, <3>2 DEF Start, Enter
      <4> QED
        BY <2>6, <3>1, <4>1 DEF WindowInv
    <3>3. CASE Wake(a)
      <4>1. /\ phase[a] = "sleep" /\ timer[a] = 0
            /\ phase'[a] = "ping" /\ step'[a] = "compare"
        BY <1>3, <3>3 DEF Wake, Ask, Enter
      <4>2. Window(a) = MaxLag + Interval /\ Window(a)' = MaxLag + Interval
        BY <2>1, <4>1, TimedTypes DEF Window
      <4> QED
        BY <1>1, <2>1, <2>3, <2>4, <2>6, <3>1, <4>1, <4>2 DEF WindowInv, Wrong
    <3> QED
      BY <2>2, <3>2, <3>3
  <2> QED
    BY <2>5, <2>6
<1> QED
  BY <1>6, <1>7, MarkTypes DEF TimingInv

LEMMA AnsweredTiming ==
    ASSUME TimedInv, NEW a \in Agents, Mark,
           \/ Join(a) \/ JoinFails(a) \/ GetView(a) \/ GetNotModified(a)
           \/ GetNothing(a) \/ Die(a)
    PROVE  TimingInv'
<1>1. UNCHANGED <<planeVars, lag, delays, restarts>> /\ MeshInv'
      /\ Undisturbed' = Undisturbed
  BY AnsweredInv, UndisturbedKept
  DEF Join, JoinFails, GetView, GetNotModified, GetNothing, Die, TimedInv
<1>2. UNCHANGED <<members, age, step, asked, answer, sent>>
  BY <1>1 DEF planeVars, storeVars, requestVars
<1>3. /\ DOMAIN phase = Agents /\ DOMAIN known = Agents /\ DOMAIN timer = Agents
      /\ DOMAIN step = Agents
  BY DEF TimedInv, MeshInv, MeshTypeOK, PlaneTypeOK, RequestInv
<1>4. \E ph \in {"sleep", "retry", "dead"} : phase' = [phase EXCEPT ![a] = ph]
  BY DEF Join, JoinFails, GetView, GetNotModified, GetNothing, Die, Sleep, Enter
<1>5. \A b \in Agents \ {a} :
         phase'[b] = phase[b] /\ known'[b] = known[b] /\ timer'[b] = timer[b]
  BY <1>3 DEF Join, JoinFails, GetView, GetNotModified, GetNothing, Die, Sleep, Enter
<1>6. \A p \in Agents : phase'[p] = "dead" => phase[p] = "dead" \/ Moved(p)
  BY DEF Moved
<1>7. SilenceInv'
  BY <1>2, <1>6, QuietSilence
<1>9. ASSUME Undisturbed', NEW b \in Agents, NEW p \in Agents, b # p
      PROVE  WindowInv(b, p)'
  <2>1. WindowInv(b, p) /\ Undisturbed /\ Interval' = Interval
    BY <1>1, <1>9 DEF TimedInv, TimingInv, Interval
  <2>2. CASE Moved(p)
    <3>1. since'[p] = 0
      BY <2>2 DEF Mark
    <3> QED
      BY <1>1, <3>1, ZeroIsEnough
  <2>3. CASE ~Moved(p)
    <3>1. since'[p] = since[p] /\ (Present(p)' => Present(p)) /\ (Gone(p)' <=> Gone(p))
          /\ Allowed(p)' = Allowed(p)
      <4>1. since'[p] = since[p]
        BY <1>9, <2>3, MarkTypes
      <4>2. (phase'[p] = "dead" <=> phase[p] = "dead") /\ (Present(p)' => Present(p))
        <5>1. CASE p # a
          BY <1>2, <1>5, <5>1 DEF Present
        <5>2. CASE p = a /\ (Die(a) \/ JoinFails(a))
          BY <1>3, <2>3, <5>2 DEF Die, JoinFails, Enter, Moved
        <5>3. CASE p = a /\ (Join(a) \/ GetView(a) \/ GetNotModified(a) \/ GetNothing(a))
          <6>1. phase[a] \in {"join", "ping"} /\ step[a] = "idle"
            BY <2>1, <5>3, UndisturbedPhases
            DEF Join, GetView, GetNotModified, GetNothing, Answered
          <6>2. phase'[a] # "dead"
            BY <1>3, <5>3 DEF Join, GetView, GetNotModified, GetNothing, Sleep, Enter
          <6> QED
            BY <5>3, <6>1, <6>2 DEF Present
        <5> QED
          BY <5>1, <5>2, <5>3
      <4> QED
        BY <1>2, <4>1, <4>2 DEF Gone, Allowed
    <3>2. CASE b # a
      <4>1. Window(b)' = Window(b) /\ Unread(b)' = Unread(b)
        BY <1>2, <1>5, <2>1, <3>2 DEF Window, Unread
      <4> QED
        BY <1>1, <1>2, <1>5, <2>1, <3>1, <3>2, <4>1 DEF WindowInv, Wrong
    <3>3. CASE b = a
      <4>1. ~Unread(a)'
        BY <1>3, <1>4 DEF Unread
      <4>2. /\ Ttl \in Nat /\ MaxLag \in Nat /\ Interval \in Nat
            /\ since[p] \in Nat /\ lag[a] \in Nat /\ Allowed(p) \in Nat
        BY TimedTypes
      <4>3. timer'[a] \in 0 .. Interval
        BY <1>1, <2>1 DEF MeshInv, MeshTypeOK
      <4>4. ASSUME phase'[a] = "sleep", Wrong(p, known'[a])
            PROVE  since[p] <= Allowed(p) + Window(a)' + lag[a]
        <5>1. Window(a)' = MaxLag + Interval - timer'[a]
          BY <2>1, <4>4 DEF Window
        <5>2. CASE Join(a) \/ GetView(a)
          <6>1. Unread(a) /\ known'[a] = sent[a]
            BY <1>3, <2>1, <5>2, UndisturbedPhases DEF Join, GetView, Answered, Unread
          <6>2. since[p] <= Allowed(p) + lag[a]
            BY <2>1, <3>3, <4>4, <6>1 DEF WindowInv
          <6> QED
            BY <4>2, <4>3, <5>1, <6>2
        <5>3. CASE GetNotModified(a)
          <6>1. /\ phase[a] = "ping" /\ step[a] = "idle" /\ answer[a] = "same"
                /\ known'[a] = known[a] /\ timer'[a] = Interval
            BY <1>3, <2>1, <5>3, UndisturbedPhases DEF GetNotModified, Answered, Sleep
          <6>2. Window(a) = MaxLag
            BY <6>1 DEF Window
          <6>3. since[p] <= Allowed(p) + MaxLag + lag[a]
            BY <2>1, <3>3, <4>4, <6>1, <6>2 DEF WindowInv
          <6> QED
            BY <4>2, <5>1, <6>1, <6>3
        <5>4. ~JoinFails(a) /\ ~Die(a) /\ ~GetNothing(a)
          BY <1>3, <2>1, <4>4, UndisturbedPhases
          DEF JoinFails, Die, GetNothing, Answered, Enter
        <5> QED
          BY <5>2, <5>3, <5>4
      <4>5. phase'[a] # "ping"
        BY <1>3, <1>4
      <4> QED
        BY <1>1, <3>1, <3>3, <4>1, <4>4, <4>5 DEF WindowInv, Wrong
    <3> QED
      BY <3>2, <3>3
  <2> QED
    BY <2>2, <2>3
<1> QED
  BY <1>7, <1>9, MarkTypes DEF TimingInv

\* A restart of the server ends what is claimed.
LEMMA RestartTiming ==
    ASSUME TimedInv, RestartServer, Mark
    PROVE  TimingInv'
<1>1. MeshInv' /\ members' = {}
      /\ step' = [k \in Agents |-> "idle"]
  BY RestartServerInv DEF TimedInv, RestartServer, ServerRestart
<1>2. restarts' # 0
  BY LagAssumption DEF RestartServer, TimedInv, MeshInv, MeshTypeOK
<1>4. SilenceInv'
  BY <1>1 DEF SilenceInv
<1> QED
  BY <1>2, <1>4, MarkTypes DEF TimingInv, Undisturbed

----------------------------------------------------------------------------
(* Time *)

\* A second in which nobody is late.
LEMMA TickInTime ==
    ASSUME TimedInv, Tick, Undisturbed', NEW a \in Agents
    PROVE  /\ Undisturbed
           /\ lag'[a] = (IF Busy(a) THEN lag[a] + 1 ELSE lag[a])
           /\ timer'[a] = (IF timer[a] > 0 THEN timer[a] - 1 ELSE 0)
<1> USE DEF TimedInv, MeshInv, MeshTypeOK
<1>1. delays = 0 /\ ~Late /\ Undisturbed
  BY DEF Tick, Undisturbed, Interval
<1>2. lag'[a] = (IF Busy(a) THEN lag[a] + 1 ELSE lag[a])
  BY <1>1, LagAssumption DEF Tick, Late
<1> QED
  BY <1>1, <1>2 DEF Tick

LEMMA CountTypes ==
    ASSUME TimedInv, Count
    PROVE  /\ TimedTypeOK'
           /\ \A p \in Agents : since'[p] \in Nat /\ since'[p] <= since[p] + 1
<1>1. Longest \in Nat /\ Longest' = Longest
  BY IntervalType, TtlAssumption, LagAssumption DEF Longest, RoundTrip, Interval
<1> QED
  BY <1>1 DEF Count, TimedInv, TimingInv, TimedTypeOK

LEMMA TickTiming ==
    ASSUME TimedInv, Tick, Count
    PROVE  TimingInv'
<1>1. MeshInv' /\ UNCHANGED <<members, phase, known, step, asked, answer, sent>>
  BY TickInv DEF TimedInv, Tick, requestVars
<1>3. SilenceInv'
  <2> SUFFICES ASSUME NEW p \in members, Gone(p)
               PROVE  since'[p] <= age'[p] \/ age'[p] > Ttl
    BY <1>1 DEF SilenceInv, Gone
  <2>1. p \in Agents
    BY DEF TimedInv, MeshInv, PlaneInv, PlaneTypeOK
  <2>2. since[p] <= age[p] \/ age[p] > Ttl
    BY DEF TimedInv, TimingInv, SilenceInv
  <2>3. age'[p] = (IF age[p] > Ttl THEN age[p] ELSE age[p] + 1)
    BY <2>1 DEF Tick, Second, Older
  <2>4. since'[p] \in Nat /\ since'[p] <= since[p] + 1
    BY <2>1, CountTypes
  <2> QED
    BY <2>1, <2>2, <2>3, <2>4, TimedTypes
<1>4. ASSUME Undisturbed', NEW b \in Agents, NEW p \in Agents, b # p
      PROVE  WindowInv(b, p)'
  <2>1. /\ WindowInv(b, p) /\ Undisturbed /\ Interval' = Interval
        /\ lag'[b] = (IF Busy(b) THEN lag[b] + 1 ELSE lag[b])
        /\ timer'[b] = (IF timer[b] > 0 THEN timer[b] - 1 ELSE 0)
    BY <1>4, TickInTime DEF TimedInv, TimingInv, Interval
  <2>2. Present(p)' = Present(p) /\ Gone(p)' = Gone(p) /\ Allowed(p)' = Allowed(p)
        /\ Unread(b)' = Unread(b)
    BY <1>1 DEF Present, Gone, Allowed, Unread
  <2>3. /\ MaxLag \in Nat /\ Interval \in Nat /\ Window(b) \in Nat
        /\ since[p] \in Nat /\ lag[b] \in Nat /\ Allowed(p) \in Nat /\ timer[b] \in Nat
        /\ since'[p] \in Nat /\ since'[p] <= since[p] + 1
    BY TimedTypes, CountTypes
  <2>4. CASE phase[b] = "sleep" /\ timer[b] > 0
    <3>1. Window(b)' = Window(b) + 1 /\ lag'[b] = lag[b] /\ ~Unread(b)
      BY <1>1, <2>1, <2>3, <2>4 DEF Window, Busy, Unread
    <3> QED
      BY <1>1, <2>1, <2>2, <2>3, <2>4, <3>1 DEF WindowInv, Wrong
  <2>5. CASE phase[b] \in {"join", "ping"} \/ (phase[b] = "sleep" /\ timer[b] = 0)
    <3>1. lag'[b] = lag[b] + 1
      BY <2>1, <2>5 DEF Busy
    <3>2. Window(b)' = Window(b)
      BY <1>1, <2>1, <2>5 DEF Window
    <3> QED
      BY <1>1, <2>1, <2>2, <2>3, <3>1, <3>2 DEF WindowInv, Wrong
  <2>6. CASE phase[b] \notin {"join", "ping", "sleep"}
    BY <1>1, <2>1, <2>6, UndisturbedPhases DEF WindowInv, Unread
  <2> QED
    BY <2>3, <2>4, <2>5, <2>6
<1> QED
  BY <1>3, <1>4, CountTypes DEF TimingInv

----------------------------------------------------------------------------
(* Theorems *)

LEMMA TimedInitInv ==
    TimedInit => TimedInv
<1> SUFFICES ASSUME TimedInit PROVE TimedInv
  OBVIOUS
<1>1. MeshInv
  BY MeshInitInv DEF TimedInit
<1>2. Longest \in Nat
  BY IntervalType, TtlAssumption, LagAssumption DEF Longest, RoundTrip
<1>3. \A a \in Agents : phase[a] = "new"
  BY DEF TimedInit, MeshInit
<1>4. \A a, p \in Agents : WindowInv(a, p)
  BY <1>3 DEF WindowInv, Unread
<1> QED
  BY <1>1, <1>2, <1>3, <1>4
  DEF TimedInit, MeshInit, PlaneInit, TimedInv, TimingInv, TimedTypeOK, SilenceInv

LEMMA TimedStepIsMeshStep ==
    [TimedNext]_timedVars => [MeshNext]_meshVars
BY DEF TimedNext, MeshNext, timedVars

LEMMA TimedStepInv ==
    TimedInv /\ [TimedNext]_timedVars => TimedInv'
<1> SUFFICES ASSUME TimedInv, [TimedNext]_timedVars
             PROVE  TimingInv'
  BY TimedStepIsMeshStep, MeshStepInv DEF TimedInv
<1>1. CASE \E a \in Agents : Step(a) /\ Mark
  BY <1>1, ServeTiming, AskingTiming, AnsweredTiming DEF Step
<1>2. CASE \E a \in Agents : (Start(a) \/ Die(a)) /\ Mark
  BY <1>2, AskingTiming, AnsweredTiming
<1>3. CASE RestartServer /\ Mark
  BY <1>3, RestartTiming
<1>4. CASE Tick /\ Count
  BY <1>4, TickTiming
<1>5. CASE UNCHANGED timedVars
  <2>1. /\ UNCHANGED <<members, age, step, asked, answer, sent>>
        /\ UNCHANGED <<phase, timer, known, lag, delays, restarts, since>>
    BY <1>5 DEF timedVars, meshVars, planeVars, storeVars, requestVars, agentVars
  <2>2. Longest' = Longest /\ Undisturbed' = Undisturbed
    BY <2>1 DEF Longest, RoundTrip, Undisturbed, Interval
  <2>3. \A a, p \in Agents : WindowInv(a, p)' = WindowInv(a, p)
    BY <2>1 DEF WindowInv, Window, Unread, Wrong, Present, Gone, Allowed, Interval
  <2> QED
    BY <2>1, <2>2, <2>3
    DEF TimedInv, TimingInv, TimedTypeOK, SilenceInv, Gone
<1> QED
  BY <1>1, <1>2, <1>3, <1>4, <1>5 DEF TimedNext

(***************************************************************************)
(* since is a history variable: with it the mesh does what it does without *)
(* it, so the theorems on MeshSpec hold of TimedSpec.                      *)
(***************************************************************************)
THEOREM TimedIsMesh ==
    TimedSpec => MeshSpec
<1>1. TimedInit => MeshInit
  BY DEF TimedInit
<1> QED
  BY <1>1, TimedStepIsMeshStep, PTL DEF TimedSpec, MeshSpec

THEOREM TimedInvariant ==
    TimedSpec => []TimedInv
BY TimedInitInv, TimedStepInv, PTL DEF TimedSpec

\* What the invariant says of an agent in its heartbeat.
LEMMA WrongIsRecent ==
    ASSUME TimedInv, Undisturbed, NEW a \in Agents, NEW p \in Agents, a # p, Beating(a),
           Wrong(p, link[a])
    PROVE  since[p] <= Allowed(p) + RoundTrip
<1>1. phase[a] \in {"sleep", "ping"}
  BY UndisturbedPhases DEF Beating
<1>2. link[a] = known[a]
  BY DEF TimedInv, MeshInv, ViewInv, Undisturbed
<1>3. since[p] <= Allowed(p) + Window(a) + lag[a]
  BY <1>1, <1>2 DEF TimedInv, TimingInv, WindowInv
<1>4. /\ MaxLag \in Nat /\ Interval \in Nat /\ RoundTrip = Interval + 3 * MaxLag
      /\ Window(a) \in 0 .. Interval + 2 * MaxLag /\ lag[a] \in 0 .. MaxLag
      /\ Allowed(p) \in Nat /\ since[p] \in Nat
  BY TimedTypes
<1> QED
  BY <1>3, <1>4

(***************************************************************************)
(* While the server lives and rounds are in time, an agent is on every     *)
(* other device one round trip after its registration.                     *)
(***************************************************************************)
THEOREM ArrivalsAreSeen ==
    TimedSpec => []ArrivalsInTime
<1>1. ASSUME TimedInv, Undisturbed, NEW a \in Agents, NEW p \in Agents,
             a # p, Beating(a), Present(p), since[p] > RoundTrip
      PROVE  p \in DOMAIN link[a].peers
  <2>1. Allowed(p) = 0
    BY <1>1 DEF Allowed, Present, Gone
  <2>2. RoundTrip \in Nat /\ since[p] \in Nat
    BY <1>1, TimedTypes
  <2> QED
    BY <1>1, <2>1, <2>2, WrongIsRecent DEF Wrong
<1>2. TimedInv => ArrivalsInTime
  BY <1>1 DEF ArrivalsInTime
<1> QED
  BY <1>2, TimedInvariant, PTL

(***************************************************************************)
(* And one TTL and one round trip after the store last heard of an agent   *)
(* that died, it is off every other device.                                *)
(***************************************************************************)
THEOREM DeparturesAreSeen ==
    TimedSpec => []DeparturesInTime
<1>1. ASSUME TimedInv, Undisturbed, NEW a \in Agents, NEW p \in Agents,
             a # p, Beating(a), Gone(p), since[p] > Ttl + RoundTrip
      PROVE  p \notin DOMAIN link[a].peers
  <2>1. RoundTrip \in Nat /\ Ttl \in Nat /\ since[p] \in Nat
    BY <1>1, TimedTypes
  <2> QED
    BY <1>1, <2>1, WrongIsRecent DEF Wrong, Allowed
<1>2. TimedInv => DeparturesInTime
  BY <1>1 DEF DeparturesInTime
<1> QED
  BY <1>2, TimedInvariant, PTL
=============================================================================
