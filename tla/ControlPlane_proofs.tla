------------------------ MODULE ControlPlane_proofs ------------------------
(***************************************************************************)
(* Proofs about ControlPlane, for every set of agents and every TTL.       *)
(***************************************************************************)
EXTENDS ControlPlane, FiniteSetTheorems, TLAPS

----------------------------------------------------------------------------
(* What every step of the store preserves *)

LEMMA EvictedMembers ==
    Evicted \subseteq members
BY DEF Evicted

\* One more second, for a record that is still counted.
LEMMA OlderType ==
    ASSUME NEW n \in 0 .. Ttl + 1
    PROVE  Older(n) \in 0 .. Ttl + 1 /\ Older(n) <= n + 1
BY TtlAssumption DEF Older

LEMMA ViewIsThere ==
    ASSUME NEW k \in Agents, NEW S \in SUBSET Agents, NEW v \in [Agents -> Nat]
    PROVE  ViewOf(k, S, v) # NoView
<1>1. [p \in S \ {k} |-> v[p]] \in PeerMaps
  <2>1. S \ {k} \in SUBSET Agents
    OBVIOUS
  <2>2. [p \in S \ {k} |-> v[p]] \in [S \ {k} -> Nat]
    OBVIOUS
  <2> QED
    BY <2>1, <2>2 DEF PeerMaps
<1> QED
  BY <1>1, NoViewAssumption DEF ViewOf

\* The octets given out are counted: by a new address, and by none.
LEMMA NextOctetCounts ==
    ASSUME PlaneTypeOK, NEW k \in Agents, vpn[k] = 0,
           vpn' = [vpn EXCEPT ![k] = nextOctet]
    PROVE  /\ Cardinality(Addressed) \in Nat
           /\ Cardinality(Addressed') = Cardinality(Addressed) + 1
<1>1. Addressed' = Addressed \cup {k}
  BY DEF PlaneTypeOK, Addressed
<1>2. k \notin Addressed /\ IsFiniteSet(Addressed)
  BY AgentsAssumption, FS_Subset DEF Addressed
<1> QED
  BY <1>1, <1>2, FS_AddElement, FS_CardinalityType

LEMMA NoAddressYet ==
    ASSUME vpn = [k \in Agents |-> 0]
    PROVE  Cardinality(Addressed) = 0
<1>1. Addressed = {}
  BY DEF Addressed
<1> QED
  BY <1>1, FS_EmptySet

\* What AddressesUnique and the count say of is unchanged.
LEMMA SameAddresses ==
    ASSUME vpn' = vpn
    PROVE  Addressed' = Addressed
BY DEF Addressed

LEMMA InitInv ==
    PlaneInit => PlaneInv
<1> SUFFICES ASSUME PlaneInit PROVE PlaneInv
  OBVIOUS
<1>1. Cardinality(Addressed) = 0
  BY NoAddressYet DEF PlaneInit
<1> QED
  BY <1>1, TtlAssumption
  DEF PlaneInit, PlaneInv, PlaneTypeOK, HandlerSteps, AddressesUnique

LEMMA RestartInv ==
    ASSUME PlaneInv, ServerRestart
    PROVE  PlaneInv'
<1>1. Addressed' = {}
  BY DEF ServerRestart, Addressed
<1>2. Cardinality(Addressed') = 0
  BY <1>1, FS_EmptySet
<1>3. step' \in [Agents -> HandlerSteps]
      /\ answer' \in [Agents -> {"none", "ok", "same", "unknown"}]
  BY DEF ServerRestart, PlaneInv, PlaneTypeOK, HandlerSteps
<1> QED
  BY <1>2, <1>3 DEF ServerRestart, PlaneInv, PlaneTypeOK, AddressesUnique

\* An address is given out: it lies above all the others.
LEMMA RegisterInv ==
    ASSUME PlaneInv, NEW k \in Agents, Register(k)
    PROVE  PlaneInv'
<1> USE DEF PlaneInv, PlaneTypeOK
<1>1. /\ members' = Evicted \cup {k} /\ asked' = asked
      /\ age' = [age EXCEPT ![k] = 0]
      /\ answer' = [answer EXCEPT ![k] = "ok"]
      /\ step' = [step EXCEPT ![k] = "idle"]
      /\ DOMAIN sent' = DOMAIN sent
  BY DEF Register, Seen, AnswerView, Answer
<1>2. /\ PlaneTypeOK' /\ DOMAIN sent' = Agents
      /\ \A j \in Agents : answer'[j] = "ok" => sent'[j] # NoView
  <2>1. vpn' \in [Agents -> Nat] /\ nextOctet' \in Nat \ {0, 1}
    BY DEF Register
  <2>2. members' \subseteq Agents /\ age' \in [Agents -> 0 .. Ttl + 1]
    BY <1>1, EvictedMembers, TtlAssumption
  <2>3. sent' = [sent EXCEPT ![k] = ViewOf(k, members', vpn')]
        /\ ViewOf(k, members', vpn') # NoView
    BY <2>1, <2>2, ViewIsThere DEF Register, AnswerView
  <2> QED
    BY <1>1, <2>1, <2>2, <2>3 DEF HandlerSteps
<1>3. CASE vpn[k] # 0
  <2>1. vpn' = vpn /\ nextOctet' = nextOctet
    BY <1>3 DEF Register
  <2> QED
    BY <1>1, <1>2, <1>3, <2>1, EvictedMembers, SameAddresses DEF AddressesUnique
<1>4. CASE vpn[k] = 0
  <2>1. vpn' = [vpn EXCEPT ![k] = nextOctet] /\ nextOctet' = nextOctet + 1
    BY <1>4 DEF Register
  <2>2. \A j \in Agents : vpn'[j] < nextOctet'
    BY <2>1
  <2>3. AddressesUnique'
    <3>1. \A j \in Agents : vpn[j] # nextOctet
      OBVIOUS
    <3>2. \A i, j \in Agents : i # j /\ vpn'[i] # 0 => vpn'[i] # vpn'[j]
      BY <2>1, <3>1 DEF AddressesUnique
    <3>3. \A j \in members' : vpn'[j] # 0
      BY <1>1, <2>1, EvictedMembers DEF AddressesUnique
    <3> QED
      BY <3>2, <3>3 DEF AddressesUnique
  <2>4. nextOctet' = Cardinality(Addressed') + 2
    <3> HIDE DEF PlaneInv, PlaneTypeOK
    <3>1. PlaneTypeOK
      BY DEF PlaneInv
    <3>2. /\ Cardinality(Addressed) \in Nat
          /\ Cardinality(Addressed') = Cardinality(Addressed) + 1
      BY <1>4, <2>1, <3>1, NextOctetCounts
    <3>3. nextOctet = Cardinality(Addressed) + 2
      BY DEF PlaneInv
    <3> QED
      BY <2>1, <3>2, <3>3
  <2> QED
    BY <1>2, <2>2, <2>3, <2>4
<1> QED
  BY <1>3, <1>4

LEMMA HandlerInv ==
    ASSUME PlaneInv, NEW k \in Agents, Handler(k)
    PROVE  PlaneInv'
<1> USE TtlAssumption, EvictedMembers, SameAddresses
    DEF PlaneInv, PlaneTypeOK, HandlerSteps, AddressesUnique, Answer
<1>1. CASE Register(k)
  BY <1>1, RegisterInv
<1>2. CASE CompareHash(k)
  BY <1>2 DEF CompareHash
<1>3. CASE Touch(k)
  BY <1>3 DEF Touch, Seen
<1>4. CASE Ping(k)
  <2>1. ViewOf(k, Evicted, vpn) # NoView
    BY ViewIsThere
  <2> QED
    BY <1>4, <2>1 DEF Ping, Seen, AnswerView
<1> QED
  BY <1>1, <1>2, <1>3, <1>4 DEF Handler

LEMMA AskInv ==
    ASSUME PlaneInv, NEW k \in Agents, NEW s \in {"register", "compare"},
           NEW view, Ask(k, s, view)
    PROVE  PlaneInv'
BY SameAddresses
DEF PlaneInv, PlaneTypeOK, HandlerSteps, AddressesUnique, Ask, storeVars

LEMMA PassTimeInv ==
    ASSUME PlaneInv, PassTime
    PROVE  PlaneInv'
<1>1. age' \in [Agents -> 0 .. Ttl + 1]
  BY OlderType DEF PlaneInv, PlaneTypeOK, PassTime, Second
<1> QED
  BY <1>1, SameAddresses DEF PlaneInv, PlaneTypeOK, AddressesUnique, PassTime, requestVars

LEMMA PlaneStepInv ==
    PlaneInv /\ [PlaneNext]_planeVars => PlaneInv'
<1> SUFFICES ASSUME PlaneInv, [PlaneNext]_planeVars
             PROVE  PlaneInv'
  OBVIOUS
<1>1. CASE \E k \in Agents : Handler(k)
  BY <1>1, HandlerInv
<1>2. CASE \E k \in Agents : Ask(k, "register", NoView)
  BY <1>2, AskInv
<1>3. CASE \E k \in Agents : \E view \in {NoView, sent[k]} : Ask(k, "compare", view)
  BY <1>3, AskInv
<1>4. CASE PassTime
  BY <1>4, PassTimeInv
<1>5. CASE UNCHANGED planeVars
  BY <1>5, SameAddresses
  DEF planeVars, storeVars, requestVars, PlaneInv, PlaneTypeOK, AddressesUnique
<1>6. CASE ServerRestart
  BY <1>6, RestartInv
<1> QED
  BY <1>1, <1>2, <1>3, <1>4, <1>5, <1>6 DEF PlaneNext

(***************************************************************************)
(* The inductive invariant of the store holds of every reachable state.    *)
(***************************************************************************)
THEOREM PlaneInvariant ==
    PlaneSpec => []PlaneInv
BY InitInv, PlaneStepInv, PTL DEF PlaneSpec

(***************************************************************************)
(* The store and its handlers keep their types, however they interleave:   *)
(* ping and compare_hash never build the view of a key that is gone.       *)
(***************************************************************************)
THEOREM PlaneTypeCorrect ==
    PlaneSpec => []PlaneTypeOK
<1>1. PlaneInv => PlaneTypeOK
  BY DEF PlaneInv
<1> QED
  BY <1>1, PlaneInvariant, PTL

(***************************************************************************)
(* register never gives an address to two agents, whoever was evicted.     *)
(***************************************************************************)
THEOREM UniqueAddresses ==
    PlaneSpec => []AddressesUnique
<1>1. PlaneInv => AddressesUnique
  BY DEF PlaneInv
<1> QED
  BY <1>1, PlaneInvariant, PTL

(***************************************************************************)
(* n agents never need more than the first n addresses.                    *)
(***************************************************************************)
THEOREM OctetsBounded ==
    PlaneSpec => []OctetsSuffice
<1>1. ASSUME PlaneInv
      PROVE  OctetsSuffice
  <2>1. Cardinality(Addressed) <= Cardinality(Agents)
    <3>1. Addressed \subseteq Agents
      BY DEF Addressed
    <3> QED
      BY <3>1, AgentsAssumption, FS_Subset
  <2>2. Cardinality(Addressed) \in Nat /\ Cardinality(Agents) \in Nat
    BY AgentsAssumption, FS_Subset, FS_CardinalityType DEF Addressed
  <2> QED
    BY <1>1, <2>1, <2>2 DEF PlaneInv, PlaneTypeOK, OctetsSuffice
<1> QED
  BY <1>1, PlaneInvariant, PTL

----------------------------------------------------------------------------
(* Action properties *)

(***************************************************************************)
(* An address once given out stays with its key, through evictions and     *)
(* registrations, until the server is restarted.                           *)
(***************************************************************************)
THEOREM AddressesKept ==
    PlaneSpec => KeepsAddress
<1>1. ASSUME PlaneInv, [PlaneNext]_planeVars
      PROVE  [ServerRestart
                \/ \A k \in Agents : vpn[k] # 0 => vpn'[k] = vpn[k]]_planeVars
  <2>1. ASSUME NEW k \in Agents, Handler(k)
        PROVE  \A j \in Agents : vpn[j] # 0 => vpn'[j] = vpn[j]
    <3>1. vpn' = vpn \/ (vpn[k] = 0 /\ vpn' = [vpn EXCEPT ![k] = nextOctet])
      BY <2>1 DEF Handler, Register, CompareHash, Touch, Ping
    <3> QED
      BY <1>1, <3>1 DEF PlaneInv, PlaneTypeOK
  <2>2. ASSUME NEW k \in Agents, NEW s, NEW view, Ask(k, s, view)
        PROVE  vpn' = vpn
    BY <2>2 DEF Ask, storeVars
  <2>3. CASE PassTime
    BY <2>3 DEF PassTime
  <2> QED
    BY <1>1, <2>1, <2>2, <2>3 DEF PlaneNext
<1> QED
  BY <1>1, PlaneInvariant, PTL DEF PlaneSpec, KeepsAddress

\* The peers of a view are registered agents other than its reader.
LEMMA ViewPeers ==
    ASSUME NEW k, NEW S, NEW v
    PROVE  DOMAIN ViewOf(k, S, v).peers = S \ {k}
BY DEF ViewOf

LEMMA EvictedFresh ==
    ASSUME PlaneInv
    PROVE  \A p \in Evicted : age[p] <= Ttl
BY TtlAssumption DEF Evicted, PlaneInv, PlaneTypeOK

(***************************************************************************)
(* No view that is sent lists an agent that has been silent for longer     *)
(* than the TTL.                                                           *)
(***************************************************************************)
THEOREM FreshPeersSent ==
    PlaneSpec => SendsFreshPeers
<1> DEFINE Fresh == \A k \in Agents : sent'[k] # sent[k] =>
                        \A p \in DOMAIN sent'[k].peers : age[p] <= Ttl
<1>1. ASSUME PlaneInv, [PlaneNext]_planeVars
      PROVE  [Fresh]_planeVars
  <2>1. ASSUME NEW k \in Agents, Handler(k)
        PROVE  Fresh
    <3>1. sent' = sent
            \/ \E S, v : /\ S \ {k} \subseteq Evicted
                         /\ sent' = [sent EXCEPT ![k] = ViewOf(k, S, v)]
      <4>1. CASE Register(k)
        BY <4>1 DEF Register, AnswerView
      <4>2. CASE CompareHash(k)
        BY <4>2 DEF CompareHash
      <4>3. CASE Touch(k)
        BY <4>3 DEF Touch
      <4>4. CASE Ping(k)
        BY <4>4 DEF Ping, AnswerView
      <4> QED
        BY <2>1, <4>1, <4>2, <4>3, <4>4 DEF Handler
    <3>2. CASE sent' = sent
      BY <3>2
    <3>3. ASSUME NEW S, NEW v, S \ {k} \subseteq Evicted,
                 sent' = [sent EXCEPT ![k] = ViewOf(k, S, v)]
          PROVE  Fresh
      <4>1. \A j \in Agents : j # k => sent'[j] = sent[j]
        BY <1>1, <3>3 DEF PlaneInv
      <4>2. sent'[k] = ViewOf(k, S, v)
        BY <1>1, <3>3 DEF PlaneInv
      <4> QED
        BY <1>1, <3>3, <4>1, <4>2, ViewPeers, EvictedFresh
    <3> QED
      BY <3>1, <3>2, <3>3
  <2>2. ASSUME NEW k \in Agents, NEW s, NEW view, Ask(k, s, view)
        PROVE  Fresh
    BY <2>2 DEF Ask
  <2>3. CASE PassTime
    BY <2>3 DEF PassTime, requestVars
  <2>4. CASE ServerRestart
    BY <2>4 DEF ServerRestart
  <2> QED
    BY <1>1, <2>1, <2>2, <2>3, <2>4 DEF PlaneNext
<1> QED
  BY <1>1, PlaneInvariant, PTL DEF PlaneSpec, SendsFreshPeers

----------------------------------------------------------------------------
(* The refinement of PeerRegistry *)

\* The request of k goes on, and no other.
LEMMA RequestMoves ==
    ASSUME PlaneTypeOK, NEW k \in Agents, NEW s,
           step' = [step EXCEPT ![k] = s]
    PROVE  Requests' = [Requests EXCEPT ![k] = RequestAt(s)]
BY DEF Requests, PlaneTypeOK

LEMMA RequestsAsWere ==
    ASSUME step' = step
    PROVE  Requests' = Requests
BY DEF Requests

\* What the request of k is, by where its handler is.
LEMMA RequestHere ==
    ASSUME NEW k \in Agents
    PROVE  /\ Requests[k] = RequestAt(step[k])
           /\ RequestAt("idle") = "idle" /\ RequestAt("register") = "register"
           /\ RequestAt("compare") = "ping" /\ RequestAt("ping") = "ping"
           /\ RequestAt("touch") = "same"
BY DEF Requests, RequestAt

\* An eviction by itself changes nothing that can be seen.
LEMMA EvictionUnseen ==
    ASSUME members' = Evicted, age' = age
    PROVE  Evicted' = Evicted
BY DEF Evicted

\* Nor does it make a difference to a sign of life of k.
LEMMA SignOfLife ==
    ASSUME PlaneTypeOK, NEW k \in Agents,
           \/ Register(k)
           \/ Touch(k) /\ k \in members
           \/ Ping(k) /\ k \in Evicted
    PROVE  Evicted' = Evicted \cup {k} /\ Registry!Alive(k)
<1>1. /\ age' = [age EXCEPT ![k] = 0]
      /\ members' = Evicted \cup {k} \/ (members' = members /\ k \in members)
  BY DEF Register, Touch, Ping, Seen
<1>2. age'[k] = 0 /\ \A j \in Agents \ {k} : age'[j] = age[j]
  BY <1>1 DEF PlaneTypeOK
<1>3. ~(age'[k] > Ttl)
  BY <1>2, TtlAssumption
<1>4. Evicted' = Evicted \cup {k}
  BY <1>1, <1>2, <1>3 DEF Evicted, PlaneTypeOK
<1> QED
  BY <1>1, <1>4 DEF Registry!Alive

\* An answer of the server is one of the register.
LEMMA AnswerRefines ==
    ASSUME PlaneTypeOK, NEW k \in Agents, NEW status, Answer(k, status)
    PROVE  Registry!Answered(k, status)
<1>1. Requests' = [Requests EXCEPT ![k] = RequestAt("idle")]
  BY RequestMoves DEF Answer
<1> QED
  BY <1>1, RequestHere DEF Answer, Registry!Answered

LEMMA RegisterRefines ==
    ASSUME PlaneInv, NEW k \in Agents, Register(k)
    PROVE  Registry!Register(k)
<1>0. PlaneTypeOK
  BY DEF PlaneInv
<1>1. Requests[k] = "register"
  BY RequestHere DEF Register
<1>2. Evicted' = Evicted \cup {k} /\ Registry!Alive(k)
  BY <1>0, SignOfLife
<1>3. members' = Evicted'
  BY <1>2 DEF Register
<1>4. Registry!Answered(k, "ok")
  BY <1>0, AnswerRefines DEF Register, AnswerView
<1>5. sent' = [sent EXCEPT ![k] = Registry!View(k, Evicted', vpn')]
  BY <1>3 DEF Register, AnswerView, ViewOf, Registry!View
<1>6. CASE vpn[k] # 0
  BY <1>1, <1>2, <1>4, <1>5, <1>6 DEF Register, Registry!Register
<1>7. CASE vpn[k] = 0
  <2>1. vpn' = [vpn EXCEPT ![k] = nextOctet] /\ vpn'[k] = nextOctet
    BY <1>0, <1>7 DEF Register, PlaneTypeOK
  <2>2. nextOctet \in Nat \ ({0} \cup {vpn[j] : j \in Agents})
    BY DEF PlaneInv, PlaneTypeOK
  <2>3. asked' = asked
    BY DEF Register
  <2> QED
    BY <1>1, <1>2, <1>4, <1>5, <1>7, <2>1, <2>2, <2>3 DEF Registry!Register
<1> QED
  BY <1>6, <1>7

\* Half a ping: the answer 404, the decision for 304, or nothing yet.
LEMMA CompareHashRefines ==
    ASSUME PlaneInv, NEW k \in Agents, CompareHash(k)
    PROVE  \/ Registry!Unknown(k) \/ Registry!NotModified(k)
           \/ UNCHANGED Registry!vars
<1>0. PlaneTypeOK
  BY DEF PlaneInv
<1>1. Requests[k] = "ping"
  BY RequestHere DEF CompareHash
<1>2. Evicted' = Evicted /\ UNCHANGED <<age, vpn, asked, sent>>
  BY EvictionUnseen DEF CompareHash
<1>3. CASE k \notin Evicted /\ Answer(k, "unknown")
  <2>1. Registry!Answered(k, "unknown")
    BY <1>0, <1>3, AnswerRefines
  <2> QED
    BY <1>1, <1>2, <1>3, <2>1 DEF Registry!Unknown
<1>4. CASE /\ k \in Evicted /\ answer' = answer
           /\ step' = [step EXCEPT ![k] = "touch"]
           /\ HashOf(asked[k]) = HashOf(ViewOf(k, Evicted, vpn))
  <2>1. Requests' = [Requests EXCEPT ![k] = "same"]
    BY <1>0, <1>4, RequestMoves, RequestHere
  <2>2. asked[k] = Registry!View(k, Evicted, vpn)
    BY <1>4 DEF HashOf, ViewOf, Registry!View
  <2> QED
    BY <1>1, <1>2, <1>4, <2>1, <2>2 DEF Registry!NotModified
<1>5. CASE answer' = answer /\ step' = [step EXCEPT ![k] = "ping"]
  <2>1. Requests' = [Requests EXCEPT ![k] = "ping"]
    BY <1>0, <1>5, RequestMoves, RequestHere
  <2>2. Requests' = Requests
    BY <1>1, <2>1 DEF Requests
  <2> QED
    BY <1>2, <1>5, <2>2 DEF Registry!vars
<1> QED
  BY <1>3, <1>4, <1>5 DEF CompareHash

LEMMA TouchRefines ==
    ASSUME PlaneInv, NEW k \in Agents, Touch(k)
    PROVE  Registry!Confirm(k)
<1>0. PlaneTypeOK
  BY DEF PlaneInv
<1>1. Requests[k] = "same"
  BY RequestHere DEF Touch
<1>2. Registry!Answered(k, "same")
  BY <1>0, AnswerRefines DEF Touch
<1>3. CASE k \in members
  <2>1. Registry!Alive(k)
    BY <1>0, <1>3, SignOfLife
  <2> QED
    BY <1>1, <1>2, <2>1 DEF Touch, Registry!Confirm
<1>4. CASE k \notin members
  <2>1. k \notin Evicted /\ Evicted' = Evicted /\ age' = age
    BY <1>4 DEF Touch, Evicted
  <2> QED
    BY <1>1, <1>2, <2>1 DEF Touch, Registry!Confirm
<1> QED
  BY <1>3, <1>4

LEMMA PingRefines ==
    ASSUME PlaneInv, NEW k \in Agents, Ping(k)
    PROVE  Registry!Unknown(k) \/ Registry!SendView(k)
<1>0. PlaneTypeOK
  BY DEF PlaneInv
<1>1. Requests[k] = "ping"
  BY RequestHere DEF Ping
<1>2. CASE k \notin Evicted
  <2>1. Evicted' = Evicted /\ age' = age /\ sent' = sent /\ Answer(k, "unknown")
    BY <1>2, EvictionUnseen DEF Ping
  <2>2. Registry!Answered(k, "unknown")
    BY <1>0, <2>1, AnswerRefines
  <2> QED
    BY <1>1, <1>2, <2>1, <2>2 DEF Ping, Registry!Unknown
<1>3. CASE k \in Evicted
  <2>1. AnswerView(k, ViewOf(k, Evicted, vpn))
    BY <1>3 DEF Ping
  <2>2. Registry!Alive(k)
    BY <1>0, <1>3, SignOfLife
  <2>3. Registry!Answered(k, "ok")
    BY <1>0, <2>1, AnswerRefines DEF AnswerView
  <2>4. sent' = [sent EXCEPT ![k] = Registry!View(k, Evicted, vpn)]
    BY <2>1 DEF AnswerView, ViewOf, Registry!View
  <2> QED
    BY <1>1, <1>3, <2>2, <2>3, <2>4 DEF Ping, Registry!SendView
<1> QED
  BY <1>2, <1>3

LEMMA AskRefines ==
    ASSUME PlaneInv, NEW k \in Agents, NEW s \in {"register", "compare"},
           NEW view \in {NoView, sent[k]}, Ask(k, s, view)
    PROVE  Registry!Ask(k)
<1>0. PlaneTypeOK
  BY DEF PlaneInv
<1>1. Requests[k] = "idle"
  BY RequestHere DEF Ask
<1>2. /\ Requests' = [Requests EXCEPT ![k] = RequestAt(s)]
      /\ RequestAt(s) \in {"register", "ping"}
  BY <1>0, RequestMoves, RequestHere DEF Ask
<1>3. Evicted' = Evicted /\ UNCHANGED <<age, vpn, answer, sent>>
      /\ asked' = [asked EXCEPT ![k] = view]
  BY DEF Ask, storeVars, Evicted
<1> QED
  BY <1>1, <1>2, <1>3 DEF Registry!Ask

LEMMA RestartRefines ==
    ASSUME PlaneInv, ServerRestart
    PROVE  Registry!Restart
<1>1. Evicted' = {}
  BY DEF ServerRestart, Evicted
<1>2. Requests' = [k \in Agents |-> "idle"]
  BY DEF ServerRestart, Requests, RequestAt
<1>3. \A k \in Agents : Requests[k] = "idle" <=> step[k] = "idle"
  BY DEF Requests, RequestAt, PlaneInv, PlaneTypeOK, HandlerSteps
<1>4. answer' = [k \in Agents |-> IF Requests[k] = "idle" THEN answer[k] ELSE "none"]
  BY <1>3 DEF ServerRestart
<1> QED
  BY <1>1, <1>2, <1>4 DEF ServerRestart, Registry!Restart

\* Who is overdue now was registered until now, or was overdue before.
LEMMA PassTimeRefines ==
    ASSUME PlaneInv, PassTime
    PROVE  Registry!Second
<1>1. age' = [k \in Agents |-> IF age[k] > Ttl THEN age[k] ELSE age[k] + 1]
  BY DEF PassTime, Second, Older
<1>2. \A k \in Agents : age[k] \in Nat /\ age'[k] \in Nat /\ age'[k] >= age[k]
  BY <1>1, TtlAssumption DEF PlaneInv, PlaneTypeOK
<1>3. Evicted' = {k \in Evicted : age'[k] <= Ttl}
  BY <1>2, TtlAssumption DEF PassTime, Evicted, PlaneInv, PlaneTypeOK
<1>4. Requests' = Requests
  BY RequestsAsWere DEF PassTime, requestVars
<1> QED
  BY <1>1, <1>3, <1>4 DEF PassTime, requestVars, Registry!Second

LEMMA RegistryStep ==
    PlaneInv /\ [PlaneNext]_planeVars => [Registry!Next]_(Registry!vars)
<1> SUFFICES ASSUME PlaneInv, [PlaneNext]_planeVars
             PROVE  Registry!Next \/ UNCHANGED Registry!vars
  OBVIOUS
<1>1. ASSUME NEW k \in Agents, Handler(k)
      PROVE  Registry!Next \/ UNCHANGED Registry!vars
  BY <1>1, RegisterRefines, CompareHashRefines, TouchRefines, PingRefines
  DEF Handler, Registry!Next, Registry!Request
<1>2. ASSUME NEW k \in Agents, NEW s \in {"register", "compare"},
             NEW view \in {NoView, sent[k]}, Ask(k, s, view)
      PROVE  Registry!Next
  BY <1>2, AskRefines DEF Registry!Next, Registry!Request
<1>3. CASE ServerRestart
  BY <1>3, RestartRefines DEF Registry!Next
<1>4. CASE PassTime
  BY <1>4, PassTimeRefines DEF Registry!Next
<1>5. CASE UNCHANGED planeVars
  BY <1>5 DEF planeVars, storeVars, requestVars, Registry!vars, Evicted, Requests
<1> QED
  BY <1>1, <1>2, <1>3, <1>4, <1>5 DEF PlaneNext

LEMMA RegistryInit ==
    PlaneInit => Registry!Init
<1> SUFFICES ASSUME PlaneInit PROVE Registry!Init
  OBVIOUS
<1>1. Evicted = {} /\ Requests = [k \in Agents |-> "idle"]
  BY DEF PlaneInit, Evicted, Requests, RequestAt
<1> QED
  BY <1>1 DEF PlaneInit, Registry!Init

(***************************************************************************)
(* The store with its lazy eviction and its two locks implements the       *)
(* register that drops an agent in time and answers in one step.           *)
(***************************************************************************)
THEOREM StoreIsRegistry ==
    PlaneSpec => ImplementsRegistry
BY RegistryInit, RegistryStep, PlaneInvariant, PTL
DEF PlaneSpec, ImplementsRegistry, Registry!Spec
=============================================================================
