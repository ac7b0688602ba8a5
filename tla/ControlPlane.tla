---------------------------- MODULE ControlPlane ----------------------------
(***************************************************************************)
(* The stateful control plane of control_plane_mock/mock_server.py: the    *)
(* PeerStore and the handler threads of ThreadingHTTPServer that share it. *)
(*                                                                         *)
(* Each method of the store runs under its lock and is one step.  A POST   *)
(* /register is one such step, a GET /ping two: compare_hash, then touch   *)
(* or ping, and other handlers run between them.  Time passes in seconds   *)
(* between any two steps; a record's age stands for the time since its     *)
(* last_seen_epoch and is not counted beyond the first second too many.    *)
(*                                                                         *)
(* An agent is its public key, its endpoint and host name are fixed, and   *)
(* it waits for one answer before it asks again.  Addresses are their host *)
(* octets.                                                                 *)
(*                                                                         *)
(* All of it is in memory: a server that is started again knows nobody and *)
(* hands out the addresses from the first one on.                          *)
(***************************************************************************)
EXTENDS Naturals, FiniteSets

CONSTANTS
    Agents,     \* public keys
    Ttl,        \* _ttl_seconds
    NoView      \* no hash, no answer

ASSUME TtlAssumption == Ttl \in Nat

PeerMaps == UNION {[S -> Nat] : S \in SUBSET Agents}

ASSUME NoViewAssumption == NoView \notin [ip : Nat, peers : PeerMaps]

ASSUME AgentsAssumption == IsFiniteSet(Agents)

VARIABLES
    members,    \* the keys in _agents_by_key
    age,        \* of the record of each key
    vpn,        \* _vpn_by_key, 0 for a key that has no address yet
    nextOctet,  \* _next_host_octet
    step,       \* where the handler of each agent's request is
    asked,      \* the hash in the request, as the view it is the hash of
    answer,     \* the status of the last answer to each agent
    sent        \* the last view sent to each agent

storeVars == <<members, age, vpn, nextOctet>>
requestVars == <<step, asked, answer, sent>>
planeVars == <<storeVars, requestVars>>

HandlerSteps == {"idle", "register", "compare", "touch", "ping"}

PlaneTypeOK ==
    /\ members \subseteq Agents
    /\ age \in [Agents -> 0 .. Ttl + 1]
    /\ vpn \in [Agents -> Nat]
    /\ nextOctet \in Nat \ {0, 1}
    /\ step \in [Agents -> HandlerSteps]
    /\ answer \in [Agents -> {"none", "ok", "same", "unknown"}]

PlaneInit ==
    /\ members = {}
    /\ age = [k \in Agents |-> 0]
    /\ vpn = [k \in Agents |-> 0]
    /\ nextOctet = 2
    /\ step = [k \in Agents |-> "idle"]
    /\ asked = [k \in Agents |-> NoView]
    /\ answer = [k \in Agents |-> "none"]
    /\ sent = [k \in Agents |-> NoView]

----------------------------------------------------------------------------
(* PeerStore *)

\* _evict_stale_locked
Evicted == members \ {k \in members : age[k] > Ttl}

\* The keys in _vpn_by_key.
Addressed == {k \in Agents : vpn[k] # 0}

\* _build_peer_response_locked: what k is told when S is registered with the
\* addresses v.
ViewOf(k, S, v) == [ip |-> v[k], peers |-> [p \in S \ {k} |-> v[p]]]

\* A slip: only the caller's own record is hashed.
HashOfSelf(view) == IF view = NoView THEN view ELSE [view EXCEPT !.peers = <<>>]

\* The hash covers all of the view but the times in it.
HashOf(view) == view

Seen(k) == age' = [age EXCEPT ![k] = 0]

Answer(k, status) ==
    /\ answer' = [answer EXCEPT ![k] = status]
    /\ step' = [step EXCEPT ![k] = "idle"]

AnswerView(k, view) ==
    /\ Answer(k, "ok")
    /\ sent' = [sent EXCEPT ![k] = view]

\* Slips: an address is given out twice, or an agent that was evicted gets a
\* new one.
RegisterTwice(k) ==
    /\ step[k] = "register"
    /\ members' = Evicted \cup {k}
    /\ Seen(k)
    /\ vpn' = [vpn EXCEPT ![k] = IF @ # 0 THEN @ ELSE nextOctet]
    /\ AnswerView(k, ViewOf(k, members', vpn'))
    /\ UNCHANGED <<nextOctet, asked>>

RegisterAnew(k) ==
    /\ step[k] = "register"
    /\ members' = Evicted \cup {k}
    /\ Seen(k)
    /\ IF k \in Evicted
       THEN UNCHANGED <<vpn, nextOctet>>
       ELSE vpn' = [vpn EXCEPT ![k] = nextOctet] /\ nextOctet' = nextOctet + 1
    /\ AnswerView(k, ViewOf(k, members', vpn'))
    /\ UNCHANGED asked

\* register: an address is kept for its key also when the record is evicted.
Register(k) ==
    /\ step[k] = "register"
    /\ members' = Evicted \cup {k}
    /\ Seen(k)
    /\ IF vpn[k] # 0
       THEN UNCHANGED <<vpn, nextOctet>>
       ELSE vpn' = [vpn EXCEPT ![k] = nextOctet] /\ nextOctet' = nextOctet + 1
    /\ AnswerView(k, ViewOf(k, members', vpn'))
    /\ UNCHANGED asked

\* A slip: the view of a key that is not registered is built, and raises.
CompareHashRaises(k) ==
    /\ step[k] = "compare"
    /\ members' = Evicted
    /\ step' = [step EXCEPT ![k] = IF k \in Evicted THEN "ping" ELSE "raised"]
    /\ UNCHANGED <<age, vpn, nextOctet, asked, answer, sent>>

\* compare_hash, and what do_GET makes of its result.
CompareHash(k) ==
    /\ step[k] = "compare"
    /\ members' = Evicted
    /\ \/ k \notin Evicted /\ Answer(k, "unknown")
       \/ /\ k \in Evicted
          /\ step' = [step EXCEPT ![k] =
                 IF HashOf(asked[k]) = HashOf(ViewOf(k, Evicted, vpn))
                 THEN "touch" ELSE "ping"]
          /\ UNCHANGED answer
    /\ UNCHANGED <<age, vpn, nextOctet, asked, sent>>

\* A slip: the answer 304 does not count as a sign of life.
TouchNothing(k) ==
    /\ step[k] = "touch"
    /\ Answer(k, "same")
    /\ UNCHANGED <<storeVars, asked, sent>>

\* touch: no eviction, and no effect on a record that is gone.
Touch(k) ==
    /\ step[k] = "touch"
    /\ IF k \in members THEN Seen(k) ELSE UNCHANGED age
    /\ Answer(k, "same")
    /\ UNCHANGED <<members, vpn, nextOctet, asked, sent>>

\* A slip: ping relies on the eviction that compare_hash has done.
PingStale(k) ==
    /\ step[k] = "ping"
    /\ \/ k \notin members /\ Answer(k, "unknown") /\ UNCHANGED <<age, sent>>
       \/ k \in members /\ Seen(k) /\ AnswerView(k, ViewOf(k, members, vpn))
    /\ UNCHANGED <<members, vpn, nextOctet, asked>>

Ping(k) ==
    /\ step[k] = "ping"
    /\ members' = Evicted
    /\ \/ k \notin Evicted /\ Answer(k, "unknown") /\ UNCHANGED <<age, sent>>
       \/ k \in Evicted /\ Seen(k) /\ AnswerView(k, ViewOf(k, Evicted, vpn))
    /\ UNCHANGED <<vpn, nextOctet, asked>>

Handler(k) == Register(k) \/ CompareHash(k) \/ Touch(k) \/ Ping(k)

\* A request arrives: the hash is of a view that was sent, or missing.
Ask(k, s, view) ==
    /\ step[k] = "idle"
    /\ step' = [step EXCEPT ![k] = s]
    /\ asked' = [asked EXCEPT ![k] = view]
    /\ UNCHANGED <<storeVars, answer, sent>>

\* The process ends and another one starts; a request under way gets no
\* answer.
ServerRestart ==
    /\ members' = {}
    /\ vpn' = [k \in Agents |-> 0]
    /\ nextOctet' = 2
    /\ answer' = [k \in Agents |-> IF step[k] = "idle" THEN answer[k] ELSE "none"]
    /\ step' = [k \in Agents |-> "idle"]
    /\ UNCHANGED <<age, asked, sent>>

Older(n) == IF n > Ttl THEN n ELSE n + 1

Second == age' = [k \in Agents |-> Older(age[k])]

----------------------------------------------------------------------------
(* The store with agents that ask whatever and whenever they like *)

PassTime == Second /\ UNCHANGED <<members, vpn, nextOctet, requestVars>>

PlaneNext ==
    \/ \E k \in Agents : Handler(k)
    \/ \E k \in Agents : Ask(k, "register", NoView)
    \/ \E k \in Agents : \E view \in {NoView, sent[k]} : Ask(k, "compare", view)
    \/ ServerRestart
    \/ PassTime

PlaneSpec == PlaneInit /\ [][PlaneNext]_planeVars
----------------------------------------------------------------------------
(* Properties *)

(***************************************************************************)
(* No two agents have the same VPN address, registered or not, and an      *)
(* agent in the store has one.                                             *)
(***************************************************************************)
AddressesUnique ==
    /\ \A j, k \in Agents : j # k /\ vpn[j] # 0 => vpn[j] # vpn[k]
    /\ \A k \in members : vpn[k] # 0

(***************************************************************************)
(* An agent keeps its address as long as the server lives: the others may  *)
(* go on routing to it when it comes back after an eviction.               *)
(***************************************************************************)
KeepsAddress ==
    [][ServerRestart \/ \A k \in Agents : vpn[k] # 0 => vpn'[k] = vpn[k]]_planeVars

(***************************************************************************)
(* Addresses are never taken back and never checked against 254, but none  *)
(* is wasted either: n agents get along with the first n, however often    *)
(* each is evicted and registered again.  As every start of an agent is a  *)
(* new key, a server has seen 253 starts when the addresses run out.       *)
(***************************************************************************)
OctetsSuffice == \A k \in Agents : vpn[k] <= Cardinality(Agents) + 1

(***************************************************************************)
(* A view that is sent lists no agent that has been silent for longer than *)
(* the TTL (control_plane_mock/README.md line 34, "stale agents are        *)
(* removed automatically after ttl"), also when time passes between the    *)
(* two halves of a request.                                                *)
(***************************************************************************)
SendsFreshPeers ==
    [][\A k \in Agents : sent'[k] # sent[k] =>
           \A p \in DOMAIN sent'[k].peers : age[p] <= Ttl]_planeVars

(***************************************************************************)
(* The store implements PeerRegistry: that records are evicted only when a *)
(* request comes by, and that a ping works under two locks, cannot be seen *)
(* from outside, except by an agent that is told 304.  Its record may be   *)
(* overdue when it is touched, and then counts again, unless a request of  *)
(* another agent came first.                                               *)
(***************************************************************************)
RequestAt(s) ==
    CASE s \in {"compare", "ping"} -> "ping"
      [] s = "touch" -> "same"
      [] OTHER -> s

Requests == [k \in Agents |-> RequestAt(step[k])]

Registry == INSTANCE PeerRegistry WITH registered <- Evicted, step <- Requests

ImplementsRegistry == Registry!Spec

----------------------------------------------------------------------------
(* The inductive invariant behind AddressesUnique *)

\* Every address given out lies below the next one, which counts them, only
\* agents that were given one are in the store, and who is answered 200 was
\* sent a view.
PlaneInv ==
    /\ PlaneTypeOK
    /\ DOMAIN sent = Agents
    /\ \A k \in Agents : answer[k] = "ok" => sent[k] # NoView
    /\ \A k \in Agents : vpn[k] < nextOctet
    /\ nextOctet = Cardinality(Addressed) + 2
    /\ AddressesUnique
=============================================================================
