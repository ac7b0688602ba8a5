---------------------------- MODULE PeerRegistry ----------------------------
(***************************************************************************)
(* What the control plane promises its agents (openapi.yaml, and           *)
(* control_plane_mock/README.md: "stale agents are removed automatically   *)
(* after ttl"), with no locks, no eviction and no counter of addresses: an *)
(* agent is off the register in the second in which it has been silent for *)
(* too long, and a request is answered in one step, from the register as   *)
(* it is then.                                                             *)
(*                                                                         *)
(* One thing takes two steps.  The answer 304 is decided when the hash is  *)
(* found to be that of the current view, and is a sign of life only when   *)
(* it is given: should time run out in between, the agent may be on the    *)
(* register again, or be told that nothing has changed while it is off.    *)
(***************************************************************************)
EXTENDS Naturals

CONSTANTS Agents, Ttl, NoView

VARIABLES
    registered, \* the agents that others are told of
    age,        \* seconds since the last sign of life of each agent
    vpn,        \* address of each agent, 0 if it was never given one
    step,       \* the request of each agent: none, or which one
    asked,      \* the view that the hash in it is of
    answer,     \* the answer to the last one
    sent        \* the last view each agent was sent

vars == <<registered, age, vpn, step, asked, answer, sent>>

Init ==
    /\ registered = {}
    /\ age = [k \in Agents |-> 0]
    /\ vpn = [k \in Agents |-> 0]
    /\ step = [k \in Agents |-> "idle"]
    /\ asked = [k \in Agents |-> NoView]
    /\ answer = [k \in Agents |-> "none"]
    /\ sent = [k \in Agents |-> NoView]

\* The view of k with the registered agents S and the addresses v.
View(k, S, v) == [ip |-> v[k], peers |-> [p \in S \ {k} |-> v[p]]]

Answered(k, status) ==
    /\ answer' = [answer EXCEPT ![k] = status]
    /\ step' = [step EXCEPT ![k] = "idle"]

Alive(k) ==
    /\ registered' = registered \cup {k}
    /\ age' = [age EXCEPT ![k] = 0]

Ask(k) ==
    /\ step[k] = "idle"
    /\ \E request \in {"register", "ping"}, view \in {NoView, sent[k]} :
           /\ step' = [step EXCEPT ![k] = request]
           /\ asked' = [asked EXCEPT ![k] = view]
    /\ UNCHANGED <<registered, age, vpn, answer, sent>>

\* Any address will do that nobody else was ever given; an agent that comes
\* back has the one it had.
Register(k) ==
    /\ step[k] = "register"
    /\ Alive(k)
    /\ \/ vpn[k] # 0 /\ UNCHANGED vpn
       \/ /\ vpn[k] = 0
          /\ vpn'[k] \in Nat \ ({0} \cup {vpn[j] : j \in Agents})
          /\ vpn' = [vpn EXCEPT ![k] = vpn'[k]]
    /\ Answered(k, "ok")
    /\ sent' = [sent EXCEPT ![k] = View(k, registered', vpn')]
    /\ UNCHANGED asked

SendView(k) ==
    /\ step[k] = "ping" /\ k \in registered
    /\ Alive(k)
    /\ Answered(k, "ok")
    /\ sent' = [sent EXCEPT ![k] = View(k, registered, vpn)]
    /\ UNCHANGED <<vpn, asked>>

Unknown(k) ==
    /\ step[k] = "ping" /\ k \notin registered
    /\ Answered(k, "unknown")
    /\ UNCHANGED <<registered, age, vpn, asked, sent>>

NotModified(k) ==
    /\ step[k] = "ping" /\ k \in registered
    /\ asked[k] = View(k, registered, vpn)
    /\ step' = [step EXCEPT ![k] = "same"]
    /\ UNCHANGED <<registered, age, vpn, asked, answer, sent>>

Confirm(k) ==
    /\ step[k] = "same"
    /\ Alive(k) \/ (k \notin registered /\ UNCHANGED <<registered, age>>)
    /\ Answered(k, "same")
    /\ UNCHANGED <<vpn, asked, sent>>

\* Requests under way get no answer.
Restart ==
    /\ registered' = {}
    /\ vpn' = [k \in Agents |-> 0]
    /\ step' = [k \in Agents |-> "idle"]
    /\ answer' = [k \in Agents |-> IF step[k] = "idle" THEN answer[k] ELSE "none"]
    /\ UNCHANGED <<age, asked, sent>>

\* Time is not counted beyond the first second too many.
Second ==
    /\ age' = [k \in Agents |-> IF age[k] > Ttl THEN age[k] ELSE age[k] + 1]
    /\ registered' = {k \in registered : age'[k] <= Ttl}
    /\ UNCHANGED <<vpn, step, asked, answer, sent>>

Request(k) ==
    \/ Ask(k) \/ Register(k) \/ SendView(k) \/ Unknown(k)
    \/ NotModified(k) \/ Confirm(k)

Next == (\E k \in Agents : Request(k)) \/ Restart \/ Second

Spec == Init /\ [][Next]_vars
=============================================================================
