------------------------------ MODULE MCAgent ------------------------------
(* Small instances of Agent for TLC. *)
EXTENDS Agent, TLC

CONSTANTS k1, k2, k3, i0, i1, i2

Rec(k, S) == [key |-> k, ips |-> S]

\* One record per key.  The two peers have the same address: it passes from
\* one to the other.
SharedLists == {{}, {Rec(k1, {i1})}, {Rec(k2, {i1})}}

\* A list may name a key twice, hold a key that does not decode (k3), an
\* address without a prefix (i0) and one that does not parse (i2).
TroubledLists ==
    {{}, {Rec(k1, {i1}), Rec(k3, {i1})}, {Rec(k1, {i1}), Rec(k1, {i0}), Rec(k2, {i2})}}

SameAddress == {[ip |-> i0, peers |-> L] : L \in Lists}

\* The agent's own address may be new, or not parse.
NewAddress == {[ip |-> i, peers |-> L] : i \in {i0, i2}, L \in Lists}

\* The agent and its peer before and after a restart of the control plane,
\* which hands out the two addresses in the other order.
SwappedLists == {{Rec(k1, {i1})}, {Rec(k1, {i0})}}

Swapped == {[ip |-> i0, peers |-> {Rec(k1, {i1})}], [ip |-> i1, peers |-> {Rec(k1, {i0})}]}

NoFaults == {}

\* The failures before the first peer.
CreateFaults == {"make", "setkey", "addr", "up"}

AllFaults == FaultPoints

OnlySetPeer == {"setpeer"}

NoAgentFaults == {}

AllAgentFaults == AgentFaultPoints

ReplyFaults == {"lost", "nohash", "badhash"}
=============================================================================
