-------------------------- MODULE MCTunnelManager --------------------------
(* Small instances of TunnelManager for TLC. *)
EXTENDS TunnelManager, TLC

CONSTANTS k1, k2, k3, i1, i2, i3

Rec(k, S) == [key |-> k, ips |-> S]

\* One record per key.  The second and the third peer have the same address
\* and are never in one list: the address passes from one to the other.
StableLists ==
    {L \in SUBSET {Rec(k1, {i1}), Rec(k2, {i2}), Rec(k3, {i2})} : Disjoint(L)}

\* The failures before the first peer, which update_peers does not see.
CreateFaults == {"make", "setkey", "addr", "up", "down"}

OnlySetPeer == {"setpeer"}
=============================================================================
