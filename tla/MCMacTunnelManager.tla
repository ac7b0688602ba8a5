------------------------- MODULE MCMacTunnelManager -------------------------
(* Small instances of MacTunnelManager for TLC. *)
EXTENDS MacTunnelManager, TLC

CONSTANTS k1, k2, k3, i1, i2

Rec(k, S) == [key |-> k, ips |-> S]

\* The first two peers have the same address, which passes from one to the
\* other; no command takes the address of the third.
MovingLists ==
    {L \in SUBSET {Rec(k1, {i1}), Rec(k2, {i1}), Rec(k3, {i2})} : Disjoint(L)}

OneList == {{Rec(k1, {i1})}}

NoFaults == {}

AllMacFaults == MacFaultPoints
=============================================================================
