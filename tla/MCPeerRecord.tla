---------------------------- MODULE MCPeerRecord ----------------------------
(* A small instance of PeerRecord for TLC, with addresses of full width. *)
EXTENDS PeerRecord, TLC

CONSTANTS k1, k2, k3

Ip4(bits, n) == [family |-> "v4", bits |-> bits, prefix |-> n]

Ip6(bits, n) == [family |-> "v6", bits |-> bits, prefix |-> n]

Hostname == [family |-> "none", bits |-> {}, prefix |-> 8]

To(host, brackets, port) == [host |-> host, brackets |-> brackets, port |-> port]

Rec(ips, t) == [ips |-> ips, endpoint |-> t]

\* 10.8.0.5 and an address of every byte in IPv6.
A4 == {4, 6, 12, 29, 31}
B4 == {4, 6, 12, 29, 30}
A6 == {5, 8, 20, 67, 68, 69, 127}

\* The lengths that both parsers read alike, around every limit they have.
Plain4 == [i \in 1..5 |-> Ip4(A4, <<1, 7, 13, 31, 32>>[i])]
Plain6 == [i \in 1..9 |-> Ip6(A6, <<0, 1, 8, 67, 68, 69, 70, 127, 128>>[i])]

\* A length on its own, before and behind one that is read alike.
Odd4(n) == <<Ip4(A4, n), Ip6(A6, 68)>>
Odd6(n) == <<Hostname, Ip6(A6, n), Ip4(A4, 13)>>

\* Each record has an endpoint of its own.  Of the ports some are zero, more
\* than 16 bits, or negative: 80 - ULongs is one that stoul wraps to a port,
\* -80 one that it wraps to a larger number, 80 - 2 * ULongs too long for it.
RecordsOfOne ==
    {Rec(Plain4, To("v4", "none", 51820)),
     Rec(Plain6, To("v6", "stray", 51820)),
     Rec(Odd4(0), To("v6", "pair", 65535)),
     Rec(Odd4(Absent), To("v4", "none", 65536 + 22)),
     Rec(Odd4(-248), To("v4", "none", 0)),
     Rec(Odd4(256), To("v4", "none", 80 - ULongs)),
     Rec(Odd4(288), To("v4", "none", -80)),
     Rec(Odd6(Absent), To("none", "none", 51820)),
     Rec(Odd6(320), To("v4", "none", 80 - 2 * ULongs)),
     Rec(Odd6(384), Junk)}
    \cup {Rec(Odd4(n), To("v4", "none", 443)) : n \in {Junk, -1, 33, 128}}
    \cup {Rec(Odd6(n), None) : n \in {Junk, 129, 255}}

\* k2 and k3 have networks in common, k1 shares none of its own with them.
MCRecords ==
    (k1 :> RecordsOfOne)
    @@ (k2 :> {Rec(<<Ip4(B4 \cup {1}, 32), Ip4({1}, n)>>, None) : n \in {Junk, 24, 33}}
              \cup {Rec(<<>>, To("v4", "pair", 80))})
    @@ (k3 :> {Rec(<<Ip4(A4 \cup {1}, n), Ip4(B4 \cup {1}, 32)>>, None) : n \in {Junk, 24}})
=============================================================================
