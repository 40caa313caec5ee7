---------------------------- MODULE MCAdjacency -----------------------------
(* Routers 1 and 2, one header in a DD packet: the master's two headers    *)
(* take two packets, and the slave has an older copy of one of them and    *)
(* one the master lacks.  x is a network LSA.                              *)
EXTENDS Adjacency, TLC

CONSTANTS a, b, x

H(lsa, seq)  == [lsa |-> lsa, seq |-> seq]
MCHeader     == {H(l, s) : l \in {a, b, x}, s \in 0 .. 1}
MCDatabase   == 1 :> <<H(a, 0), H(b, 1)>> @@ 2 :> <<H(a, 1), H(x, 0)>>
MCOwnLsa     == 1 :> H(b, 1) @@ 2 :> H(a, 1)
MCDDPacket ==
    [seq: 0 .. Byte * Byte - 1, i: BOOLEAN, m: BOOLEAN, ms: BOOLEAN,
     options: Options, hdrs: {<<>>} \cup {<<h>> : h \in MCHeader}]
=============================================================================
