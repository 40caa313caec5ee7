----------------------------- MODULE MCFlooding -----------------------------
(* Two peers; the router's own two LSAs, another router's, and a network   *)
(* LSA of that router, which it may have originated as DR.                 *)
EXTENDS Flooding, TLC

MCOwnRouter  == [type |-> "router",  id |-> 8, adv |-> 8]
MCOwnNetwork == [type |-> "network", id |-> 2, adv |-> 8]
OtherRouter  == [type |-> "router",  id |-> 9, adv |-> 9]
OtherNetwork == [type |-> "network", id |-> 3, adv |-> 9]

MCKey == {MCOwnRouter, MCOwnNetwork, OtherRouter, OtherNetwork}

Wire(k, s) == [key |-> k, seq |-> s, checksum |-> 1, age |-> 0]

(* Two instances of the others, and one of our network LSA from an earlier *)
(* life of this process.                                                   *)
MCWireLsa == {Wire(k, s) : k \in {OtherRouter, OtherNetwork}, s \in 1 .. 2}
                 \cup {Wire(MCOwnNetwork, 5)}
CONSTANTS p1, p2

(* One peer describes the router LSA, possibly at MAX_AGE; the other the   *)
(* network LSA.                                                            *)
AtAge(i, n) == [i EXCEPT !.age = n]
MCDDHeader ==
    [p \in Peer |-> IF p = p1 THEN {Wire(OtherRouter, 2), AtAge(Wire(OtherRouter, 2), MAX_AGE)}
                    ELSE {AtAge(Wire(OtherNetwork, 2), 2)}]

(* DR, or a peer is: then the other peer is given up.  (As Backup the      *)
(* router would only acknowledge less.)                                    *)
MCOutcome == {<<MyIp, p1>>, <<p1, NoIp>>}

Symmetry == Permutations(Chunk)
=============================================================================
