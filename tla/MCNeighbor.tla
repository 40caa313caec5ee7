----------------------------- MODULE MCNeighbor -----------------------------
(* A small Neighbor for TLC: my router id is 2, the peer's 1 or 3, so both *)
(* outcomes of the negotiation occur; a DD packet holds one header, so a   *)
(* two-header database takes two packets.                                  *)
EXTENDS Neighbor, TLC

CONSTANTS r1, r2, bad

Symmetric == Permutations(Senders)

MCHeader    == {r1, r2, bad}
MCBadHeader == {bad}
MCRouterId  == {0, 1, 3}
MCDatabases == {<<>>, <<r1>>, <<r1, r2>>}

(* Empty DD packets, and the packets of an exchange with any sequence      *)
(* number, bits and headers; the one with a bad header is the last.        *)
DDs(i, M, MS, H) == [seq: SeqNum, i: {i}, m: M, ms: MS, options: Options,
                     hdrs: H]
MCDDPacket ==
    DDs(TRUE, {TRUE}, {TRUE}, {<<>>}) \cup
    DDs(FALSE, BOOLEAN, BOOLEAN, {<<>>, <<r1>>}) \cup
    DDs(FALSE, {FALSE}, BOOLEAN, {<<bad>>})

MCOwnHeader == {r2}
(* For liveness: a peer with the higher id, one packet of an exchange. *)
LiveRouterId  == {0, 3}
LiveDatabases == {<<>>, <<r1>>}
LiveDDPacket  ==
    DDs(TRUE, {TRUE}, {TRUE}, {<<>>}) \cup DDs(FALSE, {FALSE}, BOOLEAN, {<<>>})
=============================================================================
